\* Spec scenario 1 on xHCI: one USB2 device on port 0 of a 2-port root
\* hub, nothing on port 1, a controller that answers every wait in time.
CONSTANTS
    NULL = NULL
    NumPorts = 2
    Present = {0}
    Usb3Ports = {}
    MaxSlots = 2
    CrSize = 8
    ErSize = 32
    NumCtl = 2
    Timeout = 2
    Timely = TRUE
SPECIFICATION Spec
\* bl_usb_root_hub_register ends after the last port.
CHECK_DEADLOCK FALSE
INVARIANT
    RegisteredDevicesAddressed

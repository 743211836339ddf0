\* A USB2 device on root port 0 and a USB3 device on root port 1, and a
\* controller that answers every wait in time: the boot port status change
\* events of both ports are on the event ring before bl_usb_setup.
CONSTANTS
    NULL = NULL
    NumPorts = 2
    Present = {0, 1}
    Usb3Ports = {1}
    MaxSlots = 2
    CrSize = 8
    ErSize = 32
    NumCtl = 2
    Timeout = 2
    Timely = TRUE
SPECIFICATION Spec
\* bl_usb_root_hub_register ends after the last port.
CHECK_DEADLOCK FALSE
INVARIANT
    ConnectedDevicesRegistered

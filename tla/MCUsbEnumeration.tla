-------------------------- MODULE MCUsbEnumeration --------------------------
(* The bus topology for the enumeration model.                           *)
EXTENDS UsbEnumeration, TLC

CONSTANTS hc1, hc2, d1, d2, d3, d4, d5, d6, d7, d8, d9, d10, d11

(* Legacy: a UHCI controller with a hub tree (a 2-port hub on root port 1 *)
(* with a 1-port hub and a keyboard below it, a storage device plugged    *)
(* late under the inner hub) and a keyboard on root port 2; an OHCI       *)
(* controller with five 1-port hubs in a chain (the deepest the USB      *)
(* allows, filling port_chain) ending in a storage device.                *)
LegacyHCs == {hc1, hc2}
LegacyHcList == <<hc1, hc2>>
LegacyHcType == hc1 :> "uhci" @@ hc2 :> "ohci"
LegacyRootPorts == hc1 :> 2 @@ hc2 :> 1
LegacyDevs == {d1, d2, d3, d4, d5, d6, d7, d8, d9, d10, d11}
LegacyKind == d1 :> "hub" @@ d2 :> "kbd" @@ d3 :> "hub" @@ d4 :> "storage"
              @@ d5 :> "kbd" @@ d6 :> "hub" @@ d7 :> "hub" @@ d8 :> "hub"
              @@ d9 :> "hub" @@ d10 :> "hub" @@ d11 :> "storage"
LegacyHubPorts == d1 :> 2 @@ d2 :> 0 @@ d3 :> 1 @@ d4 :> 0 @@ d5 :> 0
                  @@ d6 :> 1 @@ d7 :> 1 @@ d8 :> 1 @@ d9 :> 1 @@ d10 :> 1 @@ d11 :> 0
LegacyLoc == d1 :> [up |-> hc1, port |-> 1] @@ d2 :> [up |-> hc1, port |-> 2]
             @@ d3 :> [up |-> d1, port |-> 1] @@ d5 :> [up |-> d1, port |-> 2]
             @@ d4 :> [up |-> d3, port |-> 1]
             @@ d6 :> [up |-> hc2, port |-> 1] @@ d7 :> [up |-> d6, port |-> 1]
             @@ d8 :> [up |-> d7, port |-> 1] @@ d9 :> [up |-> d8, port |-> 1]
             @@ d10 :> [up |-> d9, port |-> 1] @@ d11 :> [up |-> d10, port |-> 1]
LegacyLatePlug == {d4}
=============================================================================

--------------------------- MODULE MCDeviceSetup ---------------------------
(* DeviceSetup for TLC: two keys and two axes with ioctls of their own, an *)
(* LED without one; one key and one axis blacklisted.                      *)
EXTENDS DeviceSetup

MCAxis == {"ABS_X", "ABS_Y"}
MCEvent == {"BTN_LEFT", "BTN_RIGHT", "LED_NUML"} \cup MCAxis
MCTypeOf == [e \in MCEvent |-> CASE e \in MCAxis    -> "EV_ABS"
                                 [] e = "LED_NUML" -> "EV_LED"
                                 [] OTHER          -> "EV_KEY"]
MCEnableMap == {"EV_KEY", "EV_REL", "EV_ABS", "EV_MSC"}
MCWhitelist == MCEvent \ {"BTN_RIGHT", "ABS_X"}
=============================================================================

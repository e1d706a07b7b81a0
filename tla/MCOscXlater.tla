---------------------------- MODULE MCOscXlater ----------------------------
(* OscXlater for TLC: two buttons and a stick of two axes, and a path that *)
(* begins with a newline next to one that does not.                        *)
EXTENDS OscXlater

CONSTANTS p1, p2

MCControls == <<[type |-> "EV_KEY", codes |-> <<"BTN_A">>],
                [type |-> "EV_KEY", codes |-> <<"BTN_B">>],
                [type |-> "EV_ABS", codes |-> <<"ABS_X", "ABS_Y">>]>>

MCFirstByte == [path \in Path |-> IF path = p2 THEN "newline" ELSE "other"]
=============================================================================

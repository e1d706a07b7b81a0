----------------------------- MODULE MCSession -----------------------------
(* Session for TLC: input devices with an EV_SYN code, for which there is  *)
(* no ioctl, a key, a forbidden key, an axis and an LED; or with a key     *)
(* alone, and for one client with a code out of range besides.             *)
EXTENDS Session, TLC

CONSTANT Odd    \* the client whose device has that code, or NULL

MCCodes == [c \in Client |-> <<"SYN_REPORT", "BTN_A", "BTN_B", "ABS_X", "LED_NUML">>]
MCKeys == [c \in Client |-> IF c = Odd THEN <<"BTN_A", "KEY_MAX">> ELSE <<"BTN_A">>]
MCForever == -1
Symmetry == Permutations(Client)
=============================================================================

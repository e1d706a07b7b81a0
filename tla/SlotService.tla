---------------------------- MODULE SlotService ----------------------------
(***************************************************************************)
(* What the server promises about its client slots, whatever sockets,      *)
(* buffers and loops it uses to keep the promise: who owns a slot, how far *)
(* the owner has come, and whether the slot has a device.                  *)
(*                                                                         *)
(*      idle --> auth --> setup <--> live       (auth only with a password *)
(*        \--------------/----------/            set; setup only without a *)
(*                 auth --> denied               device, or to replace it) *)
(*                                                                         *)
(* An owner may be lost at any time; the device then stays for the next.   *)
(***************************************************************************)
CONSTANTS Slots, Conn, NULL, PasswordSet

VARIABLES owner, stage, device

vars == <<owner, stage, device>>

Stage == {"idle", "auth", "denied", "setup", "live"}

TypeOK ==
    /\ owner \in [Slots -> Conn \cup {NULL}]
    /\ stage \in [Slots -> Stage]
    /\ device \in [Slots -> BOOLEAN]

Unused ==
    /\ owner = [s \in Slots |-> NULL]
    /\ stage = [s \in Slots |-> "idle"]
    /\ device = [s \in Slots |-> FALSE]

Init == Unused

Idle == {s \in Slots : owner[s] = NULL}

\* Slot s gets a new stage and keeps its owner.
Proceed(s, to) ==
    /\ stage' = [stage EXCEPT ![s] = to]
    /\ UNCHANGED owner

Vacate(s) ==
    /\ owner[s] # NULL
    /\ owner' = [owner EXCEPT ![s] = NULL]
    /\ stage' = [stage EXCEPT ![s] = "idle"]

\* The device of an idle slot goes only when every idle slot has one.
Evict(s) ==
    /\ s \in Idle /\ \A t \in Idle : device[t]
    /\ device' = [device EXCEPT ![s] = FALSE]

ReadyStage(d) == IF d THEN "live" ELSE "setup"

Grant(s, c) ==
    /\ s \in Idle /\ \A t \in Slots : owner[t] # c
    /\ Evict(s) \/ UNCHANGED device
    /\ owner' = [owner EXCEPT ![s] = c]
    /\ stage' = [stage EXCEPT ![s] = IF PasswordSet THEN "auth" ELSE ReadyStage(device'[s])]

\* A grant that could not be announced leaves nobody in the slot.
GrantLost(s) == Evict(s) /\ UNCHANGED <<owner, stage>>

Authenticate(s) ==
    /\ stage[s] = "auth"
    /\ Proceed(s, ReadyStage(device[s]))
    /\ UNCHANGED device

Deny(s) == stage[s] = "auth" /\ Proceed(s, "denied") /\ UNCHANGED device

Configure(s) ==
    /\ stage[s] = "setup"
    /\ device' = [device EXCEPT ![s] = TRUE]
    /\ Proceed(s, "live") \/ Vacate(s)

Reconfigure(s) == stage[s] = "live" /\ Proceed(s, "setup") /\ UNCHANGED device

Release(s) == Vacate(s) /\ UNCHANGED device

Quit(s) == Vacate(s) /\ device' = [device EXCEPT ![s] = FALSE]

Shutdown == Unused'

Next ==
    \/ \E s \in Slots : \/ \E c \in Conn : Grant(s, c)
                        \/ GrantLost(s) \/ Authenticate(s) \/ Deny(s)
                        \/ Configure(s) \/ Reconfigure(s) \/ Release(s) \/ Quit(s)
    \/ Shutdown

Spec == Init /\ [][Next]_vars
=============================================================================

-------------------------- MODULE MCServerStartup --------------------------
(* ServerStartup for TLC: the options -h, -p, -W and -B, two lists, a word *)
(* that is no option, two types with two codes each.                       *)
EXTENDS ServerStartup

MCItems == <<[names |-> {"-h"}, type |-> "TYPE_FUNC", arguments |-> 0],
             [names |-> {"-p"}, type |-> "TYPE_STRING", arguments |-> 1],
             [names |-> {"-W"}, type |-> "TYPE_FUNC", arguments |-> 1],
             [names |-> {"-B"}, type |-> "TYPE_FUNC", arguments |-> 1]>>
MCWord == {"-h", "-p", "-W", "-B", "mouse", "keys", "bad"}
MCEvent == [type : {"EV_KEY", "EV_REL"}, code : {0, 1}]
Ev(t, c) == [kind |-> "event", event |-> [type |-> t, code |-> c]]
MCLines ==
    [mouse |-> <<[kind |-> "comment"], [kind |-> "type", type |-> "EV_REL"], Ev("EV_KEY", 1)>>,
     keys  |-> <<Ev("EV_KEY", 1), Ev("EV_REL", 0), [kind |-> "incomplete"], Ev("EV_REL", 1)>>,
     bad   |-> <<Ev("EV_KEY", 0), [kind |-> "invalid"], Ev("EV_KEY", 1)>>]
=============================================================================

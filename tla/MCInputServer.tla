--------------------------- MODULE MCInputServer ---------------------------
(* InputServer for TLC: the sets of connections and devices are symmetric; *)
(* a PASSWORD holds nothing, a part of the password, all of it, all of it  *)
(* and more, or all of it, a NUL and more.                                 *)
EXTENDS InputServer, TLC

MCPassword == <<"f", "b">>
MCNoPassword == <<>>
MCMessages == {<<>>, <<"f">>, <<"b">>, <<"f", "b">>, <<"f", "b", "f">>, <<"f", "b", NUL, "f">>}

Symmetry == Permutations(Conn) \cup Permutations(Device)
=============================================================================

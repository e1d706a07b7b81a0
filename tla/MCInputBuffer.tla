--------------------------- MODULE MCInputBuffer ---------------------------
(* InputBuffer for TLC, with the type bytes of common/protocol.h and short *)
(* messages: a PASSWORD that just fits the buffer, a SETUP_END, a fixed    *)
(* three bytes for REQUEST_EVENT, and a byte that is no type.  Contents    *)
(* are bytes that could pass for types and lengths.                        *)
EXTENDS InputBuffer

MCByte == {0, 1, 2, 3, 4, 5, 6, 9}
MCLength == [t \in {1, 2, 5, 6} |-> CASE t = 1 -> 3 [] t = 2 -> 2 [] t = 5 -> 1 [] t = 6 -> 3]
MCMessage == {<<2, 3, 5, 2, 1>>, <<5>>, <<6, 2, 1>>, <<9>>}
MCGoodHello == {<<1, 5, 0>>}
MCHello == MCGoodHello \cup {<<1, 4, 0>>}
=============================================================================

--------------------------- MODULE MCContextState ---------------------------
(* An instance of ContextState for TLC: a list in which a URI occurs twice,  *)
(* a list of one, and continuations of one and two tracks.                  *)
EXTENDS ContextState

a1 == [uri |-> "a", uid |-> "1"]
a2 == [uri |-> "a", uid |-> "2"]
b  == [uri |-> "b", uid |-> "3"]
c  == [uri |-> "c", uid |-> ""]
d  == [uri |-> "d", uid |-> ""]

MCTracks        == {a1, a2, b, c, d}
MCLists         == {<<b>>, <<a1, a2, b>>}
MCContinuations == {<<c>>, <<c, d>>}
MCCloudOrders   == {<<"c", "a", "b">>, <<"b", "c", "a", "d">>}
MCHints         == {[uri |-> "d", uid |-> "2", at |-> 3]}
=============================================================================

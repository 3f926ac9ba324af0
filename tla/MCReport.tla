------------------------------ MODULE MCReport ------------------------------
(* An instance of Report for TLC: a list of two tracks, one of which can be  *)
(* queued too, two numbered commands, one sent again, and others without.    *)
EXTENDS Report, TLC

MCList == <<"t1", "t2">>

Item(uri) == [uri |-> uri, queued |-> TRUE]
Command(key, number, kind) ==
  [key |-> key, sender |-> "phone", number |-> number, kind |-> kind,
   level |-> 0, items |-> <<>>, flag |-> FALSE]

MCRequests ==
  { Command("k1", 1, "volume"),
    [Command("k2", 2, "add") EXCEPT !.items = <<Item("t2"), Item("t2"), Item("q")>>],
    [Command("k3", 0, "options") EXCEPT !.flag = TRUE],
    [Command("k4", 2, "set") EXCEPT !.items = <<[uri |-> "t1", queued |-> FALSE], Item("q")>>],
    Command("k5", 0, "next"),
    [Command("k6", 3, "volume") EXCEPT !.level = 4],
    [Command("k9", 0, "play") EXCEPT !.flag = TRUE, !.items = <<Item("t2")>>],
    Command("k7", 3, "prev"), Command("k8", 0, "tell"), Command(None, 0, "other"),
    [Command(None, 4, "next") EXCEPT !.items = <<Item("t2")>>] }

MCClusters ==
  { [active |-> "us", items |-> <<Item("q")>>],
    [active |-> "other", items |-> <<Item("t2")>>],
    [active |-> None, items |-> <<>>] }
=============================================================================

------------------------------ MODULE MCSpirc -------------------------------
(* Instances of Spirc for TLC: a playlist, and a single track continued by a *)
(* station.                                                                  *)
EXTENDS Spirc, TLC

MCStation == [c \in Contexts |-> IF c = "track" THEN "list" ELSE None]
MCHints ==
  {NoHint, [by |-> "uri", n |-> 0], [by |-> "index", n |-> 2]}

WorkerSymmetry == Permutations(Workers)
=============================================================================

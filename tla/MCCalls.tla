------------------------------- MODULE MCCalls -------------------------------
(* Instances of Calls for TLC. *)
EXTENDS Calls

Rec(at, level, hit) == [sort |-> "record", at |-> at, level |-> level, hit |-> hit]
NoRec(sort)         == [sort |-> sort, at |-> 0, level |-> 0, hit |-> FALSE]

(* A record of each of two times, one that a filter of level and substring *)
(* leaves out, and two lines that are no records.                          *)
SomeLines == {Rec(1, 2, TRUE), Rec(2, 2, TRUE), Rec(1, 1, FALSE), NoRec("long"),
              NoRec("blank")}

(* Texts that just fit the cap, and past it, cut between runes and inside  *)
(* one.                                                                    *)
SomeTexts == {<<1, 3, 3>>, <<4, 1, 3>>, <<3, 3, 3>>}
=============================================================================

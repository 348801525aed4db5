--------------------------- MODULE MCStingerEdges ----------------------------
(* Instances of StingerEdges for TLC: the workloads of the runs.           *)
EXTENDS StingerEdges, TLC

Do(kind, from, to, ts) ==
  [kind |-> kind, type |-> 0, from |-> from, to |-> to, weight |-> 1, ts |-> ts]
Ins(to, ts) == Do("insert", 1, to, ts)
Inc(to, ts) == Do("incr", 1, to, ts)
Rem(to)     == Do("remove", 1, to, 0)

(* Three insertions race into an empty list: the same edge or different    *)
(* ones, stamps in any order, and a self-loop.                             *)
Racing ==
  { << <<Ins(a, 1), Inc(b, 2), Ins(0, 3)>> >> : a \in {0, 2}, b \in 0..2 }

(* A list of one full block, a hole in it, and insertions that race for    *)
(* the hole and for the end of the list.  The other edge of the block      *)
(* stays, so no two insertions meet in an emptied block.                   *)
Refill ==
  { << <<Ins(0, 1)>>, <<Ins(2, 3)>>, <<Rem(a)>>, <<Ins(a, 2), Inc(a, 4), Ins(c, 4)>> >> :
      <<a, c>> \in {<<0, 0>>, <<0, 3>>, <<2, 3>>} }

(* Blocks emptied by removals that run together, then refilled by one      *)
(* operation at a time.                                                    *)
Emptied ==
  { << <<Ins(0, 2), Ins(2, 2)>>, <<Rem(0), Rem(2), Rem(3)>>, <<Ins(a, 1)>>, <<Inc(b, 3)>> >> :
      a \in {0, 3}, b \in {0, 2, 3} }

(* An emptied block refilled by two insertions at once.                    *)
EmptiedRace == { << <<Ins(0, 2)>>, <<Rem(0)>>, <<Ins(0, 3), Ins(2, 4)>> >> }

(* A removal beside an edge that is not its own.                           *)
Absent == { << <<Ins(0, 1)>>, <<Rem(2)>> >> }

(* Edges of two types in one list, added together.  The types are alike,   *)
(* so the first edge has type 0.                                           *)
Typed(type, o) == [o EXCEPT !.type = type]
TwoTypes ==
  { << <<Ins(0, 1), Typed(b, Ins(0, 2)), Typed(c, Ins(2, 1))>>, <<Typed(0, Rem(0)), Typed(1, Rem(0))>> >> :
      b \in {0, 1}, c \in {0, 1} }

(* Two lists race for the last block of the pool.                          *)
From(v) == [Ins(0, 1) EXCEPT !.from = v]
Exhausting == { << <<From(1)>>, <<From(2)>>, <<From(3), Ins(2, 2), [From(0) EXCEPT !.to = 1]>> >> }

Together == Racing \cup Refill \cup Emptied \cup TwoTypes \cup Exhausting

Symmetry == Permutations(Threads)
==============================================================================

-------------------------- MODULE MCStingerReaders ---------------------------
(* Instances of StingerReaders for TLC: what the threads do meanwhile.     *)
EXTENDS StingerReaders

From(v, kind, type, to) ==
  [kind |-> kind, type |-> type, from |-> v, to |-> to, weight |-> 1, ts |-> 1]
Dated(ts, o) == [o EXCEPT !.ts = ts]
Do(kind, type, to) == From(1, kind, type, to)
Full == <<Do("insert", 0, 0), Do("insert", 0, 2)>>

(* Two types in one list, either one first.                                *)
Mixed == { << <<Do("insert", 0, 0), Do("insert", 1, 0)>>, <<Do("insert", 1, 2)>> >> }

(* A list begins with two insertions that race for its head, and a list    *)
(* whose only block is full grows.                                         *)
Growing == { << Full >>, << Full, <<Do("insert", 0, 3)>> >> }

(* Edges are removed, and a slot is used again.                            *)
Shrinking == { << Full, <<Do("remove", 0, 0), Do("remove", 0, 3)>>, <<Do("insert", 0, 3)>> >>,
               << Full, <<Do("insert", 0, 3)>>, <<Do("remove", 0, 0)>> >> }

(* Two lists begin at once, and then the pool has no block left.           *)
Exhausting == { << <<Do("insert", 0, 0), From(2, "insert", 0, 0)>>, <<Do("insert", 0, 2)>>,
                   <<Do("insert", 0, 3)>> >> }

(* Before the reader comes, threads wait for one another: for the head or  *)
(* the end of a list, for the slot behind an edge and, with stamps below   *)
(* and above those of the block, for its stamps.                           *)
Contending ==
  { << <<Dated(2, Do("insert", 0, 0))>>,
       <<Do("insert", 0, 2), Dated(3, Do("incr", 0, 2))>>, <<Do("remove", 0, 0)>> >>,
    << Full, <<Dated(2, Do("insert", 0, 3)), Dated(3, Do("incr", 0, 3))>>, <<Do("remove", 0, 2)>> >> }

Asked(kind, v, e) == [kind |-> kind, v |-> v, e |-> e]
EachKind == {Asked("vertex", 1, 0), Asked("typed", 1, 1), Asked("array", 0, 0), Asked("modify", 1, 0)}
AlongList == {Asked("vertex", 1, 0)}
ByType == {Asked("typed", 1, 0)}

Moving == Mixed \cup Growing \cup Shrinking \cup Exhausting \cup Contending
==============================================================================

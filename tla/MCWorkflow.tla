----------------------------- MODULE MCWorkflow ------------------------------
(* Instances of Workflow for TLC: the streams of the runs.                 *)
EXTENDS Workflow, TLC

Stream(kind, size, limit, rows) ==
  [kind |-> kind, size |-> size, limit |-> limit, rows |-> rows]

Binary3 == Stream("binary", 2, 2, 3)   \* a batch of two, a batch of one
Binary1 == Stream("binary", 2, 1, 1)   \* fewer actions than a batch
Binary0 == Stream("binary", 1, 1, 0)   \* no actions
Random2 == Stream("random", 2, 2, 0)
Csv1    == Stream("csv", 1, 1, 3)      \* a file of three lines
NoFile  == Stream("nofile", 1, 1, 0)
Silent  == Stream("silent", 1, 1, 0)

CONSTANTS s1, s2

Both(u, w) == (s1 :> u) @@ (s2 :> w)

(* Streams that write batches of different lengths, and the ones that do   *)
(* not write any beside one that does not either.                          *)
Mixed == { Both(Binary3, Binary1), Both(Binary3, Random2), Both(Random2, Csv1),
           Both(Binary0, Silent), Both(NoFile, Silent), Both(NoFile, Random2) }

(* One stream of one batch.                                                *)
Single == { Both(Stream("random", 1, 1, 0), Silent) }

(* Two random streams of two batches each.                                 *)
Counted == { Both(Random2, Random2) }

Symmetry == Permutations(Algs)
==============================================================================

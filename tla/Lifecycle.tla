------------------------------ MODULE Lifecycle ------------------------------
(***************************************************************************)
(* The order in which a workflow calls its streams and algorithms          *)
(* (stinger-workflow.h:13-28, 72-82, 129-139): settings first, then one    *)
(* init, all streams' before any algorithm's, then batches, then one       *)
(* cleanup, at once for who returned STINGER_REMOVE from a batch, and no   *)
(* call ever after it; the run returns when nobody is left to clean up.    *)
(*                                                                         *)
(* The header promises more: that STINGER_REMOVE is heeded when settings   *)
(* or init return it, and that each algorithm hears of each batch.  The    *)
(* loop keeps neither, and this specification leaves both out: they are    *)
(* RemovalHeeded and EachNotified of Workflow.                             *)
(***************************************************************************)
CONSTANTS Streams, Algs

VARIABLES
  life,   \* life[p]: how far participant p has come
  call    \* the callback made last, and whether it returned STINGER_REMOVE

vars == <<life, call>>

Participants == Streams \cup Algs
Stages    == {"absent", "registered", "dropped", "ready", "cleaned"}
Callbacks == {"settings", "init", "stream_batch", "before_batch", "after_batch", "cleanup"}

Init == /\ life = [p \in Participants |-> "absent"]
        /\ call = [who |-> "nobody", what |-> "none", leaves |-> FALSE]

Calls(p, what, leaves) == call' = [who |-> p, what |-> what, leaves |-> leaves]
Becomes(p, stage) == life' = [life EXCEPT ![p] = stage]

(* A batch callback has returned STINGER_REMOVE: its cleanup is next.      *)
Due == call.leaves /\ call.what \in {"stream_batch", "before_batch", "after_batch"}

(* A participant is registered before the run.                             *)
Register(p) ==
  /\ life[p] = "absent" /\ \A q \in Participants : life[q] \in {"absent", "registered"}
  /\ Becomes(p, "registered") /\ UNCHANGED call

(* The command line configures it, or leaves it out of the run.            *)
Configure(p, leaves) == life[p] = "registered" /\ Calls(p, "settings", leaves) /\ UNCHANGED life
Drop(p) == life[p] = "registered" /\ Becomes(p, "dropped") /\ UNCHANGED call

(* Streams build the graph before any algorithm looks at it.               *)
Start(p, leaves) ==
  /\ life[p] = "registered"
  /\ p \in Algs => \A s \in Streams : life[s] # "registered"
  /\ Becomes(p, "ready") /\ Calls(p, "init", leaves)

(* A batch call reaches a participant that is ready, once all are.         *)
Batch(p, what, leaves) ==
  /\ ~Due /\ life[p] = "ready" /\ \A q \in Participants : life[q] # "registered"
  /\ what \in (IF p \in Streams THEN {"stream_batch"} ELSE {"before_batch", "after_batch"})
  /\ Calls(p, what, leaves) /\ UNCHANGED life

Finish(p) ==
  /\ Due => p = call.who
  /\ life[p] = "ready" /\ \A q \in Participants : life[q] # "registered"
  /\ Becomes(p, "cleaned") /\ Calls(p, "cleanup", FALSE)

(* The run is over: who was initialized has been cleaned up.               *)
Return ==
  /\ \A p \in Participants : life[p] # "ready"
  /\ Calls("nobody", "return", FALSE) /\ UNCHANGED life

Next ==
  /\ call.what # "return"
  /\ \/ Return
     \/ \E p \in Participants :
          \/ Register(p) \/ Drop(p) \/ Finish(p)
          \/ \E leaves \in BOOLEAN :
               \/ Configure(p, leaves) \/ Start(p, leaves)
               \/ \E what \in Callbacks : Batch(p, what, leaves)

Spec == Init /\ [][Next]_vars
==============================================================================

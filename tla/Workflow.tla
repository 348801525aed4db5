------------------------------ MODULE Workflow -------------------------------
(***************************************************************************)
(* The workflow of src/core/stinger-workflow.c: streams and algorithms are *)
(* registered in two arrays, the command line takes some out again, and    *)
(* stinger_workflow_run then asks each stream in turn for a batch of       *)
(* actions, tells the algorithms, applies the batch and tells them again.  *)
(* Callbacks that return STINGER_REMOVE take their entry out of the array  *)
(* that is being walked.                                                   *)
(*                                                                         *)
(* The streams are the three of src/stream.  An algorithm is any: its      *)
(* settings, init, before_batch and after_batch may return STINGER_REMOVE  *)
(* whenever they are called.  A callback that is NULL is one that does     *)
(* nothing and returns STINGER_SUCCESS; only a NULL stream_batch makes a   *)
(* difference, and is a kind of stream of its own.                         *)
(***************************************************************************)
EXTENDS Integers, Sequences

CONSTANTS
  Streams, Algs,  \* what may be registered
  Setups,         \* the ways the streams may be set up
  MaxBatch        \* bound on batch_num; larger ones are not told apart

(* kind: "random" ends by the number of the batch, and so does "csv",      *)
(* whose file may end before, and "nofile" is one without; "binary" ends   *)
(* with its array of actions, "silent" has no stream_batch.  size, limit,  *)
(* rows: edges_per_batch, num_batches, the length of the array of actions, *)
(* or of what the file has left for the batches.                           *)
StreamSetups == [kind : {"random", "csv", "nofile", "binary", "silent"},
                 size : Nat \ {0}, limit : Nat, rows : Nat]

ASSUME SetupsOK ==
  /\ Streams \cap Algs = {} /\ MaxBatch \in Nat
  /\ Setups \subseteq [Streams -> StreamSetups]
  /\ \A u \in Setups : \A s \in Streams : u[s].limit <= MaxBatch

VARIABLES
  setup,
  pc,
  streams, algs,  \* the arrays, as far as they are counted
  i,              \* the index of the loop in progress over streams, ...
  j,              \* ... and of the one over algorithms
  batch_num,
  actno,          \* actno[s]: the position of a binary stream, or in a file
  actions,        \* the allocated array of actions
  actions_len,
  life, call,     \* history: the stage of each participant, the last callback
  told            \* history: who had before_batch for the batch in progress

control == <<pc, streams, algs, i, j>>
batch   == <<batch_num, actno, actions, actions_len>>
history == <<life, call, told>>
vars    == <<setup, control, batch, history>>

Participants == Streams \cup Algs

(* An action says which stream wrote it and whether it has been applied;   *)
(* a cell that realloc added says nothing.                                 *)
Garbage == [by |-> "nobody", applied |-> FALSE]
Fresh(s) == [by |-> s, applied |-> FALSE]

Init ==
  /\ setup \in Setups
  /\ pc = "register" /\ streams = <<>> /\ algs = <<>> /\ i = 1 /\ j = 1
  /\ batch_num = 0 /\ actno = [s \in Streams |-> 0]
  /\ actions = <<>> /\ actions_len = 0
  /\ life = [p \in Participants |-> "absent"]
  /\ call = [who |-> "nobody", what |-> "none", leaves |-> FALSE]
  /\ told = {}

Goto(label) == pc' = label
Calls(p, what, leaves) == call' = [who |-> p, what |-> what, leaves |-> leaves]
Returns == Calls("nobody", "return", FALSE)
Becomes(p, stage) == life' = [life EXCEPT ![p] = stage]

------------------------------------------------------------------------------
(* Registration and the command line.                                      *)

Register(p) ==
  /\ pc = "register" /\ life[p] = "absent"
  /\ \/ p \in Streams /\ streams' = Append(streams, p) /\ UNCHANGED algs
     \/ p \in Algs /\ algs' = Append(algs, p) /\ UNCHANGED streams
  /\ Becomes(p, "registered") /\ UNCHANGED <<setup, pc, i, j, batch, call, told>>

Run == pc = "register" /\ Goto("args") /\ UNCHANGED <<setup, streams, algs, i, j, batch, history>>

Unregister_NoShift(array, index) == [k \in 1..Len(array) - 1 |-> array[k]]

(* stinger_workflow_unregister_*_by_index: the entries behind move down.   *)
Unregister(array, index) ==
  [k \in 1..Len(array) - 1 |-> IF k < index THEN array[k] ELSE array[k + 1]]

Configure(p) ==
  /\ pc = "args" /\ life[p] = "registered"
  /\ \E leaves \in BOOLEAN : (leaves => p \in Algs) /\ Calls(p, "settings", leaves)
  /\ UNCHANGED <<setup, control, batch, life, told>>

DropStream(k) ==
  /\ pc = "args" /\ k \in 1..Len(streams)
  /\ streams' = Unregister(streams, k) /\ Becomes(streams[k], "dropped")
  /\ UNCHANGED <<setup, pc, algs, i, j, batch, call, told>>

DropAlg(k) ==
  /\ pc = "args" /\ k \in 1..Len(algs)
  /\ algs' = Unregister(algs, k) /\ Becomes(algs[k], "dropped")
  /\ UNCHANGED <<setup, pc, streams, i, j, batch, call, told>>

ParsedArgs ==
  /\ pc = "args"
  /\ \/ /\ streams = <<>> \/ algs = <<>>
        /\ Goto("done") /\ Returns
     \/ /\ streams # <<>> /\ algs # <<>>
        /\ Goto("init_streams") /\ UNCHANGED call
  /\ UNCHANGED <<setup, streams, algs, i, j, batch, life, told>>

------------------------------------------------------------------------------
(* All streams are initialized, then all algorithms.  What settings and    *)
(* init return is not looked at.                                           *)

InitStream ==
  /\ pc = "init_streams" /\ i <= Len(streams)
  /\ Becomes(streams[i], "ready") /\ Calls(streams[i], "init", FALSE) /\ i' = i + 1
  /\ UNCHANGED <<setup, pc, streams, algs, j, batch, told>>

StreamsReady ==
  /\ pc = "init_streams" /\ i > Len(streams)
  /\ Goto("init_algs") /\ UNCHANGED <<setup, streams, algs, i, j, batch, history>>

InitAlg ==
  /\ pc = "init_algs" /\ j <= Len(algs)
  /\ \E leaves \in BOOLEAN : Calls(algs[j], "init", leaves)
  /\ Becomes(algs[j], "ready") /\ j' = j + 1
  /\ UNCHANGED <<setup, pc, streams, algs, i, batch, told>>

AlgsReady ==
  /\ pc = "init_algs" /\ j > Len(algs)
  /\ Goto("stream") /\ i' = 1 /\ UNCHANGED <<setup, streams, algs, j, batch, history>>

------------------------------------------------------------------------------
(* The stream_batch functions.                                             *)

Lesser(a, b) == IF a < b THEN a ELSE b

(* xrealloc to exactly n actions.                                          *)
Resized(n) == [k \in 1..n |-> IF k <= Len(actions) THEN actions[k] ELSE Garbage]

(* Mutant of Writes: a smaller count does not take the place of a greater. *)
Writes_KeepCount(s, n, w) ==
  LET room == IF actions_len < n THEN Resized(n) ELSE actions
  IN  /\ actions' = [k \in DOMAIN room |-> IF k <= w THEN Fresh(s) ELSE room[k]]
      /\ actions_len' = IF actions_len < n THEN n ELSE actions_len

(* The stream makes room if the count of the last batch is short, counts n *)
(* actions and writes the first w of them.                                 *)
Writes(s, n, w) ==
  LET room == IF actions_len < n THEN Resized(n) ELSE actions
  IN  /\ actions' = [k \in DOMAIN room |-> IF k <= w THEN Fresh(s) ELSE room[k]]
      /\ actions_len' = n

(* random_stream_batch; remove says what is returned.                      *)
CountedBatch(s, remove) ==
  /\ setup[s].kind = "random"
  /\ Writes(s, setup[s].size, setup[s].size) /\ UNCHANGED actno
  /\ remove = (batch_num = setup[s].limit - 1)

(* csv_stream_batch counts a whole batch, whatever the file has left.      *)
FileBatch(s, remove) ==
  /\ setup[s].kind = "csv"
  /\ LET read == Lesser(setup[s].size, setup[s].rows - actno[s]) IN
       Writes(s, setup[s].size, read) /\ actno' = [actno EXCEPT ![s] = @ + read]
  /\ remove = (batch_num = setup[s].limit - 1)

(* csv_stream_batch without a file: STINGER_GENERIC_ERR.                   *)
FailedBatch(s, remove) ==
  setup[s].kind = "nofile" /\ remove = FALSE /\ UNCHANGED <<actno, actions, actions_len>>

(* binary_stream_batch; binary_stream_init has cut nbatch to what there is.*)
RecordedEnd(s) ==
  LET u == setup[s]
  IN  IF u.rows < u.limit * u.size THEN ((u.rows + u.size - 1) \div u.size) * u.size
                                   ELSE u.limit * u.size

RecordedBatch(s, remove) ==
  /\ setup[s].kind = "binary"
  /\ \/ /\ actno[s] < RecordedEnd(s)
        /\ LET n == Lesser(actno[s] + setup[s].size, setup[s].rows) - actno[s] IN Writes(s, n, n)
        /\ actno' = [actno EXCEPT ![s] = @ + setup[s].size]
        /\ remove = (actno'[s] >= RecordedEnd(s) \/ actno'[s] >= setup[s].rows)
     \/ /\ actno[s] >= RecordedEnd(s)
        /\ remove = TRUE /\ UNCHANGED <<actno, actions, actions_len>>

StreamBatch ==
  /\ pc = "stream" /\ i <= Len(streams) /\ setup[streams[i]].kind # "silent"
  /\ \E remove \in BOOLEAN :
       /\ \/ CountedBatch(streams[i], remove) \/ FileBatch(streams[i], remove)
          \/ FailedBatch(streams[i], remove)
          \/ RecordedBatch(streams[i], remove)
       /\ Goto(IF remove THEN "remove_stream" ELSE "before")
       /\ Calls(streams[i], "stream_batch", remove)
  /\ j' = 1 /\ told' = {}
  /\ UNCHANGED <<setup, streams, algs, i, batch_num, life>>

SkipSilent ==
  /\ pc = "stream" /\ i <= Len(streams) /\ setup[streams[i]].kind = "silent"
  /\ i' = i + 1 /\ UNCHANGED <<setup, pc, streams, algs, j, batch, history>>

RemoveStream ==
  /\ pc = "remove_stream"
  /\ Calls(streams[i], "cleanup", FALSE) /\ Becomes(streams[i], "cleaned")
  /\ streams' = Unregister(streams, i) /\ Goto("before")
  /\ UNCHANGED <<setup, algs, i, j, batch, told>>

(* The end of the loop over streams and the test of the loop around it.    *)
EndRound ==
  /\ pc = "stream" /\ i > Len(streams) /\ i' = 1 /\ j' = 1
  /\ Goto(IF streams # <<>> /\ algs # <<>> THEN "stream" ELSE "cleanup_streams")
  /\ UNCHANGED <<setup, streams, algs, batch, history>>

------------------------------------------------------------------------------
(* The algorithms hear of the batch, it is applied, and they hear again.   *)

BeforeBatch_Passed ==
  /\ pc = "before" /\ j <= Len(algs)
  /\ \/ Goto("remove_before") /\ Calls(algs[j], "before_batch", TRUE)
     \/ UNCHANGED pc /\ Calls(algs[j], "before_batch", FALSE)
  /\ j' = j + 1 /\ told' = told \cup {algs[j]}
  /\ UNCHANGED <<setup, streams, algs, i, batch, life>>

BeforeBatch ==
  /\ pc = "before" /\ j <= Len(algs)
  /\ \/ Goto("remove_before") /\ UNCHANGED j /\ Calls(algs[j], "before_batch", TRUE)
     \/ UNCHANGED pc /\ j' = j + 1 /\ Calls(algs[j], "before_batch", FALSE)
  /\ told' = told \cup {algs[j]}
  /\ UNCHANGED <<setup, streams, algs, i, batch, life>>

(* The entry behind the removed one takes its index, and the loop goes on  *)
(* with the next.                                                          *)
Removing == [before |-> "remove_before", after |-> "remove_after"]

RemoveAlg(loop) ==
  /\ pc = Removing[loop]
  /\ Calls(algs[j], "cleanup", FALSE) /\ Becomes(algs[j], "cleaned")
  /\ algs' = Unregister(algs, j) /\ j' = j + 1 /\ Goto(loop)
  /\ UNCHANGED <<setup, streams, i, batch, told>>

EndBefore ==
  /\ pc = "before" /\ j > Len(algs)
  /\ Goto("apply") /\ UNCHANGED <<setup, streams, algs, i, j, batch, history>>

(* The two parallel loops over the batch, each with its own barrier.       *)
Apply ==
  /\ pc = "apply"
  /\ actions' = [k \in DOMAIN actions |->
       IF k <= actions_len THEN [actions[k] EXCEPT !.applied = TRUE] ELSE actions[k]]
  /\ j' = 1 /\ Goto("after")
  /\ UNCHANGED <<setup, streams, algs, i, batch_num, actno, actions_len, history>>

AfterBatch ==
  /\ pc = "after" /\ j <= Len(algs)
  /\ \/ Goto("remove_after") /\ UNCHANGED j /\ Calls(algs[j], "after_batch", TRUE)
     \/ UNCHANGED pc /\ j' = j + 1 /\ Calls(algs[j], "after_batch", FALSE)
  /\ UNCHANGED <<setup, streams, algs, i, batch, life, told>>

EndAfter_SameNumber ==
  /\ pc = "after" /\ j > Len(algs)
  /\ i' = i + 1 /\ Goto("stream")
  /\ UNCHANGED <<setup, streams, algs, j, batch, history>>

EndAfter ==
  /\ pc = "after" /\ j > Len(algs)
  /\ batch_num' = Lesser(batch_num + 1, MaxBatch) /\ i' = i + 1 /\ Goto("stream")
  /\ UNCHANGED <<setup, streams, algs, j, actno, actions, actions_len, history>>

------------------------------------------------------------------------------
(* What is still registered at the end is cleaned up, and stays registered.*)

CleanupStream ==
  /\ pc = "cleanup_streams" /\ i <= Len(streams)
  /\ Calls(streams[i], "cleanup", FALSE) /\ Becomes(streams[i], "cleaned") /\ i' = i + 1
  /\ UNCHANGED <<setup, pc, streams, algs, j, batch, told>>

StreamsCleaned ==
  /\ pc = "cleanup_streams" /\ i > Len(streams)
  /\ Goto("cleanup_algs") /\ UNCHANGED <<setup, streams, algs, i, j, batch, history>>

CleanupAlg ==
  /\ pc = "cleanup_algs" /\ j <= Len(algs)
  /\ Calls(algs[j], "cleanup", FALSE) /\ Becomes(algs[j], "cleaned") /\ j' = j + 1
  /\ UNCHANGED <<setup, pc, streams, algs, i, batch, told>>

AlgsCleaned ==
  /\ pc = "cleanup_algs" /\ j > Len(algs)
  /\ Goto("done") /\ Returns /\ UNCHANGED <<setup, streams, algs, i, j, batch, life, told>>

Over == pc = "done" /\ UNCHANGED vars

Step ==
  \/ Run \/ ParsedArgs
  \/ \E p \in Participants : Register(p)
  \/ \E k \in 1..Len(streams) : DropStream(k)
  \/ \E k \in 1..Len(algs) : DropAlg(k)
  \/ InitStream \/ StreamsReady \/ InitAlg \/ AlgsReady
  \/ StreamBatch \/ SkipSilent \/ RemoveStream \/ EndRound
  \/ BeforeBatch \/ EndBefore \/ Apply \/ AfterBatch \/ EndAfter
  \/ \E loop \in {"before", "after"} : RemoveAlg(loop)
  \/ CleanupStream \/ StreamsCleaned \/ CleanupAlg \/ AlgsCleaned

Next == Step \/ (\E p \in Participants : Configure(p)) \/ Over

Spec == Init /\ [][Next]_vars

(* The run is one thread that keeps going; a command line is finite, so    *)
(* settings calls are left out of what must happen.                        *)
FairSpec == Spec /\ WF_vars(Step)

------------------------------------------------------------------------------
(* Properties.                                                             *)

Labels == {"register", "args", "init_streams", "init_algs", "stream", "remove_stream",
           "before", "remove_before", "apply", "after", "remove_after",
           "cleanup_streams", "cleanup_algs", "done"}

(* Types, and that the entry a callback is about to be taken from is one   *)
(* that is counted.                                                        *)
TypeOK ==
  /\ setup \in Setups /\ pc \in Labels
  /\ streams \in Seq(Streams) /\ algs \in Seq(Algs)
  /\ i \in Nat \ {0} /\ j \in Nat \ {0}
  /\ pc = "remove_stream" => i <= Len(streams)
  /\ pc \in {"remove_before", "remove_after"} => j <= Len(algs)
  /\ batch_num \in 0..MaxBatch /\ actno \in [Streams -> Nat]
  /\ actions \in Seq([by : Streams \cup {"nobody"}, applied : BOOLEAN])
  /\ actions_len \in Nat
  /\ \A s \in Streams : setup[s].kind = "csv" => actno[s] <= setup[s].rows
  /\ told \subseteq Algs

(* The loop keeps the order of calls: one init, batches only between init  *)
(* and cleanup, one cleanup, at once for who asks to be removed by a batch *)
(* callback, and none left out when the run returns.                       *)
L == INSTANCE Lifecycle
ImplementsLifecycle == L!Spec

(* A batch that is applied was written for this round, by one stream, all  *)
(* of it, and lies inside the array that all streams share, although each  *)
(* reallocates it to its own size: nothing is applied twice, nothing       *)
(* unwritten is applied, nothing outside is read.  Only a stream that      *)
(* fails or ends without a batch beside one that writes breaks this, and a *)
(* file that has been read to its end.                                     *)
Writer(s) ==
  \/ setup[s].kind \in {"random", "csv"}
  \/ setup[s].kind = "binary" /\ RecordedEnd(s) > 0
Uniform ==
  \/ \A s \in Streams : Writer(s) \/ setup[s].kind = "silent"
  \/ \A s \in Streams : ~Writer(s)
LongEnough == \A s \in Streams : setup[s].kind = "csv" => actno[s] < setup[s].rows
AppliedOnce ==
  [][Uniform /\ LongEnough /\ pc = "apply" /\ pc' = "after" =>
       /\ actions_len <= Len(actions)
       /\ \E s \in Streams : \A k \in 1..actions_len : actions[k] = Fresh(s)]_vars

(* A run whose streams end ends: one with a single stream, or one whose    *)
(* streams count their own batches, as binary_stream does.                 *)
Ends(s) == setup[s].kind \in {"random", "csv", "binary"}
EndsAlone ==
  [](/\ pc = "init_streams" /\ \A k \in DOMAIN streams : Ends(streams[k])
     /\ Len(streams) = 1 \/ \A k \in DOMAIN streams : setup[streams[k]].kind = "binary"
     => <>(pc = "done"))

------------------------------------------------------------------------------
(* What the header claims and the code does not do.                        *)

(* The end of every run whose streams have a number of batches to generate *)
(* (stinger-workflow.h:26, "This process will continue until no algorithms *)
(* remain or no streams are still generating").                            *)
Termination ==
  [](pc = "init_streams" /\ (\A k \in DOMAIN streams : Ends(streams[k])) => <>(pc = "done"))

(* "notifies each algorithm of the batch, applies the batch"               *)
(* (stinger-workflow.h:25).                                                *)
EachNotified == pc = "apply" => \A k \in DOMAIN algs : algs[k] \in told

(* A participant one of whose functions, settings and init among them,     *)
(* returned STINGER_REMOVE is cleaned up (stinger-workflow.h:28, 81-82,    *)
(* 124-125): settings apart, nothing else of it is called from then on.    *)
RemovalHeeded ==
  \A p \in Participants :
    [](call.who = p /\ call.leaves =>
         [](call.who = p => call.leaves \/ call.what \in {"settings", "cleanup"}))
==============================================================================

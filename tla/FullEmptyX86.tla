---------------------------- MODULE FullEmptyX86 -----------------------------
(***************************************************************************)
(* The x86 emulation of full/empty bits in src/util/x86-full-empty.c: each *)
(* primitive is a loop of plain loads and compare-and-swaps of one 64-bit  *)
(* word, and other threads run between any two of them.                    *)
(*                                                                         *)
(* The client is the one of module FullEmpty: the thread whose readfe      *)
(* emptied the cell is the one that refills it.  A thread makes at most    *)
(* MaxCalls calls that wait for a full cell.                               *)
(***************************************************************************)
EXTENDS Naturals

CONSTANTS
  Threads,   \* the threads that share the cell
  Values,    \* the values a full cell may hold
  MARKER,    \* UINT64_MAX, the value that stands for "empty"
  MaxCalls   \* bound: calls of readfe, readff and writeff per thread

ASSUME MarkerReserved == MARKER \notin Values
ASSUME MaxCallsNat == MaxCalls \in Nat

VARIABLES
  cell,      \* *v
  pc,        \* pc[t]: "idle", "load", "cas" or "done"
  request,   \* request[t]: the primitive and its new_val
  val,       \* val[t]: the local variable val
  holder,    \* holder[t]: t emptied the cell and has not refilled it yet
  left       \* left[t]: calls t may still make

vars == <<cell, pc, request, val, holder, left>>

Waits    == {"readfe", "readff", "writeff"}
Refills  == {"writeef", "writexf"}
Requests == [op : Waits \cup Refills, arg : Values]

Init ==
  /\ cell \in Values
  /\ pc = [t \in Threads |-> "idle"]
  /\ request = [t \in Threads |-> [op |-> "readff", arg |-> cell]]
  /\ val = [t \in Threads |-> cell]
  /\ holder = [t \in Threads |-> FALSE]
  /\ left = [t \in Threads |-> MaxCalls]

Call(t, r) ==
  /\ pc[t] = "idle"
  /\ r.op \in Waits /\ ~holder[t] /\ left[t] > 0
  /\ left' = [left EXCEPT ![t] = @ - 1]
  /\ request' = [request EXCEPT ![t] = r]
  /\ pc' = [pc EXCEPT ![t] = "load"]
  /\ UNCHANGED <<cell, val, holder>>

Refill(t, r) ==
  /\ pc[t] = "idle"
  /\ r.op \in Refills /\ holder[t]
  /\ request' = [request EXCEPT ![t] = r]
  /\ pc' = [pc EXCEPT ![t] = "load"]
  /\ UNCHANGED <<cell, val, holder, left>>

(* Mutant of Load: readfe does not wait for a full cell.                   *)
Load_NoSpin(t) ==
  /\ pc[t] = "load"
  /\ request[t].op # "writexf"
  /\ val' = [val EXCEPT ![t] = cell]
  /\ pc' = [pc EXCEPT ![t] = IF request[t].op = "readff" THEN "done" ELSE "cas"]
  /\ UNCHANGED <<cell, request, holder, left>>

(* One evaluation of "val = *v" and of the spin condition that follows it. *)
(* readff has nothing left to do once it has seen a full cell.             *)
Load(t) ==
  /\ pc[t] = "load"
  /\ request[t].op # "writexf"
  /\ val' = [val EXCEPT ![t] = cell]
  /\ pc' = [pc EXCEPT ![t] =
              IF (cell = MARKER) # (request[t].op = "writeef") THEN "load"
              ELSE IF request[t].op = "readff" THEN "done"
              ELSE "cas"]
  /\ UNCHANGED <<cell, request, holder, left>>

(* The value each primitive swaps in.                                      *)
Swapped(t) == IF request[t].op = "readfe" THEN MARKER ELSE request[t].arg

(* Mutant of Cas: a plain store where the code compares first.             *)
Cas_Blind(t) ==
  /\ pc[t] = "cas"
  /\ cell' = Swapped(t)
  /\ pc' = [pc EXCEPT ![t] = "done"]
  /\ holder' = [holder EXCEPT ![t] = request[t].op = "readfe"]
  /\ UNCHANGED <<request, val, left>>

(* Mutant of Cas: a swap that failed is tried again with the stale value.  *)
Cas_NoReload(t) ==
  /\ pc[t] = "cas"
  /\ cell = val[t]
  /\ cell' = Swapped(t)
  /\ pc' = [pc EXCEPT ![t] = "done"]
  /\ holder' = [holder EXCEPT ![t] = request[t].op = "readfe"]
  /\ UNCHANGED <<request, val, left>>

(* stinger_int64_cas(v, val, .): it stores only when the word still holds  *)
(* what the load saw, and the primitive starts over when it does not.      *)
Cas(t) ==
  /\ pc[t] = "cas"
  /\ \/ /\ cell = val[t]
        /\ cell' = Swapped(t)
        /\ pc' = [pc EXCEPT ![t] = "done"]
        /\ holder' = [holder EXCEPT ![t] = request[t].op = "readfe"]
     \/ /\ cell # val[t]
        /\ pc' = [pc EXCEPT ![t] = "load"]
        /\ UNCHANGED <<cell, holder>>
  /\ UNCHANGED <<request, val, left>>

(* writexf stores without looking.                                         *)
StoreXF(t) ==
  /\ pc[t] = "load"
  /\ request[t].op = "writexf"
  /\ cell' = request[t].arg
  /\ val' = [val EXCEPT ![t] = request[t].arg]
  /\ pc' = [pc EXCEPT ![t] = "done"]
  /\ holder' = [holder EXCEPT ![t] = FALSE]
  /\ UNCHANGED <<request, left>>

Return(t) ==
  /\ pc[t] = "done"
  /\ pc' = [pc EXCEPT ![t] = "idle"]
  /\ UNCHANGED <<cell, request, val, holder, left>>

(* Every call has returned, no refill is due and no call is left.          *)
Quiet ==
  /\ \A t \in Threads : pc[t] = "idle" /\ ~holder[t] /\ left[t] = 0
  /\ UNCHANGED vars

Step(t) ==
  \/ \E r \in Requests : Refill(t, r)
  \/ Load(t)
  \/ Cas(t)
  \/ StoreXF(t)
  \/ Return(t)

Next ==
  \/ \E t \in Threads :
       \/ \E r \in Requests : Call(t, r)
       \/ Step(t)
  \/ Quiet

Spec == Init /\ [][Next]_vars

(* A running thread is scheduled again, and a thread that emptied the cell *)
(* goes on to refill it, as every function that calls readfe does.         *)
FairSpec == Spec /\ \A t \in Threads : WF_vars(Step(t))

------------------------------------------------------------------------------
(* Type invariant: the cell holds a value or MARKER.                       *)
TypeOK ==
  /\ cell \in Values \cup {MARKER}
  /\ pc \in [Threads -> {"idle", "load", "cas", "done"}]
  /\ request \in [Threads -> Requests]
  /\ val \in [Threads -> Values \cup {MARKER}]
  /\ holder \in [Threads -> BOOLEAN]
  /\ left \in [Threads -> 0..MaxCalls]

(* Mutual exclusion: at most one thread is between its readfe and its      *)
(* refill, and the cell is empty exactly while there is one.               *)
Exclusion ==
  /\ \A t, u \in Threads : holder[t] /\ holder[u] => t = u
  /\ cell = MARKER <=> \E t \in Threads : holder[t]

(* No primitive waits forever: threads that lock and refill a cell, and    *)
(* threads that read or write it full, all come to rest.                   *)
AllReturn ==
  \A t \in Threads : pc[t] = "load" ~> pc[t] = "idle"

(* Every load and compare-and-swap loop takes effect at one instant, as if *)
(* the primitive were atomic.                                              *)
Atomic ==
  INSTANCE FullEmpty
    WITH answer <- [t \in Threads |-> IF pc[t] = "done" THEN val[t] ELSE "none"],
         stage  <- [t \in Threads |->
                      IF pc[t] \in {"load", "cas"} THEN "called" ELSE pc[t]]

ImplementsFullEmpty == Atomic!Spec
==============================================================================

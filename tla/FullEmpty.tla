------------------------------ MODULE FullEmpty ------------------------------
(***************************************************************************)
(* What the full/empty primitives of inc/util/x86-full-empty.h promise     *)
(* their callers, with every call taking effect in one atomic step.        *)
(*                                                                         *)
(* A cell is empty while it holds MARKER and full otherwise.  readfe waits *)
(* for full and leaves the cell empty, writeef waits for empty and leaves  *)
(* it full, readff and writeff wait for full and leave it full, writexf    *)
(* stores whatever the cell holds.  Everywhere in STINGER a cell is a lock *)
(* of the thread whose readfe emptied it, and only that thread refills it, *)
(* with writeef or writexf: that is the client modelled here.              *)
(***************************************************************************)
EXTENDS Naturals

CONSTANTS
  Threads,   \* the threads that share the cell
  Values,    \* the values a full cell may hold
  MARKER     \* UINT64_MAX, the value that stands for "empty"

VARIABLES
  cell,      \* the 64-bit word
  request,   \* request[t]: the primitive t is executing, or has just executed
  stage,     \* stage[t]: "idle", "called" (waiting), "done" (about to return)
  answer,    \* answer[t]: the value about to be returned to t, or None
  holder     \* holder[t]: t emptied the cell and has not refilled it yet

vars == <<cell, request, stage, answer, holder>>

Waits    == {"readfe", "readff", "writeff"}
Refills  == {"writeef", "writexf"}
Requests == [op : Waits \cup Refills, arg : Values]
None     == "none"

Init ==
  /\ cell \in Values
  /\ request \in [Threads -> [op : {"readff"}, arg : {cell}]]
  /\ stage = [t \in Threads |-> "idle"]
  /\ answer = [t \in Threads |-> None]
  /\ holder = [t \in Threads |-> FALSE]

(* A thread that emptied the cell refills it and calls nothing else.       *)
Call(t, r) ==
  /\ stage[t] = "idle"
  /\ holder[t] <=> r.op \in Refills
  /\ request' = [request EXCEPT ![t] = r]
  /\ stage' = [stage EXCEPT ![t] = "called"]
  /\ UNCHANGED <<cell, answer, holder>>

ReadFE(t) ==
  /\ request[t].op = "readfe"
  /\ cell # MARKER
  /\ cell' = MARKER
  /\ answer' = [answer EXCEPT ![t] = cell]
  /\ holder' = [holder EXCEPT ![t] = TRUE]

ReadFF(t) ==
  /\ request[t].op = "readff"
  /\ cell # MARKER
  /\ answer' = [answer EXCEPT ![t] = cell]
  /\ UNCHANGED <<cell, holder>>

WriteFF(t) ==
  /\ request[t].op = "writeff"
  /\ cell # MARKER
  /\ cell' = request[t].arg
  /\ answer' = [answer EXCEPT ![t] = cell]
  /\ UNCHANGED holder

WriteEF(t) ==
  /\ request[t].op = "writeef"
  /\ cell = MARKER
  /\ cell' = request[t].arg
  /\ answer' = [answer EXCEPT ![t] = MARKER]
  /\ holder' = [holder EXCEPT ![t] = FALSE]

WriteXF(t) ==
  /\ request[t].op = "writexf"
  /\ cell' = request[t].arg
  /\ answer' = [answer EXCEPT ![t] = request[t].arg]
  /\ holder' = [holder EXCEPT ![t] = FALSE]

Apply(t) ==
  /\ stage[t] = "called"
  /\ stage' = [stage EXCEPT ![t] = "done"]
  /\ UNCHANGED request
  /\ ReadFE(t) \/ ReadFF(t) \/ WriteFF(t) \/ WriteEF(t) \/ WriteXF(t)

Return(t) ==
  /\ stage[t] = "done"
  /\ stage' = [stage EXCEPT ![t] = "idle"]
  /\ answer' = [answer EXCEPT ![t] = None]
  /\ UNCHANGED <<cell, request, holder>>

Next ==
  \E t \in Threads :
    \/ \E r \in Requests : Call(t, r)
    \/ Apply(t)
    \/ Return(t)

Spec == Init /\ [][Next]_vars
==============================================================================

------------------------------- MODULE EdgeSet -------------------------------
(***************************************************************************)
(* What the edge store of src/core/stinger.c promises a batch: a set of    *)
(* typed, directed edges, to which every insertion, increment and removal  *)
(* of a phase is applied at one instant, with the return values of         *)
(* stinger_insert_edge, stinger_incr_edge and stinger_remove_edge.         *)
(***************************************************************************)
EXTENDS Integers, Sequences

CONSTANT Workloads   \* the sequences of phases; a phase is a sequence of operations

VARIABLES
  work,     \* the workload
  phase,    \* the phase in progress
  res,      \* res[i]: the result of operation i of the phase, ToDo before it
  present   \* the edges <<type, from, to>>

vars == <<work, phase, res, present>>

ToDo == -3

Begun(w, p) == [i \in IF p \in DOMAIN w THEN DOMAIN w[p] ELSE {} |-> ToDo]

Init ==
  /\ work \in Workloads
  /\ phase = 1
  /\ res = Begun(work, 1)
  /\ present = {}

EdgeOf(o) == <<o.type, o.from, o.to>>

(* 1 for an edge that is new, 0 for one that is there already, -1 for a    *)
(* self-loop.                                                              *)
Add(o, r) ==
  /\ o.kind \in {"insert", "incr"}
  /\ r = IF o.from = o.to THEN -1 ELSE IF EdgeOf(o) \in present THEN 0 ELSE 1
  /\ present' = IF r = 1 THEN present \cup {EdgeOf(o)} ELSE present

(* 1 for an edge removed.  For one that is not there the code has two      *)
(* answers, -1 when its search meets none (stinger.c:1235) and 0 when the  *)
(* edge is gone once its weight is locked (1230), and the comment at 1196  *)
(* promises the second: the set leaves open which a caller gets.           *)
Remove(o, r) ==
  /\ o.kind = "remove"
  /\ r \in IF EdgeOf(o) \in present THEN {1} ELSE {-1, 0}
  /\ present' = present \ {EdgeOf(o)}

Perform(i) ==
  /\ res[i] = ToDo
  /\ \E r \in {-1, 0, 1} :
       /\ Add(work[phase][i], r) \/ Remove(work[phase][i], r)
       /\ res' = [res EXCEPT ![i] = r]
  /\ UNCHANGED <<work, phase>>

NextPhase ==
  /\ phase \in DOMAIN work
  /\ \A i \in DOMAIN res : res[i] # ToDo
  /\ phase' = phase + 1
  /\ res' = Begun(work, phase + 1)
  /\ UNCHANGED <<work, present>>

Next == NextPhase \/ \E i \in DOMAIN res : Perform(i)

Spec == Init /\ [][Next]_vars
==============================================================================

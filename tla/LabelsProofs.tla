---------------------------- MODULE LabelsProofs -----------------------------
(***************************************************************************)
(* Theorems about Labels, for every number of threads, vertices and types  *)
(* and every history of graphs.                                            *)
(*                                                                         *)
(* EndsAgree is about the moment a computation ends.  What leads there is  *)
(* kept by Swept and Climbed: while nothing was stored in this round of    *)
(* sweeps, a thread about to compare holds the label its edge still has,   *)
(* and every edge is waiting, held by a thread, or in order; and in a      *)
(* climb every vertex is waiting, held, or has a label that is its own.    *)
(*                                                                         *)
(* Connected adds where labels come from, which makes the outcome that of  *)
(* the components; Counting what marks, list and sums hold while the       *)
(* threads count the sizes.                                                *)
(***************************************************************************)
EXTENDS Labels, FiniteSetTheorems, TLAPS

TodoOK ==
  /\ pc = "sweep" => todo \subseteq Graph[t]
  /\ pc \in {"climb", "claim"} => todo \subseteq V
  /\ pc = "tally" => todo \subseteq DOMAIN vlist

Climbing(p) == th[p].pc \in {"load", "climb"}

Fits(p) ==
  /\ th[p].pc \in {"compare", "store"} => pc = "sweep"
  /\ th[p].pc = "store" => th[p].d <= th[p].i
  /\ Climbing(p) => pc = "climb" /\ th[p].i \notin todo
  /\ th[p].pc = "climb" => th[p].d <= th[p].i /\ cm[th[p].i] # th[p].i
  /\ th[p].pc = "list" => pc = "claim"
  /\ th[p].pc = "summed" => pc = "sum"

Alone ==
  \A p, q \in Threads : p # q /\ Climbing(p) /\ Climbing(q) => th[p].i # th[q].i

Held(e) ==
  \E p \in Threads : th[p].pc \in {"compare", "store"} /\ th[p].i = e[1] /\ th[p].j = e[2]
InOrder(e) == cm[e[1]] <= cm[e[2]]
Rooted(v) == cm[cm[v]] = cm[v]

Swept ==
  pc = "sweep" /\ ~changed =>
    /\ \A p \in Threads : th[p].pc = "compare" => th[p].d = cm[th[p].j]
    /\ \A x \in Types : x < t => \A e \in Graph[x] : InOrder(e)
    /\ \A e \in Graph[t] : e \in todo \/ Held(e) \/ InOrder(e)
    /\ \A v \in V : Rooted(v)

Climbed ==
  pc = "climb" =>
    \A v \in V : \/ v \in todo
                 \/ \E p \in Threads : Climbing(p) /\ th[p].i = v
                 \/ Rooted(v)

Settled ==
  pc \notin {"sweep", "climb"} =>
    /\ \A v \in V : Rooted(v)
    /\ run > 0 => \A x \in Types : \A e \in Graph[x] : InOrder(e)

IInv ==
  /\ TypeOK /\ LabelsDescend /\ TodoOK /\ \A p \in Threads : Fits(p)
  /\ Alone /\ Swept /\ Climbed /\ Settled

------------------------------------------------------------------------------
(* Helpers.                                                                *)

(* Every graph of a history is one; its edges join vertices.               *)
LEMMA GraphTyped ==
  ASSUME TypeOK, NEW r \in 1..Len(history), NEW x \in Types
  PROVE  /\ history[r][x] \subseteq V \X V
         /\ \A e \in history[r][x] : <<e[2], e[1]>> \in history[r][x]
<1>1. history \in Seq(Graphs) BY LabelsOK DEF TypeOK
<1>2. history[r] \in Graphs BY <1>1
<1> QED BY <1>2 DEF Graphs

(* The numbers that bound the vertices and the types.                      *)
LEMMA Sizes == nv \in Nat /\ nv > 0 /\ NumTypes \in Nat /\ NumTypes > 0 /\ 0 \in V /\ 0 \in Types
BY LabelsOK DEF V, Types

(* A set of vertices can be counted.                                       *)
LEMMA CountTyped == ASSUME NEW S \in SUBSET V PROVE Cardinality(S) \in Nat
<1>1. IsFiniteSet(V) BY FS_Interval, Sizes DEF V
<1>2. IsFiniteSet(S) BY <1>1, FS_Subset
<1> QED BY <1>2, FS_CardinalityType

(* A thread moves on, with another label or vertex or without.             *)
LEMMA MoveTyped ==
  ASSUME NEW r \in Locals,
         NEW label \in {"idle", "compare", "store", "load", "climb", "list", "summed"},
         NEW d \in V
  PROVE  /\ [r EXCEPT !.pc = label] \in Locals
         /\ [r EXCEPT !.pc = label, !.d = d] \in Locals
BY DEF Locals

(* The initial state.                                                      *)
LEMMA InitIInv == Init => IInv
<1> SUFFICES ASSUME Init PROVE IInv OBVIOUS
<1> USE Sizes
<1>0. history \in Seq(Graphs) BY LabelsOK DEF Init
<1>1. TypeOK
  <2>1. Idle \in Locals BY DEF Idle, Locals
  <2>2. cm \in [V -> V] /\ mark \in [V -> Nat \cup {-1}] BY DEF Init
  <2>3. th \in [Threads -> Locals] BY <2>1 DEF Init
  <2>4. sizes \in [nnsc : Nat, mxcsz : Nat] /\ found \in [n : Nat, nonsingleton : Nat, max : Nat]
    BY DEF Init
  <2>5. vlist \in Seq(V) BY DEF Init
  <2>6. run \in 0..Len(history) BY <1>0 DEF Init
  <2> QED BY <2>2, <2>3, <2>4, <2>5, <2>6 DEF Init, TypeOK
<1>2. LabelsDescend BY DEF Init, LabelsDescend, V
<1>3. TodoOK BY DEF Init, TodoOK
<1>4. \A p \in Threads : Fits(p) BY DEF Init, Fits, Climbing, Idle
<1>5. Alone BY DEF Init, Alone, Climbing, Idle
<1>6. Swept /\ Climbed BY DEF Init, Swept, Climbed
<1>7. Settled BY DEF Init, Settled, Rooted
<1> QED BY <1>1, <1>2, <1>3, <1>4, <1>5, <1>6, <1>7 DEF IInv

------------------------------------------------------------------------------
(* The steps of the team.                                                  *)

(* A computation begins.                                                   *)
LEMMA StepBegin == IInv /\ Begin => IInv'
<1> SUFFICES ASSUME IInv, Begin PROVE IInv' OBVIOUS
<1> USE Sizes
<1>0. run + 1 \in 1..Len(history) BY DEF Begin, IInv, TypeOK
<1>a. history[run + 1][0] \subseteq V \X V BY <1>0, GraphTyped DEF IInv
<1>b. /\ cm' \in [V -> V] /\ \A v \in V : cm'[v] <= v /\ cm'[cm'[v]] = cm'[v]
  BY DEF Begin, IInv, TypeOK, LabelsDescend, Settled, Rooted, V
<1>1. TypeOK'
  <2>1. run' \in 0..Len(history)' /\ run' > 0 BY <1>0 DEF Begin, IInv, TypeOK
  <2>2. /\ keeps' \in BOOLEAN /\ history' \in Histories /\ t' \in Types /\ changed' \in BOOLEAN
        /\ pc' \in {"sweep", "climb", "count", "claim", "tally", "sum", "done"}
        /\ th' \in [Threads -> Locals]
    BY DEF Begin, IInv, TypeOK
  <2> QED BY <2>1, <2>2, <1>b DEF Begin, IInv, TypeOK, count
<1>2. LabelsDescend' BY <1>b DEF LabelsDescend
<1>3. TodoOK' BY DEF Begin, TodoOK, Graph
<1>4. \A p \in Threads :
        \/ th[p].pc = "idle"
        \/ th[p].pc \notin {"compare", "store", "load", "climb", "list", "summed"}
  BY DEF IInv, Fits, Climbing, Begin
<1>5. (\A p \in Threads : Fits(p))' BY <1>4 DEF Begin, Fits, Climbing
<1>6. Alone' BY <1>4 DEF Begin, Alone, Climbing
<1>7. Swept'
  <2>1. \A e \in history[run + 1][0] : e \in todo' BY DEF Begin
  <2> QED BY <2>1, <1>4, <1>b DEF Begin, Swept, Graph, Rooted, Types
<1>8. Climbed' /\ Settled' BY DEF Begin, Climbed, Settled
<1> QED BY <1>1, <1>2, <1>3, <1>5, <1>6, <1>7, <1>8 DEF IInv

(* The edges of the next type.                                             *)
LEMMA StepNextType == IInv /\ NextType => IInv'
<1> SUFFICES ASSUME IInv, NextType PROVE IInv' OBVIOUS
<1> USE Sizes
<1>1. TypeOK' BY DEF NextType, Barrier, IInv, TypeOK, Types, count
<1>2. LabelsDescend' BY DEF NextType, IInv, LabelsDescend
<1>3. TodoOK' BY DEF NextType, Barrier, TodoOK, Graph
<1>4. (\A p \in Threads : Fits(p))' BY DEF NextType, Barrier, Fits, Climbing
<1>5. Alone' BY DEF NextType, Barrier, Alone, Climbing
<1>6. Swept'
  <2> SUFFICES ASSUME ~changed PROVE Swept' BY DEF Swept, NextType
  <2>1. \A e \in Graph[t] : InOrder(e) BY DEF IInv, Swept, NextType, Barrier, Held
  <2>2. \A x \in Types : x < t' => \A e \in Graph[x] : InOrder(e)
    BY <2>1 DEF IInv, Swept, NextType, Barrier, TypeOK, Types
  <2>3. \A v \in V : Rooted(v) BY DEF IInv, Swept, NextType, Barrier
  <2> QED BY <2>2, <2>3 DEF NextType, Barrier, Swept, Graph, InOrder, Rooted
<1>7. Climbed' /\ Settled' BY DEF NextType, Barrier, Climbed, Settled
<1> QED BY <1>1, <1>2, <1>3, <1>4, <1>5, <1>6, <1>7 DEF IInv

(* The end of a round of sweeps, and with it perhaps of the computation.   *)
LEMMA StepEndSweep == IInv /\ EndSweep => IInv'
<1> SUFFICES ASSUME IInv, EndSweep PROVE IInv' OBVIOUS
<1> USE Sizes
<1>1. TypeOK'
  <2>1. sizes' \in [nnsc : Nat, mxcsz : Nat] /\ vlist' \in Seq(V)
        /\ mark' = mark /\ found' \in [n : Nat, nonsingleton : Nat, max : Nat]
    <3>1. CASE changed BY <3>1 DEF EndSweep, count, IInv, TypeOK
    <3>2. CASE ~changed
      <4>0. Cardinality({v \in V : cm[v] = cm[cm[v]]}) \in Nat BY CountTyped
      <4>1. sizes' = [nnsc |-> 0, mxcsz |-> 0] /\ vlist' = <<>> /\ mark' = mark
        BY <3>2 DEF EndSweep
      <4>2. found' \in [n : Nat, nonsingleton : Nat, max : Nat]
        BY <3>2, <4>0 DEF EndSweep, IInv, TypeOK
      <4> QED BY <4>1, <4>2
    <3> QED BY <3>1, <3>2
  <2>2. pc' \in {"climb", "claim", "count"} /\ run > 0 BY DEF EndSweep, Barrier, IInv, TypeOK
  <2> QED BY <2>1, <2>2 DEF EndSweep, IInv, TypeOK
<1>2. LabelsDescend' BY DEF EndSweep, IInv, LabelsDescend
<1>3. TodoOK' BY DEF EndSweep, Barrier, TodoOK
<1>4. (\A p \in Threads : Fits(p))' BY DEF EndSweep, Barrier, Fits, Climbing
<1>5. Alone' BY DEF EndSweep, Barrier, Alone, Climbing
<1>6. Swept' BY DEF EndSweep, Swept
<1>7. Climbed' BY DEF EndSweep, Climbed
<1>8. Settled'
  <2> SUFFICES ASSUME ~changed PROVE Settled' BY DEF Settled, EndSweep
  <2>1. \A e \in Graph[t] : InOrder(e) BY DEF IInv, Swept, EndSweep, Barrier, Held
  <2>2. \A x \in Types : \A e \in Graph[x] : InOrder(e)
    BY <2>1 DEF IInv, Swept, EndSweep, Barrier, TypeOK, Types
  <2>3. \A v \in V : Rooted(v) BY DEF IInv, Swept, EndSweep, Barrier
  <2> QED BY <2>2, <2>3 DEF EndSweep, Settled, Graph, InOrder, Rooted
<1> QED BY <1>1, <1>2, <1>3, <1>4, <1>5, <1>6, <1>7, <1>8 DEF IInv

(* The end of a climb.                                                     *)
LEMMA StepEndClimb == IInv /\ EndClimb => IInv'
<1> SUFFICES ASSUME IInv, EndClimb PROVE IInv' OBVIOUS
<1> USE Sizes
<1>1. TypeOK' BY DEF EndClimb, Barrier, IInv, TypeOK, count
<1>2. LabelsDescend' BY DEF EndClimb, IInv, LabelsDescend
<1>3. TodoOK' BY DEF EndClimb, TodoOK, Graph
<1>4. (\A p \in Threads : Fits(p))' BY DEF EndClimb, Barrier, Fits, Climbing
<1>5. Alone' BY DEF EndClimb, Barrier, Alone, Climbing
<1>6. Swept'
  <2>1. \A v \in V : Rooted(v) BY DEF EndClimb, Barrier, IInv, Climbed, Climbing
  <2>2. \A p \in Threads : th'[p].pc = "idle" BY DEF EndClimb, Barrier
  <2>3. t' = 0 /\ todo' = Graph'[t'] BY DEF EndClimb, Graph
  <2> QED BY <2>1, <2>2, <2>3 DEF EndClimb, Swept, Rooted, Types
<1>7. Climbed' /\ Settled' BY DEF EndClimb, Climbed, Settled
<1> QED BY <1>1, <1>2, <1>3, <1>4, <1>5, <1>6, <1>7 DEF IInv

(* The steps after the last sweep: labels are only read.                   *)
LEMMA StepAfter == IInv /\ (CountRoots \/ EndClaim \/ EndTally \/ EndSum) => IInv'
<1> SUFFICES ASSUME IInv, CountRoots \/ EndClaim \/ EndTally \/ EndSum PROVE IInv' OBVIOUS
<1> USE Sizes DEF CountRoots, EndClaim, EndTally, EndSum, Barrier
<1>0. Cardinality({v \in V : cm[v] = v /\ vtype[v] # 0}) \in Nat BY CountTyped
<1>a. Idle \in Locals BY DEF Idle, Locals
<1>1. TypeOK'
  <2>1. CASE CountRoots BY <2>1, <1>0 DEF IInv, TypeOK
  <2>2. CASE EndClaim BY <2>2 DEF IInv, TypeOK, count
  <2>3. CASE EndTally BY <2>3 DEF IInv, TypeOK, count
  <2>4. CASE EndSum BY <2>4, <1>a DEF IInv, TypeOK
  <2> QED BY <2>1, <2>2, <2>3, <2>4
<1>2. LabelsDescend' BY DEF IInv, LabelsDescend
<1>3. TodoOK' BY DEF TodoOK, count
<1>4. (\A p \in Threads : Fits(p))' BY DEF IInv, Fits, Climbing, Idle
<1>5. Alone' BY DEF IInv, Fits, Alone, Climbing, Idle
<1>6. Swept' /\ Climbed' BY DEF Swept, Climbed
<1>7. Settled' BY DEF IInv, Settled, Graph, InOrder, Rooted
<1> QED BY <1>1, <1>2, <1>3, <1>4, <1>5, <1>6, <1>7 DEF IInv
------------------------------------------------------------------------------
(* The steps of a thread.  Each changes its own locals only, and at most   *)
(* one label, of a vertex that no other climbing thread holds.             *)

(* A thread takes an edge.                                                 *)
LEMMA StepTakeEdge == ASSUME IInv, NEW p \in Threads, TakeEdge(p) PROVE IInv'
<1> USE Sizes DEF TakeEdge, Runs, Move, At
<1>1. PICK e \in todo : /\ todo' = todo \ {e}
                        /\ th' = [th EXCEPT ![p] = [th[p] EXCEPT !.pc = "compare", !.i = e[1],
                                                                 !.j = e[2], !.d = cm[e[2]]]]
  OBVIOUS
<1>2. run \in 1..Len(history) /\ t \in Types BY DEF IInv, TypeOK
<1>3. e \in V \X V BY <1>2, GraphTyped DEF IInv, TodoOK, Graph
<1>4. th[p] \in Locals /\ cm[e[2]] \in V BY <1>3 DEF IInv, TypeOK
<1>5. TypeOK'
  <2>1. th'[p] \in Locals BY <1>1, <1>3, <1>4 DEF Locals, IInv, TypeOK
  <2> QED BY <1>1, <2>1 DEF IInv, TypeOK, count
<1>6. LabelsDescend' BY DEF IInv, LabelsDescend
<1>7. TodoOK' BY DEF IInv, TodoOK, Graph
<1>8. (\A q \in Threads : Fits(q))' BY <1>1 DEF IInv, TypeOK, Fits, Climbing
<1>9. Alone' BY <1>1 DEF IInv, TypeOK, Fits, Alone, Climbing
<1>10. Swept'
  <2> SUFFICES ASSUME ~changed PROVE Swept' BY DEF Swept
  <2>1. \A q \in Threads : th'[q].pc = "compare" => th'[q].d = cm[th'[q].j]
    BY <1>1, <1>4 DEF IInv, Swept, TypeOK, Locals
  <2>2. ASSUME NEW f \in Graph[t], ~(f \in todo'), ~InOrder(f) PROVE Held(f)'
    <3>1. CASE f = e BY <3>1, <1>1, <1>4, <1>3 DEF Held, IInv, TypeOK, Locals
    <3>2. CASE f # e
      <4>1. PICK q \in Threads :
              th[q].pc \in {"compare", "store"} /\ th[q].i = f[1] /\ th[q].j = f[2]
        BY <3>2, <2>2, <1>1 DEF IInv, Swept, Held
      <4>2. q # p BY <4>1
      <4> QED BY <4>1, <4>2, <1>1 DEF Held, IInv, TypeOK
    <3> QED BY <3>1, <3>2
  <2> QED BY <2>1, <2>2 DEF IInv, Swept, Graph, InOrder, Rooted
<1>11. Climbed' /\ Settled' BY DEF IInv, Climbed, Settled
<1> QED BY <1>5, <1>6, <1>7, <1>8, <1>9, <1>10, <1>11 DEF IInv

(* A thread compares: it lets the edge go only if it is in order.          *)
LEMMA StepCompare == ASSUME IInv, NEW p \in Threads, Compare(p) PROVE IInv'
<1> USE Sizes DEF Compare, Runs, Move, At, loop
<1> DEFINE to == IF th[p].d < cm[th[p].i] THEN "store" ELSE "idle"
<1>1. th' = [th EXCEPT ![p] = [th[p] EXCEPT !.pc = to]] OBVIOUS
<1>2. th[p] \in Locals /\ th[p].i \in V /\ th[p].j \in V /\ th[p].d \in V /\ cm \in [V -> V]
  BY DEF IInv, TypeOK, Locals
<1>3. th'[p].pc = to /\ th'[p].i = th[p].i /\ th'[p].j = th[p].j /\ th'[p].d = th[p].d
  BY <1>1, <1>2 DEF IInv, TypeOK, Locals
<1>4. \A q \in Threads : q # p => th'[q] = th[q] BY <1>1 DEF IInv, TypeOK
<1>5. TypeOK'
  <2>1. th'[p] \in Locals BY <1>1, <1>2, MoveTyped DEF IInv, TypeOK
  <2> QED BY <1>1, <2>1 DEF IInv, TypeOK, count
<1>6. LabelsDescend' BY DEF IInv, LabelsDescend
<1>7. TodoOK' BY DEF IInv, TodoOK, Graph, count
<1>8. (\A q \in Threads : Fits(q))'
  <2>1. Fits(p)' BY <1>2, <1>3 DEF Fits, Climbing, IInv, LabelsDescend, V
  <2>2. ASSUME NEW q \in Threads, q # p PROVE Fits(q)' BY <2>2, <1>4 DEF Fits, Climbing, IInv
  <2> QED BY <2>1, <2>2
<1>9. Alone' BY <1>3, <1>4 DEF IInv, Fits, Alone, Climbing
<1>10. Swept'
  <2> SUFFICES ASSUME ~changed PROVE Swept' BY DEF Swept
  <2>1. \A q \in Threads : th'[q].pc = "compare" => th'[q].d = cm[th'[q].j]
    BY <1>3, <1>4 DEF IInv, Swept
  <2>2. ASSUME NEW f \in Graph[t], ~(f \in todo), ~InOrder(f) PROVE Held(f)'
    <3>1. PICK q \in Threads : th[q].pc \in {"compare", "store"} /\ th[q].i = f[1] /\ th[q].j = f[2]
      BY <2>2 DEF IInv, Swept, Held
    <3>2. CASE q # p BY <3>1, <3>2, <1>4 DEF Held
    <3>3. CASE q = p
      <4>1. th[p].d = cm[f[2]] BY <3>1, <3>3 DEF IInv, Swept
      <4>2. th[p].d < cm[th[p].i] BY <4>1, <3>1, <3>3, <2>2, <1>2 DEF InOrder, V
      <4> QED BY <4>2, <3>1, <3>3, <1>3 DEF Held
    <3> QED BY <3>2, <3>3
  <2> QED BY <2>1, <2>2 DEF IInv, Swept, Graph, InOrder, Rooted
<1>11. Climbed' /\ Settled' BY DEF IInv, Climbed, Settled
<1> QED BY <1>5, <1>6, <1>7, <1>8, <1>9, <1>10, <1>11 DEF IInv

(* A thread stores a lesser label: the round will be followed by another.  *)
LEMMA StepStore == ASSUME IInv, NEW p \in Threads, Store(p) PROVE IInv'
<1> USE Sizes DEF Store, Runs, Move, At
<1>1. th' = [th EXCEPT ![p] = [th[p] EXCEPT !.pc = "idle"]] OBVIOUS
<1>2. th[p] \in Locals /\ th[p].i \in V /\ th[p].d \in V /\ cm \in [V -> V]
  BY DEF IInv, TypeOK, Locals
<1>3. th'[p].pc = "idle" BY <1>1, <1>2 DEF IInv, TypeOK, Locals
<1>4. \A q \in Threads : q # p => th'[q] = th[q] BY <1>1 DEF IInv, TypeOK
<1>5. TypeOK'
  <2>0. th'[p] = [th[p] EXCEPT !.pc = "idle"] BY <1>1 DEF IInv, TypeOK
  <2>1. th'[p] \in Locals BY <1>2, <2>0 DEF Locals
  <2>2. th' \in [Threads -> Locals] /\ cm' \in [V -> V] BY <1>1, <1>2, <2>1 DEF IInv, TypeOK
  <2> QED BY <2>2 DEF IInv, TypeOK, count
<1>6. LabelsDescend' BY <1>2 DEF IInv, LabelsDescend, Fits
<1>7. TodoOK' BY DEF IInv, TodoOK, Graph, count
<1>8. (\A q \in Threads : Fits(q))' BY <1>3, <1>4 DEF IInv, Fits, Climbing
<1>9. Alone' BY <1>3, <1>4 DEF IInv, Alone, Climbing
<1>10. Swept' /\ Climbed' /\ Settled' BY DEF IInv, Fits, Swept, Climbed, Settled
<1> QED BY <1>5, <1>6, <1>7, <1>8, <1>9, <1>10 DEF IInv

(* A thread takes a vertex to climb from.                                  *)
LEMMA StepTakeVertex == ASSUME IInv, NEW p \in Threads, TakeVertex(p) PROVE IInv'
<1> USE Sizes DEF TakeVertex, Runs, Move, At
<1>1. PICK v \in todo :
        todo' = todo \ {v} /\ th' = [th EXCEPT ![p] = [th[p] EXCEPT !.pc = "load", !.i = v]]
  OBVIOUS
<1>2. v \in V /\ th[p] \in Locals BY DEF IInv, TypeOK, TodoOK
<1>3. th'[p].pc = "load" /\ th'[p].i = v BY <1>1, <1>2 DEF IInv, TypeOK, Locals
<1>4. \A q \in Threads : q # p => th'[q] = th[q] BY <1>1 DEF IInv, TypeOK
<1>5. TypeOK'
  <2>1. th'[p] \in Locals BY <1>1, <1>2 DEF Locals, IInv, TypeOK
  <2> QED BY <1>1, <2>1 DEF IInv, TypeOK, count
<1>6. LabelsDescend' BY DEF IInv, LabelsDescend
<1>7. TodoOK' BY DEF IInv, TodoOK, Graph
<1>8. (\A q \in Threads : Fits(q))' BY <1>1, <1>3, <1>4 DEF IInv, Fits, Climbing
<1>9. Alone' BY <1>1, <1>3, <1>4 DEF IInv, Fits, Alone, Climbing
<1>10. Climbed'
  <2>1. ASSUME NEW w \in V, ~(w \in todo'), ~Rooted(w)
        PROVE \E q \in Threads : Climbing(q)' /\ th'[q].i = w
    <3>1. CASE w = v BY <3>1, <1>3 DEF Climbing
    <3>2. CASE w # v
      <4>1. PICK q \in Threads : Climbing(q) /\ th[q].i = w BY <3>2, <2>1, <1>1 DEF IInv, Climbed
      <4> QED BY <4>1, <1>4 DEF Climbing
    <3> QED BY <3>1, <3>2
  <2> QED BY <2>1 DEF Climbed, Rooted
<1>11. Swept' /\ Settled' BY DEF Swept, Settled
<1> QED BY <1>5, <1>6, <1>7, <1>8, <1>9, <1>10, <1>11 DEF IInv

(* A thread looks one label up: it leaves a vertex only if it is rooted.   *)
LEMMA StepLoadRoot == ASSUME IInv, NEW p \in Threads, LoadRoot(p) PROVE IInv'
<1> USE Sizes DEF LoadRoot, Runs, Move, At, loop
<1> DEFINE i == th[p].i
           to == IF cm[cm[i]] = cm[i] THEN "idle" ELSE "climb"
<1>1. th' = [th EXCEPT ![p] = [th[p] EXCEPT !.pc = to, !.d = cm[cm[i]]]] OBVIOUS
<1>2. th[p] \in Locals /\ i \in V /\ cm \in [V -> V] /\ cm[i] \in V /\ cm[cm[i]] \in V
  BY DEF IInv, TypeOK, Locals
<1>3. th'[p].pc = to /\ th'[p].i = i /\ th'[p].d = cm[cm[i]] BY <1>1, <1>2 DEF IInv, TypeOK, Locals
<1>4. \A q \in Threads : q # p => th'[q] = th[q] BY <1>1 DEF IInv, TypeOK
<1>5. TypeOK'
  <2> DEFINE root == cm[cm[i]]
  <2>1. th'[p] \in Locals
    <3>1. th'[p] = [th[p] EXCEPT !.pc = to, !.d = root] BY <1>1 DEF IInv, TypeOK
    <3>2. to \in {"idle", "compare", "store", "load", "climb", "list", "summed"} OBVIOUS
    <3>3. root \in V /\ th[p] \in Locals BY <1>2
    <3> HIDE DEF to, root
    <3>4. [th[p] EXCEPT !.pc = to, !.d = root] \in Locals BY <3>2, <3>3, MoveTyped
    <3> QED BY <3>1, <3>4
  <2> QED BY <1>1, <2>1 DEF IInv, TypeOK, count
<1>6. LabelsDescend' BY DEF IInv, LabelsDescend
<1>7. TodoOK' BY DEF IInv, TodoOK, Graph, count
<1>8. (\A q \in Threads : Fits(q))'
  <2>1. cm[cm[i]] <= i BY <1>2 DEF IInv, LabelsDescend, V
  <2>2. Fits(p)' BY <2>1, <1>2, <1>3 DEF Fits, Climbing, IInv
  <2>3. ASSUME NEW q \in Threads, q # p PROVE Fits(q)' BY <2>3, <1>4 DEF Fits, Climbing, IInv
  <2> QED BY <2>2, <2>3
<1>9. Alone' BY <1>3, <1>4 DEF IInv, Alone, Climbing
<1>10. Climbed'
  <2>1. ASSUME NEW w \in V, ~(w \in todo), ~Rooted(w)
        PROVE \E q \in Threads : Climbing(q)' /\ th'[q].i = w
    <3>1. PICK q \in Threads : Climbing(q) /\ th[q].i = w BY <2>1 DEF IInv, Climbed
    <3>2. CASE q = p BY <3>1, <3>2, <2>1, <1>3 DEF Climbing, Rooted
    <3>3. CASE q # p BY <3>1, <3>3, <1>4 DEF Climbing
    <3> QED BY <3>2, <3>3
  <2> QED BY <2>1 DEF Climbed, Rooted
<1>11. Swept' /\ Settled' BY DEF Swept, Settled
<1> QED BY <1>5, <1>6, <1>7, <1>8, <1>9, <1>10, <1>11 DEF IInv

(* A thread climbs: its vertex is nobody's root.                           *)
LEMMA StepClimb == ASSUME IInv, NEW p \in Threads, Climb(p) PROVE IInv'
<1> USE Sizes DEF Climb, Runs, Move, At, loop
<1> DEFINE i == th[p].i
<1>1. /\ th' = [th EXCEPT ![p] = [th[p] EXCEPT !.pc = "load"]]
      /\ cm' = [cm EXCEPT ![i] = th[p].d]
  OBVIOUS
<1>2. th[p] \in Locals /\ i \in V /\ th[p].d \in V /\ cm \in [V -> V]
  BY DEF IInv, TypeOK, Locals
<1>3. th'[p].pc = "load" /\ th'[p].i = i BY <1>1, <1>2 DEF IInv, TypeOK, Locals
<1>4. \A q \in Threads : q # p => th'[q] = th[q] BY <1>1 DEF IInv, TypeOK
<1>a. pc = "climb" /\ i \notin todo /\ cm[i] # i /\ th[p].d <= i BY DEF IInv, Fits, Climbing
<1>5. TypeOK'
  <2>1. th'[p] \in Locals
    <3>1. th'[p] = [th[p] EXCEPT !.pc = "load"] BY <1>1 DEF IInv, TypeOK
    <3> QED BY <3>1, <1>2, MoveTyped
  <2> QED BY <1>1, <1>2, <2>1 DEF IInv, TypeOK, count
<1>6. LabelsDescend' BY <1>1, <1>2, <1>a DEF IInv, LabelsDescend
<1>7. TodoOK' BY DEF IInv, TodoOK, Graph, count
<1>8. (\A q \in Threads : Fits(q))'
  <2>1. Fits(p)' BY <1>3, <1>a DEF Fits, Climbing
  <2>2. ASSUME NEW q \in Threads, q # p PROVE Fits(q)'
    <3>1. Climbing(q) => th[q].i # i BY <2>2 DEF IInv, Alone, Climbing
    <3>2. th[q].i \in V BY DEF IInv, TypeOK, Locals
    <3> QED BY <2>2, <3>1, <3>2, <1>1, <1>2, <1>4 DEF Fits, Climbing, IInv
  <2> QED BY <2>1, <2>2
<1>9. Alone' BY <1>3, <1>4 DEF IInv, Alone, Climbing
<1>10. Climbed'
  <2>1. ASSUME NEW w \in V, ~(w \in todo), ~\E q \in Threads : Climbing(q)' /\ th'[q].i = w
        PROVE Rooted(w)'
    <3>1. w # i BY <2>1, <1>3 DEF Climbing
    <3>2. ~\E q \in Threads : Climbing(q) /\ th[q].i = w BY <2>1, <3>1, <1>4 DEF Climbing
    <3>3. Rooted(w) BY <3>2, <2>1, <1>a DEF IInv, Climbed
    <3>4. cm[w] # i /\ cm[w] \in V BY <3>3, <1>a, <1>2 DEF Rooted
    <3> QED BY <3>1, <3>3, <3>4, <1>1, <1>2 DEF Rooted
  <2> QED BY <2>1 DEF Climbed
<1>11. Swept' /\ Settled' BY <1>a DEF Swept, Settled
<1> QED BY <1>5, <1>6, <1>7, <1>8, <1>9, <1>10, <1>11 DEF IInv

(* A thread counts, lists or sums: labels are only read.                   *)
LEMMA StepCount ==
  ASSUME IInv, NEW p \in Threads, Claim(p) \/ List(p) \/ Tally(p) \/ Sum(p) PROVE IInv'
<1> USE Sizes DEF Runs, Move, At
<1>1. /\ pc \in {"claim", "tally", "sum"} /\ pc' = pc /\ cm' = cm /\ run' = run
      /\ history' = history /\ t' = t
  BY DEF Claim, List, Tally, Sum, loop
<1>2. th[p] \in Locals /\ cm \in [V -> V] /\ mark \in [V -> Nat \cup {-1}] /\ vlist \in Seq(V)
  BY DEF IInv, TypeOK
<1>3. /\ th' = [th EXCEPT ![p] = th'[p]]
      /\ th'[p] \in Locals
      /\ th'[p].pc \in {"idle", "list", "summed"}
      /\ th'[p].pc = "list" => pc = "claim"
      /\ th'[p].pc = "summed" => pc = "sum"
      /\ mark' \in [V -> Nat \cup {-1}] /\ vlist' \in Seq(V) /\ sizes' \in [nnsc : Nat, mxcsz : Nat]
      /\ todo' \subseteq todo /\ Len(vlist) <= Len(vlist')
  <2>1. CASE Claim(p)
    <3>1. PICK v \in todo :
            /\ todo' = todo \ {v} /\ mark' = [mark EXCEPT ![cm[v]] = @ + 1]
            /\ th' = [th EXCEPT ![p] = IF mark[cm[v]] = -1
                                       THEN [th[p] EXCEPT !.pc = "list", !.i = cm[v]]
                                       ELSE th[p]]
      BY <2>1 DEF Claim
    <3>2. v \in V /\ cm[v] \in V BY <2>1, <1>2 DEF Claim, IInv, TodoOK
    <3>3. mark' \in [V -> Nat \cup {-1}] BY <3>1, <3>2, <1>2
    <3>4. th'[p] \in Locals /\ th' = [th EXCEPT ![p] = th'[p]] /\ th'[p].pc \in {"idle", "list"}
      BY <3>1, <3>2, <1>2, <2>1 DEF Claim, Locals, IInv, TypeOK
    <3>5. sizes' = sizes /\ vlist' = vlist /\ pc = "claim" BY <2>1 DEF Claim
    <3>6. Len(vlist) \in Nat BY <1>2
    <3> QED BY <3>1, <3>3, <3>4, <3>5, <3>6, <1>2 DEF IInv, TypeOK
  <2>2. CASE List(p)
    <3>1. th[p].i \in V BY <1>2 DEF Locals
    <3>2. vlist' \in Seq(V) /\ Len(vlist') = Len(vlist) + 1 BY <2>2, <3>1, <1>2 DEF List
    <3>3. th'[p] \in Locals /\ th' = [th EXCEPT ![p] = th'[p]] /\ th'[p].pc = "idle"
      BY <2>2, <1>2 DEF List, Locals, IInv, TypeOK
    <3> QED BY <2>2, <3>2, <3>3, <1>2 DEF List, loop, IInv, TypeOK
  <2>3. CASE Tally(p)
    <3> DEFINE csz(k) == mark[vlist[k]] + 1
    <3>1. PICK k \in todo :
            /\ todo' = todo \ {k} /\ mark' = [mark EXCEPT ![vlist[k]] = -1]
            /\ th' = [th EXCEPT ![p] = [th[p] EXCEPT !.nn = IF csz(k) > 1 THEN @ + 1 ELSE @,
                                                     !.mx = IF csz(k) > @ THEN csz(k) ELSE @]]
      BY <2>3 DEF Tally
    <3>0. pc = "tally" /\ th[p].pc = "idle" /\ sizes' = sizes /\ vlist' = vlist BY <2>3 DEF Tally
    <3>2. vlist[k] \in V
      <4>1. k \in DOMAIN vlist BY <3>0, <3>1 DEF IInv, TodoOK
      <4> QED BY <4>1, <1>2
    <3>3. csz(k) \in Nat BY <3>2, <1>2
    <3>4. mark' \in [V -> Nat \cup {-1}] BY <3>1, <3>2, <1>2
    <3>5. th'[p] \in Locals /\ th' = [th EXCEPT ![p] = th'[p]] /\ th'[p].pc = "idle"
      <4>1. PICK n \in Nat, m \in Nat \cup {-1} :
              th' = [th EXCEPT ![p] = [th[p] EXCEPT !.nn = n, !.mx = m]]
        <5> HIDE DEF csz
        <5>1. th[p].nn \in Nat /\ th[p].mx \in Nat \cup {-1} BY <1>2 DEF Locals
        <5>2. (IF csz(k) > 1 THEN th[p].nn + 1 ELSE th[p].nn) \in Nat BY <5>1
        <5>3. (IF csz(k) > th[p].mx THEN csz(k) ELSE th[p].mx) \in Nat \cup {-1} BY <5>1, <3>3
        <5> QED BY <3>1, <5>2, <5>3
      <4> QED BY <4>1, <3>0, <1>2 DEF Locals, IInv, TypeOK
    <3>6. Len(vlist) \in Nat BY <1>2
    <3> QED BY <3>0, <3>1, <3>4, <3>5, <3>6, <1>2 DEF IInv, TypeOK
  <2>4. CASE Sum(p)
    <3>1. /\ th[p].nn \in Nat /\ th[p].mx \in Nat \cup {-1}
          /\ sizes.nnsc \in Nat /\ sizes.mxcsz \in Nat
      BY <1>2 DEF Locals, IInv, TypeOK
    <3>2. sizes' \in [nnsc : Nat, mxcsz : Nat] BY <2>4, <3>1 DEF Sum
    <3>3. th'[p] \in Locals /\ th' = [th EXCEPT ![p] = th'[p]] /\ th'[p].pc = "summed"
      BY <2>4, <1>2 DEF Sum, Locals, IInv, TypeOK
    <3> QED BY <2>4, <3>2, <3>3, <1>2 DEF Sum, loop, IInv, TypeOK
  <2> QED BY <2>1, <2>2, <2>3, <2>4
<1>4. \A q \in Threads : q # p => th'[q] = th[q] BY <1>3 DEF IInv, TypeOK
<1>5. TypeOK'
  <2>1. keeps' = keeps /\ changed' = changed /\ found' = found BY DEF Claim, List, Tally, Sum, loop
  <2>2. th' \in [Threads -> Locals] BY <1>3 DEF IInv, TypeOK
  <2> QED BY <1>1, <1>3, <2>1, <2>2 DEF IInv, TypeOK
<1>6. LabelsDescend' BY <1>1 DEF IInv, LabelsDescend
<1>7. TodoOK'
  <2>1. DOMAIN vlist \subseteq DOMAIN vlist' BY <1>3, <1>2
  <2> QED BY <2>1, <1>1, <1>3 DEF IInv, TodoOK
<1>8. (\A q \in Threads : Fits(q))' BY <1>1, <1>3, <1>4 DEF IInv, Fits, Climbing
<1>9. Alone' BY <1>3, <1>4 DEF IInv, Alone, Climbing
<1>10. Swept' /\ Climbed' BY <1>1 DEF Swept, Climbed
<1>11. Settled' BY <1>1 DEF IInv, Settled, Graph, InOrder, Rooted
<1> QED BY <1>5, <1>6, <1>7, <1>8, <1>9, <1>10, <1>11 DEF IInv

------------------------------------------------------------------------------
(* The theorems.                                                           *)

(* Every step keeps the invariant.                                         *)
LEMMA StepIInv == IInv /\ [Next]_vars => IInv'
<1> SUFFICES ASSUME IInv, [Next]_vars PROVE IInv' OBVIOUS
<1>1. CASE Team
  BY <1>1, StepBegin, StepNextType, StepEndSweep, StepEndClimb, StepAfter DEF Team
<1>2. CASE \E p \in Threads : Worker(p)
  BY <1>2, StepTakeEdge, StepCompare, StepStore, StepTakeVertex, StepLoadRoot, StepClimb, StepCount
  DEF Worker
<1>3. CASE UNCHANGED vars
  BY <1>3 DEF vars, loop, count, IInv, TypeOK, LabelsDescend, TodoOK, Fits, Climbing, Alone, Swept,
              Held, Climbed, Settled, InOrder, Rooted, Graph
<1> QED BY <1>1, <1>2, <1>3 DEF Next, Over

LEMMA Inductive == Spec => []IInv
BY InitIInv, StepIInv, PTL DEF Spec

(* Every variable has its type; no label leads out of the vertex array.    *)
THEOREM TypeCorrect == Spec => []TypeOK
<1>1. IInv => TypeOK BY DEF IInv
<1> QED BY <1>1, Inductive, PTL

(* No label is ever greater than its vertex, in whatever order threads     *)
(* overwrite each other's labels.                                          *)
THEOREM Descent == Spec => []LabelsDescend
<1>1. IInv => LabelsDescend BY DEF IInv
<1> QED BY <1>1, Inductive, PTL

(* When a computation has ended, the two ends of each edge have one label, *)
(* and it is its own.                                                      *)
THEOREM Agreement == Spec => []EndsAgree
<1>1. IInv => EndsAgree
  <2> SUFFICES ASSUME IInv, pc \in {"done", "count", "claim", "tally", "sum"}, run > 0
               PROVE  /\ \A e \in Edges : cm[e[1]] = cm[e[2]]
                      /\ \A v \in V : cm[cm[v]] = cm[v]
    BY DEF EndsAgree
  <2>1. \A x \in Types : \A e \in Graph[x] : cm[e[1]] <= cm[e[2]] BY DEF IInv, Settled, InOrder
  <2>2. run \in 1..Len(history) BY DEF IInv, TypeOK
  <2>3. ASSUME NEW x \in Types, NEW e \in Graph[x] PROVE cm[e[1]] = cm[e[2]]
    <3>1. e \in V \X V /\ <<e[2], e[1]>> \in Graph[x] BY <2>2, GraphTyped DEF IInv, Graph
    <3>2. cm[e[1]] \in Nat /\ cm[e[2]] \in Nat BY <3>1 DEF IInv, TypeOK, V
    <3>3. cm[e[2]] <= cm[e[1]] BY <3>1, <2>1
    <3> QED BY <3>2, <3>3, <2>1
  <2>4. \A v \in V : cm[cm[v]] = cm[v] BY DEF IInv, Settled, Rooted
  <2> QED BY <2>3, <2>4 DEF Edges
<1> QED BY <1>1, Inductive, PTL

------------------------------------------------------------------------------
(* Components.  Reach is the least set that edges do not lead out of, so   *)
(* that a vertex is shown to be reached, or not, by a closed set.          *)

LEMMA ReachLeast ==
  ASSUME NEW E, NEW v, NEW s \in SUBSET V, v \in s, Closed(E, s)
  PROVE  Reach(E, v) \subseteq s
BY DEF Reach

LEMMA ReachSelf == ASSUME NEW E, NEW v \in V PROVE v \in Reach(E, v)
BY DEF Reach

LEMMA ReachOn ==
  ASSUME NEW E, NEW u, NEW v \in Reach(E, u), NEW w \in Reach(E, v)
  PROVE  w \in Reach(E, u)
BY DEF Reach

LEMMA ReachEdge ==
  ASSUME NEW E, NEW v, NEW e \in E, e[1] \in Reach(E, v), e[2] \in V
  PROVE  e[2] \in Reach(E, v)
BY DEF Reach, Closed

LEMMA ReachMore ==
  ASSUME NEW E, NEW F, E \subseteq F, NEW v PROVE Reach(E, v) \subseteq Reach(F, v)
BY DEF Reach, Closed

(* Edges lie in both directions, so what is reached reaches back: the      *)
(* vertices that reach v are closed.                                       *)
LEMMA ReachBack ==
  ASSUME NEW E, E \subseteq V \X V, \A e \in E : <<e[2], e[1]>> \in E,
         NEW v \in V, NEW w \in Reach(E, v)
  PROVE  v \in Reach(E, w)
<1> DEFINE s == {x \in V : v \in Reach(E, x)}
<1>1. v \in s /\ s \in SUBSET V BY ReachSelf
<1>2. ASSUME NEW e \in E, e[1] \in s PROVE e[2] \in s
  <2>1. e[1] \in V /\ e[2] \in V BY <1>2
  <2>2. e[2] \in Reach(E, e[2]) BY <2>1, ReachSelf
  <2>3. <<e[2], e[1]>> \in E BY <1>2
  <2>4. e[1] \in Reach(E, e[2])
    <3> DEFINE f == <<e[2], e[1]>>
    <3>1. f \in E /\ f[1] = e[2] /\ f[2] = e[1] BY <2>3
    <3> HIDE DEF f
    <3> QED BY <3>1, <2>1, <2>2, ReachEdge
  <2> QED BY <2>1, <2>4, <1>2, ReachOn
<1>3. Closed(E, s) BY <1>2 DEF Closed
<1> HIDE DEF s
<1>4. w \in s BY <1>1, <1>3, ReachLeast
<1> QED BY <1>4 DEF s

(* Where the labels come from, also those a thread holds.                  *)
Connected ==
  /\ LabelsConnected
  /\ \A p \in Threads :
       th[p].pc \in {"compare", "store", "climb"} => th[p].d \in Reach(Known, th[p].i)

(* The edges of the loop in progress are known.                            *)
LEMMA KnownEdges ==
  ASSUME TypeOK, run > 0, NEW x \in Types, NEW e \in Graph[x]
  PROVE  e \in Known /\ e \in Edges /\ e[1] \in V /\ e[2] \in V
<1>1. run \in 1..Len(history) BY DEF TypeOK
<1>2. e \in V \X V BY <1>1, GraphTyped DEF Graph
<1>3. e \in Edges BY DEF Edges
<1>4. e \in Past(run)
  <2>1. run \in 1..run BY <1>1
  <2> QED BY <2>1 DEF Past, Graph
<1> QED BY <1>2, <1>3, <1>4 DEF Known

LEMMA KnownStays ==
  ASSUME UNCHANGED <<keeps, history, run>> PROVE Known' = Known /\ Edges' = Edges
BY DEF Known, Past, Edges, Graph

LEMMA InitConnected == Init => Connected
<1>1. Init => LabelsConnected BY ReachSelf DEF Init, LabelsConnected
<1>2. Init => \A p \in Threads : th[p].pc = "idle" BY DEF Init, Idle
<1> QED BY <1>1, <1>2 DEF Connected

(* A computation begins with the labels of the last, or with none.         *)
LEMMA BeginConnected == ASSUME IInv, Connected, Begin PROVE Connected'
<1>1. \A p \in Threads : th'[p].pc \notin {"compare", "store", "climb"}
  BY DEF IInv, Fits, Climbing, Begin
<1>2. LabelsConnected'
  <2>1. CASE keeps
    <3>1. run \in Nat /\ run' = run + 1 /\ keeps' /\ history' = history /\ cm' = cm
      BY <2>1 DEF Begin, IInv, TypeOK
    <3>2. Past(run) \subseteq Past(run') BY <3>1, 1..run \subseteq 1..run+1 DEF Past
    <3>3. Known = Past(run) /\ Known' = Past(run') BY <2>1, <3>1 DEF Known, Past
    <3> QED BY <3>1, <3>2, <3>3, ReachMore DEF Connected, LabelsConnected
  <2>2. CASE ~keeps
    <3>1. cm' = [v \in V |-> v] BY <2>2 DEF Begin
    <3> QED BY <3>1, ReachSelf DEF LabelsConnected
  <2> QED BY <2>1, <2>2
<1> QED BY <1>1, <1>2 DEF Connected

(* A thread loads the label of the other end of its edge.                  *)
LEMMA TakeEdgeConnected ==
  ASSUME IInv, Connected, NEW p \in Threads, TakeEdge(p) PROVE Connected'
<1>1. PICK e \in todo :
        th' = [th EXCEPT ![p] = [th[p] EXCEPT !.pc = "compare", !.i = e[1], !.j = e[2],
                                              !.d = cm[e[2]]]]
  BY DEF TakeEdge, Move, At
<1>2. cm' = cm /\ Known' = Known BY KnownStays DEF TakeEdge
<1>3. e \in Known /\ e[1] \in V /\ e[2] \in V
  <2>1. run > 0 /\ t \in Types /\ e \in Graph[t] BY DEF IInv, TypeOK, TodoOK, TakeEdge, Runs
  <2> QED BY <2>1, KnownEdges DEF IInv
<1>4. cm[e[2]] \in Reach(Known, e[1])
  <2>1. e[2] \in Reach(Known, e[1]) BY <1>3, ReachSelf, ReachEdge
  <2>2. cm[e[2]] \in Reach(Known, e[2]) BY <1>3 DEF Connected, LabelsConnected
  <2> QED BY <2>1, <2>2, ReachOn
<1>5. th'[p].i = e[1] /\ th'[p].d = cm[e[2]] BY <1>1 DEF IInv, TypeOK, Locals
<1>6. \A q \in Threads : q # p => th'[q] = th[q] BY <1>1 DEF IInv, TypeOK
<1> QED BY <1>2, <1>4, <1>5, <1>6 DEF Connected, LabelsConnected

(* A thread looks the label of its label up.                               *)
LEMMA LoadRootConnected ==
  ASSUME IInv, Connected, NEW p \in Threads, LoadRoot(p) PROVE Connected'
<1> DEFINE i == th[p].i
           label == IF cm[cm[i]] = cm[i] THEN "idle" ELSE "climb"
<1>1. th' = [th EXCEPT ![p] = [th[p] EXCEPT !.pc = label, !.d = cm[cm[i]]]]
  BY DEF LoadRoot, Move, At
<1>2. cm' = cm /\ Known' = Known BY KnownStays DEF LoadRoot
<1>3. i \in V /\ cm[i] \in V BY DEF IInv, TypeOK, Locals
<1>4. cm[cm[i]] \in Reach(Known, i)
  <2>1. cm[i] \in Reach(Known, i) /\ cm[cm[i]] \in Reach(Known, cm[i])
    BY <1>3 DEF Connected, LabelsConnected
  <2> QED BY <2>1, ReachOn
<1>5. th'[p].i = i /\ th'[p].d = cm[cm[i]] BY <1>1 DEF IInv, TypeOK, Locals
<1>6. \A q \in Threads : q # p => th'[q] = th[q] BY <1>1 DEF IInv, TypeOK
<1> QED BY <1>2, <1>4, <1>5, <1>6 DEF Connected, LabelsConnected

(* A thread stores the label it holds.                                     *)
LEMMA StoreConnected ==
  ASSUME IInv, Connected, NEW p \in Threads, Store(p) \/ Climb(p) PROVE Connected'
<1>1. PICK label \in {"idle", "load"} : th' = [th EXCEPT ![p] = [th[p] EXCEPT !.pc = label]]
  BY DEF Store, Climb, Move, At
<1>2. cm' = [cm EXCEPT ![th[p].i] = th[p].d] /\ th[p].pc \in {"store", "climb"}
  BY DEF Store, Climb, Runs
<1>3. Known' = Known BY KnownStays DEF Store, Climb
<1>4. th'[p].pc = label BY <1>1 DEF IInv, TypeOK, Locals
<1>5. \A q \in Threads : q # p => th'[q] = th[q] BY <1>1 DEF IInv, TypeOK
<1>6. \A v \in V : cm'[v] = IF v = th[p].i THEN th[p].d ELSE cm[v]
  BY <1>2 DEF IInv, TypeOK, Locals
<1>7. LabelsConnected' BY <1>2, <1>3, <1>6 DEF Connected, LabelsConnected
<1> QED BY <1>3, <1>4, <1>5, <1>7 DEF Connected

(* Every other step keeps the labels, those that threads hold included.    *)
LEMMA HoldConnected ==
  ASSUME Connected, UNCHANGED <<keeps, history, run, cm>>,
         \A p \in Threads : th'[p].pc \in {"compare", "store", "climb"} =>
           th[p].pc \in {"compare", "store", "climb"} /\ th'[p].d = th[p].d /\ th'[p].i = th[p].i
  PROVE  Connected'
BY KnownStays DEF Connected, LabelsConnected

LEMMA StepConnected == IInv /\ Connected /\ [Next]_vars => Connected'
<1> SUFFICES ASSUME IInv, Connected, [Next]_vars PROVE Connected' OBVIOUS
<1>1. CASE Team
  <2>1. CASE Begin BY <2>1, BeginConnected
  <2>2. CASE NextType \/ EndSweep \/ EndClimb \/ CountRoots \/ EndClaim \/ EndTally
    BY <2>2, HoldConnected DEF NextType, EndSweep, EndClimb, CountRoots, EndClaim, EndTally
  <2>3. CASE EndSum BY <2>3, HoldConnected DEF EndSum, Idle
  <2> QED BY <1>1, <2>1, <2>2, <2>3 DEF Team
<1>2. CASE \E p \in Threads : Worker(p)
  <2> PICK p \in Threads : Worker(p) BY <1>2
  <2>0. th \in [Threads -> Locals] BY DEF IInv, TypeOK
  <2>1. CASE TakeEdge(p) BY <2>1, TakeEdgeConnected
  <2>2. CASE LoadRoot(p) BY <2>2, LoadRootConnected
  <2>3. CASE Store(p) \/ Climb(p) BY <2>3, StoreConnected
  <2>4. CASE Compare(p)
    <3>1. UNCHANGED <<keeps, history, run, cm>> BY <2>4 DEF Compare
    <3>2. th[p].pc = "compare" /\ \E label : th' = [th EXCEPT ![p] = [th[p] EXCEPT !.pc = label]]
      BY <2>4 DEF Compare, Runs, Move, At
    <3>3. \A q \in Threads : th'[q].pc = th[q].pc \/ q = p BY <3>2, <2>0
    <3>4. \A q \in Threads : th'[q].d = th[q].d /\ th'[q].i = th[q].i BY <3>2, <2>0 DEF Locals
    <3> QED BY <3>1, <3>2, <3>3, <3>4, HoldConnected
  <2>5. CASE TakeVertex(p) \/ Claim(p) \/ List(p) \/ Tally(p) \/ Sum(p)
    <3>1. UNCHANGED <<keeps, history, run, cm>>
      BY <2>5 DEF TakeVertex, Claim, List, Tally, Sum, loop
    <3>2. PICK r : th' = [th EXCEPT ![p] = r] /\ r.pc \notin {"compare", "store", "climb"}
      <4>1. CASE TakeVertex(p)
        <5>1. PICK v \in todo : th' = [th EXCEPT ![p] = [th[p] EXCEPT !.pc = "load", !.i = v]]
          BY <4>1 DEF TakeVertex, Move, At
        <5>2. [th[p] EXCEPT !.pc = "load", !.i = v].pc = "load" BY <2>0 DEF Locals
        <5> QED BY <5>1, <5>2
      <4>2. CASE Claim(p)
        <5>1. PICK v \in todo : th' = [th EXCEPT ![p] = IF mark[cm[v]] = -1
                                       THEN [th[p] EXCEPT !.pc = "list", !.i = cm[v]] ELSE th[p]]
          BY <4>2 DEF Claim, Move, At
        <5>2. th[p].pc = "idle" /\ [th[p] EXCEPT !.pc = "list", !.i = cm[v]].pc = "list"
          BY <4>2, <2>0 DEF Claim, Runs, Locals
        <5> QED BY <5>1, <5>2
      <4>3. CASE List(p)
        <5>1. th' = [th EXCEPT ![p] = [th[p] EXCEPT !.pc = "idle"]] BY <4>3 DEF List, Move, At
        <5>2. [th[p] EXCEPT !.pc = "idle"].pc = "idle" BY <2>0 DEF Locals
        <5> QED BY <5>1, <5>2
      <4>4. CASE Tally(p)
        <5>1. PICK n, m : th' = [th EXCEPT ![p] = [th[p] EXCEPT !.nn = n, !.mx = m]]
          BY <4>4 DEF Tally, Move
        <5>2. [th[p] EXCEPT !.nn = n, !.mx = m].pc = "idle" BY <4>4, <2>0 DEF Tally, Runs, Locals
        <5> QED BY <5>1, <5>2
      <4>5. CASE Sum(p)
        <5>1. th' = [th EXCEPT ![p] = [th[p] EXCEPT !.pc = "summed"]] BY <4>5 DEF Sum, Move, At
        <5>2. [th[p] EXCEPT !.pc = "summed"].pc = "summed" BY <2>0 DEF Locals
        <5> QED BY <5>1, <5>2
      <4> QED BY <2>5, <4>1, <4>2, <4>3, <4>4, <4>5
    <3>3. th'[p] = r /\ \A q \in Threads : q # p => th'[q] = th[q] BY <3>2, <2>0
    <3> QED BY <3>1, <3>2, <3>3, HoldConnected
  <2> QED BY <2>1, <2>2, <2>3, <2>4, <2>5 DEF Worker
<1>3. CASE UNCHANGED vars BY <1>3, HoldConnected DEF vars
<1> QED BY <1>1, <1>2, <1>3 DEF Next, Over

(* A label is a vertex of the same component, of this graph or, where      *)
(* labels are kept, of the graphs so far taken together.                   *)
THEOREM NeverAnothers == Spec => []LabelsConnected
<1>1. Connected => LabelsConnected BY DEF Connected
<1> QED BY <1>1, InitConnected, Inductive, StepConnected, PTL DEF Spec

(* While a history grows the graph at hand has all edges so far; and what  *)
(* each version counts, and when.                                          *)
Grown == keeps /\ Growing /\ run > 0 => Past(run) \subseteq Edges
Numbered ==
  /\ Grown
  /\ pc \in {"claim", "tally", "sum"} => keeps
  /\ pc = "count" => ~keeps
  /\ pc = "done" /\ run > 0 /\ ~keeps =>
       found.n = Cardinality({v \in V : cm[v] = v /\ vtype[v] # 0})

LEMMA StepNumbered == IInv /\ Numbered /\ [Next]_vars => Numbered'
<1> SUFFICES ASSUME IInv, Numbered, [Next]_vars PROVE Numbered' OBVIOUS
<1>1. CASE Begin
  <2>1. run \in Nat /\ run' = run + 1 /\ keeps' = keeps /\ history' = history /\ pc' = "sweep"
    BY <1>1 DEF Begin, IInv, TypeOK
  <2>2. ASSUME keeps, Growing', NEW r \in 1..run+1, NEW x \in Types, NEW e \in history[r][x]
        PROVE  e \in Edges'
    <3>1. CASE r = run + 1 BY <3>1, <2>1, <2>2 DEF Edges, Graph
    <3>2. CASE r \in 1..run
      <4>1. run > 0 /\ Growing BY <2>1, <2>2, <3>2 DEF Growing
      <4>2. e \in Edges BY <4>1, <2>2, <3>2 DEF Numbered, Grown, Past
      <4>3. PICK y \in Types : e \in history[run][y] BY <4>2 DEF Edges, Graph
      <4>4. history[run][y] \subseteq history[run + 1][y]
        <5>1. run \in 1..run' - 1 BY <2>1, <4>1
        <5> QED BY <5>1, <2>1, <2>2 DEF Growing
      <4> QED BY <4>3, <4>4, <2>1 DEF Edges, Graph
    <3> QED BY <2>1, <2>2, <3>1, <3>2
  <2>3. Grown' BY <2>1, <2>2 DEF Grown, Past
  <2> QED BY <2>1, <2>3 DEF Numbered
<1>2. CASE UNCHANGED <<keeps, history, run>>
  <2>1. Grown' BY <1>2 DEF Numbered, Grown, Growing, Past, Edges, Graph
  <2>2. CASE EndSweep BY <2>1, <2>2, <1>2 DEF EndSweep, Numbered
  <2>3. CASE CountRoots
    <3>1. /\ found' = [found EXCEPT !.n = Cardinality({v \in V : cm[v] = v /\ vtype[v] # 0})]
          /\ pc' = "done" /\ cm' = cm
      BY <2>3 DEF CountRoots
    <3>2. found'.n = Cardinality({v \in V : cm'[v] = v /\ vtype[v] # 0}) BY <3>1 DEF IInv, TypeOK
    <3> QED BY <2>1, <3>1, <3>2 DEF Numbered
  <2>4. CASE EndClaim \/ EndTally \/ EndSum
    BY <2>1, <2>4, <1>2 DEF EndClaim, EndTally, EndSum, Barrier, Numbered
  <2>5. CASE NextType \/ EndClimb BY <2>1, <2>5 DEF NextType, EndClimb, Barrier, Numbered
  <2>6. CASE \E p \in Threads : Worker(p)
    <3>1. pc' = pc /\ pc # "done"
      BY <2>6 DEF Worker, TakeEdge, Compare, Store, TakeVertex, LoadRoot, Climb, Claim, List,
                  Tally, Sum, Runs, loop
    <3> QED BY <2>1, <3>1, <1>2 DEF Numbered
  <2>7. CASE UNCHANGED vars
    <3>1. UNCHANGED <<pc, found, cm>> BY <2>7 DEF vars, loop, count
    <3> QED BY <2>1, <3>1, <1>2 DEF Numbered
  <2>8. CASE Begin BY <2>8, <1>1
  <2> QED BY <2>2, <2>3, <2>4, <2>5, <2>6, <2>7, <2>8 DEF Next, Team, Over
<1>3. CASE ~Begin
  <2>1. CASE UNCHANGED vars BY <2>1, <1>2 DEF vars
  <2>2. CASE Team
    BY <2>2, <1>3, <1>2 DEF Team, NextType, EndSweep, EndClimb, CountRoots, EndClaim, EndTally,
                            EndSum
  <2>3. CASE \E p \in Threads : Worker(p)
    BY <2>3, <1>2 DEF Worker, TakeEdge, Compare, Store, TakeVertex, LoadRoot, Climb, Claim, List,
                      Tally, Sum
  <2> QED BY <2>1, <2>2, <2>3 DEF Next, Over
<1> QED BY <1>1, <1>3

(* The least of a set of vertices.                                         *)
LEMMA LeastIs ==
  ASSUME NEW s \in SUBSET V, NEW x \in s, \A y \in s : x <= y PROVE Least(s) = x
<1>1. Least(s) \in s /\ \A y \in s : Least(s) <= y BY DEF Least
<1>2. V \subseteq Int BY Sizes DEF V
<1>3. x \in Int /\ Least(s) \in Int BY <1>1, <1>2
<1> QED BY <1>1, <1>3

(* The labels at the end are those of the components: a label came along   *)
(* edges, and along an edge all labels agree.                              *)
LEMMA LabelsAreLeast ==
  ASSUME IInv, EndsAgree, Connected, Numbered, pc = "done", run > 0, keeps => Growing,
         NEW v \in V
  PROVE  /\ cm[v] \in V /\ cm[v] \in Reach(Edges, v) /\ cm[v] = Least(Reach(Edges, v))
         /\ \A w \in Reach(Edges, v) : cm[w] = cm[v]
<1> DEFINE s == {w \in V : cm[w] = cm[v]}
<1>1. cm[v] \in Reach(Edges, v)
  <2>1. Known \subseteq Edges BY DEF Known, Numbered, Grown
  <2> QED BY <2>1, ReachMore DEF Connected, LabelsConnected
<1>2. Reach(Edges, v) \subseteq s
  <2>1. s \in SUBSET V /\ v \in s OBVIOUS
  <2>2. \A e \in Edges : e[1] \in V /\ e[2] \in V BY KnownEdges DEF IInv, Edges
  <2>3. \A e \in Edges : cm[e[1]] = cm[e[2]] BY DEF EndsAgree
  <2>4. Closed(Edges, s) BY <2>2, <2>3 DEF Closed
  <2> HIDE DEF s
  <2> QED BY <2>1, <2>4, ReachLeast
<1>3. \A w \in Reach(Edges, v) : cm[w] = cm[v] /\ cm[v] <= w
  BY <1>2 DEF IInv, LabelsDescend
<1>4. Reach(Edges, v) \subseteq V BY DEF Reach
<1>5. cm[v] = Least(Reach(Edges, v)) BY <1>1, <1>3, <1>4, LeastIs
<1>6. cm[v] \in V BY DEF IInv, TypeOK
<1> QED BY <1>1, <1>3, <1>5, <1>6

(* A component has one label that is its own, that of its least vertex.    *)
LEMMA RootsAreComponents ==
  ASSUME IInv, EndsAgree, Connected, Numbered, pc = "done", run > 0, keeps => Growing
  PROVE  Cardinality({v \in V : cm[v] = v /\ vtype[v] # 0})
           = Cardinality({c \in {Reach(Edges, v) : v \in V} : vtype[Least(c)] # 0})
<1> DEFINE roots == {v \in V : cm[v] = v /\ vtype[v] # 0}
           parts == {c \in {Reach(Edges, v) : v \in V} : vtype[Least(c)] # 0}
           part == [v \in roots |-> Reach(Edges, v)]
<1>1. part \in [roots -> parts]
  <2>1. \A v \in roots : vtype[Least(Reach(Edges, v))] # 0 BY LabelsAreLeast
  <2> QED BY <2>1
<1>2. ASSUME NEW v \in roots, NEW w \in roots, part[v] = part[w] PROVE v = w
  <2>1. v = Least(Reach(Edges, v)) /\ w = Least(Reach(Edges, w)) BY LabelsAreLeast
  <2> QED BY <1>2, <2>1
<1>3. ASSUME NEW c \in parts PROVE \E v \in roots : part[v] = c
  <2>1. PICK w \in V : c = Reach(Edges, w) OBVIOUS
  <2>2. cm[w] \in V /\ cm[w] \in Reach(Edges, w) BY LabelsAreLeast
  <2>3. w \in Reach(Edges, cm[w])
    <3>1. run \in 1..Len(history) BY DEF IInv, TypeOK
    <3>2. \A x \in Types : Graph[x] \subseteq V \X V
                          /\ \A e \in Graph[x] : <<e[2], e[1]>> \in Graph[x]
      BY <3>1, GraphTyped DEF IInv, Graph
    <3>3. Edges \subseteq V \X V /\ \A e \in Edges : <<e[2], e[1]>> \in Edges BY <3>2 DEF Edges
    <3> QED BY <2>2, <3>3, ReachBack
  <2>4. Reach(Edges, cm[w]) = Reach(Edges, w) BY <2>2, <2>3, ReachOn
  <2>5. cm[w] \in roots
    <3>1. vtype[cm[w]] # 0 BY <2>1, LabelsAreLeast
    <3> QED BY <2>2, <2>3, <3>1, LabelsAreLeast
  <2> QED BY <2>1, <2>4, <2>5
<1>4. part \in Bijection(roots, parts)
  <2> HIDE DEF roots, parts, part
  <2> QED BY <1>1, <1>2, <1>3 DEF Bijection, Injection, IsInjective, Surjection
<1>5. IsFiniteSet(roots)
  <2>1. IsFiniteSet(V) BY FS_Interval, Sizes DEF V
  <2> QED BY <2>1, FS_Subset
<1> QED BY <1>4, <1>5, FS_Bijection DEF ExistsBijection

(* Threads that never synchronise find the components of every graph, and  *)
(* of a history of graphs that only grows also when labels are kept: each  *)
(* vertex ends with the least of its component, and the static version     *)
(* reports how many components have a least vertex with a type.            *)
THEOREM ComponentsFound == Spec => []Components
<1>1. Init => Numbered BY DEF Init, Numbered, Grown
<1>2. IInv /\ EndsAgree /\ Connected /\ Numbered => Components
  BY LabelsAreLeast, RootsAreComponents DEF Components, Numbered
<1> QED BY <1>1, <1>2, InitConnected, Inductive, Agreement, StepConnected, StepNumbered, PTL
        DEF Spec

------------------------------------------------------------------------------
(* Sizes.  A mark counts the vertices of its label that were claimed; the  *)
(* claimer who finds it unused lists the label, and only he.  Whoever      *)
(* tallies a place of the list adds its size to his own sums: f says who.  *)

InList(c)   == \E k \in DOMAIN vlist : vlist[k] = c
Lists(p, c) == th[p].pc = "list" /\ th[p].i = c
Claimed(c)  == Class(c) \ todo

Marks ==
  /\ pc = "claim" => \A c \in V : mark[c] = Cardinality(Claimed(c)) - 1
  /\ pc = "tally" =>
       \A c \in V : mark[c] = IF \E k \in todo : vlist[k] = c THEN Cardinality(Class(c)) - 1 ELSE -1
  /\ pc \notin {"claim", "tally"} => \A c \in V : mark[c] = -1

ListOnce == \A k, l \in DOMAIN vlist : vlist[k] = vlist[l] => k = l
Claiming ==
  /\ \A p \in Threads : \A c \in V : Lists(p, c) =>
       /\ Claimed(c) # {} /\ ~InList(c)
       /\ \A q \in Threads : Lists(q, c) => q = p
  /\ \A c \in V : Claimed(c) # {} => InList(c) \/ \E p \in Threads : Lists(p, c)
  /\ \A c \in V : InList(c) => Claimed(c) # {}

Listing ==
  /\ pc = "claim" => Claiming
  /\ pc \in {"tally", "sum"} => \A c \in V : c \in Names <=> InList(c)
  /\ pc \in {"claim", "tally", "sum"} => ListOnce
  /\ pc = "sum" => todo = {}

Fresh ==
  /\ pc \notin {"tally", "sum"} => \A p \in Threads : th[p].nn = 0 /\ th[p].mx = -1
  /\ pc \in {"claim", "tally"} => sizes = [nnsc |-> 0, mxcsz |-> 0]

(* n of the places S have more than one vertex, and m is the greatest of   *)
(* their sizes; none if there is none.                                     *)
Size(k) == Cardinality(Class(vlist[k]))
Adds(S, n, m, none) ==
  /\ n = Cardinality({k \in S : Size(k) > 1})
  /\ \A k \in S : Size(k) <= m
  /\ m = none \/ \E k \in S : Size(k) = m

Own(f, p) == {k \in DOMAIN f : f[k] = p}
Summed(f) == {k \in DOMAIN f : th[f[k]].pc = "summed"}
Shares(f) ==
  /\ \A p \in Threads : Adds(Own(f, p), th[p].nn, th[p].mx, -1)
  /\ Adds(Summed(f), sizes.nnsc, sizes.mxcsz, 0)
Tallied == pc \in {"tally", "sum"} => \E f \in [DOMAIN vlist \ todo -> Threads] : Shares(f)

Counting == Marks /\ Listing /\ Fresh /\ Tallied /\ SizesCounted

LEMMA FiniteV == ASSUME NEW S \in SUBSET V PROVE IsFiniteSet(S)
<1>1. IsFiniteSet(V) BY FS_Interval, Sizes DEF V
<1> QED BY <1>1, FS_Subset

LEMMA ListTyped ==
  ASSUME TypeOK
  PROVE  /\ Len(vlist) \in Nat /\ DOMAIN vlist = 1..Len(vlist)
         /\ \A k \in DOMAIN vlist : vlist[k] \in V
         /\ \A S \in SUBSET DOMAIN vlist : IsFiniteSet(S)
<1>1. vlist \in Seq(V) BY DEF TypeOK
<1>2. Len(vlist) \in Nat /\ DOMAIN vlist = 1..Len(vlist) /\ \A k \in DOMAIN vlist : vlist[k] \in V
  BY <1>1
<1>3. IsFiniteSet(DOMAIN vlist) BY <1>2, FS_Interval
<1> QED BY <1>2, <1>3, FS_Subset

LEMMA SizeTyped == ASSUME NEW c PROVE Cardinality(Class(c)) \in Nat
BY CountTyped DEF Class

(* One more place, and the places of two sums together.                    *)
LEMMA AddsOne ==
  ASSUME NEW S, IsFiniteSet(S), NEW n \in Nat, NEW m \in Nat \cup {-1}, Adds(S, n, m, -1),
         NEW k, k \notin S
  PROVE  Adds(S \cup {k}, IF Size(k) > 1 THEN n + 1 ELSE n, IF Size(k) > m THEN Size(k) ELSE m, -1)
<1> DEFINE big(X) == {j \in X : Size(j) > 1}
<1>0. \A j : Size(j) \in Nat BY SizeTyped DEF Size
<1>1. IsFiniteSet(big(S)) /\ n = Cardinality(big(S)) BY FS_Subset DEF Adds
<1>2. CASE Size(k) > 1
  <2>1. big(S \cup {k}) = big(S) \cup {k} /\ k \notin big(S) BY <1>2
  <2> HIDE DEF big
  <2>2. Cardinality(big(S \cup {k})) = n + 1 BY <2>1, <1>1, FS_AddElement
  <2> QED BY <2>2, <1>0, <1>2 DEF Adds, big
<1>3. CASE ~(Size(k) > 1)
  <2>1. big(S \cup {k}) = big(S) BY <1>3
  <2> QED BY <2>1, <1>0, <1>1, <1>3 DEF Adds
<1> QED BY <1>2, <1>3

LEMMA AddsBoth ==
  ASSUME NEW S, NEW R, IsFiniteSet(S), IsFiniteSet(R), S \cap R = {},
         NEW n \in Nat, NEW m \in Nat, Adds(S, n, m, 0),
         NEW a \in Nat, NEW b \in Nat \cup {-1}, Adds(R, a, b, -1)
  PROVE  Adds(S \cup R, n + a, IF b > m THEN b ELSE m, 0)
<1> DEFINE big(X) == {j \in X : Size(j) > 1}
<1>0. \A j : Size(j) \in Nat BY SizeTyped DEF Size
<1>1. /\ IsFiniteSet(big(S)) /\ IsFiniteSet(big(R)) /\ n = Cardinality(big(S))
      /\ a = Cardinality(big(R))
  BY FS_Subset DEF Adds
<1>2. big(S \cup R) = big(S) \cup big(R) /\ big(S) \cap big(R) = {} OBVIOUS
<1>3. Cardinality(big(S \cup R)) = n + a
  <2> HIDE DEF big
  <2>1. Cardinality(big(S) \cup big(R)) =
          Cardinality(big(S)) + Cardinality(big(R)) - Cardinality(big(S) \cap big(R))
    BY <1>1, FS_Union
  <2>2. Cardinality(big(S) \cap big(R)) = 0 BY <1>2, FS_EmptySet
  <2>3. Cardinality(big(S \cup R)) = Cardinality(big(S) \cup big(R)) BY <1>2
  <2>4. Cardinality(big(S)) = n /\ Cardinality(big(R)) = a BY <1>1
  <2> QED BY <2>1, <2>2, <2>3, <2>4
<1> DEFINE top == IF b > m THEN b ELSE m
<1>4. \A k \in S \cup R : Size(k) <= top
  <2>1. /\ \A k \in S : Size(k) <= m
        /\ \A k \in R : Size(k) <= b
    BY DEF Adds
  <2> QED BY <2>1, <1>0
<1>5. top = 0 \/ \E k \in S \cup R : Size(k) = top
  <2>1. m = 0 \/ \E k \in S : Size(k) = m BY DEF Adds
  <2>2. b = -1 \/ \E k \in R : Size(k) = b BY DEF Adds
  <2>3. CASE b > m BY <2>2, <2>3
  <2>4. CASE ~(b > m) BY <2>1, <2>4
  <2> QED BY <2>3, <2>4
<1> HIDE DEF top
<1>6. Adds(S \cup R, n + a, top, 0) BY <1>3, <1>4, <1>5 DEF Adds
<1> QED BY <1>6 DEF top

(* As long as the labels are not all there nothing is counted.             *)
LEMMA QuietCounting ==
  ASSUME Counting, pc \notin {"claim", "tally", "sum"}, pc' \in {"sweep", "climb", "count", "done"},
         pc' = "done" => SizesCounted', mark' = mark,
         \A p \in Threads : th'[p].nn = th[p].nn /\ th'[p].mx = th[p].mx
  PROVE  Counting'
<1>1. Marks' /\ Listing' /\ Tallied' BY DEF Counting, Marks, Listing, Tallied
<1>2. Fresh' BY DEF Counting, Fresh
<1>3. SizesCounted' BY DEF SizesCounted
<1> QED BY <1>1, <1>2, <1>3 DEF Counting

LEMMA SweepCounting ==
  ASSUME IInv, Counting, NEW p \in Threads,
         TakeEdge(p) \/ Compare(p) \/ Store(p) \/ TakeVertex(p) \/ LoadRoot(p) \/ Climb(p)
  PROVE  Counting'
<1>0. th \in [Threads -> Locals] BY DEF IInv, TypeOK
<1>1. pc \in {"sweep", "climb"} /\ pc' = pc /\ mark' = mark
  BY DEF TakeEdge, Compare, Store, TakeVertex, LoadRoot, Climb, Runs, loop, count
<1>2. PICK r : th' = [th EXCEPT ![p] = r] /\ r.nn = th[p].nn /\ r.mx = th[p].mx
  <2>1. CASE TakeEdge(p)
    <3>1. PICK i, j, d :
            th' = [th EXCEPT ![p] = [th[p] EXCEPT !.pc = "compare", !.i = i, !.j = j, !.d = d]]
      BY <2>1 DEF TakeEdge, Move, At
    <3> DEFINE r == [th[p] EXCEPT !.pc = "compare", !.i = i, !.j = j, !.d = d]
    <3>2. r.nn = th[p].nn /\ r.mx = th[p].mx BY <1>0 DEF Locals
    <3> QED BY <3>1, <3>2
  <2>2. CASE Compare(p) \/ Store(p) \/ Climb(p)
    <3>1. PICK a : th' = [th EXCEPT ![p] = [th[p] EXCEPT !.pc = a]]
      BY <2>2 DEF Compare, Store, Climb, Move, At
    <3> DEFINE r == [th[p] EXCEPT !.pc = a]
    <3>2. r.nn = th[p].nn /\ r.mx = th[p].mx BY <1>0 DEF Locals
    <3> QED BY <3>1, <3>2
  <2>3. CASE TakeVertex(p)
    <3>1. PICK v : th' = [th EXCEPT ![p] = [th[p] EXCEPT !.pc = "load", !.i = v]]
      BY <2>3 DEF TakeVertex, Move, At
    <3> DEFINE r == [th[p] EXCEPT !.pc = "load", !.i = v]
    <3>2. r.nn = th[p].nn /\ r.mx = th[p].mx BY <1>0 DEF Locals
    <3> QED BY <3>1, <3>2
  <2>4. CASE LoadRoot(p)
    <3>1. PICK a, d : th' = [th EXCEPT ![p] = [th[p] EXCEPT !.pc = a, !.d = d]]
      BY <2>4 DEF LoadRoot, Move, At
    <3> DEFINE r == [th[p] EXCEPT !.pc = a, !.d = d]
    <3>2. r.nn = th[p].nn /\ r.mx = th[p].mx BY <1>0 DEF Locals
    <3> QED BY <3>1, <3>2
  <2> QED BY <2>1, <2>2, <2>3, <2>4
<1>3. \A q \in Threads : th'[q].nn = th[q].nn /\ th'[q].mx = th[q].mx
  <2>1. th'[p] = r /\ \A q \in Threads : q # p => th'[q] = th[q] BY <1>2, <1>0
  <2> QED BY <2>1, <1>2
<1> QED BY <1>1, <1>3, QuietCounting

(* A computation that keeps its labels goes on to count.                   *)
LEMMA EndSweepCounting == ASSUME IInv, Counting, EndSweep PROVE Counting'
<1>1. pc = "sweep" /\ th' = th /\ cm' = cm BY DEF EndSweep, Barrier
<1>2. CASE pc' # "claim"
  <2>1. pc' \in {"climb", "count"} /\ mark' = mark BY <1>2 DEF EndSweep, count
  <2> QED BY <1>1, <2>1, QuietCounting
<1>3. CASE pc' = "claim"
  <2>1. /\ sizes' = [nnsc |-> 0, mxcsz |-> 0] /\ vlist' = <<>> /\ mark' = mark /\ todo' = V
        /\ \A p \in Threads : th'[p].pc = "idle"
    BY <1>3 DEF EndSweep, Barrier
  <2>2. \A c : Claimed(c)' = {} BY <2>1 DEF Claimed, Class
  <2>3. Marks'
    <3>1. \A c \in V : mark[c] = -1 BY <1>1 DEF Counting, Marks
    <3>2. \A c \in V : Cardinality(Claimed(c)') = 0 BY <2>2, FS_EmptySet
    <3> QED BY <1>3, <2>1, <3>1, <3>2 DEF Marks
  <2>4. Listing' BY <1>3, <2>1, <2>2 DEF Listing, Claiming, ListOnce, Lists, InList
  <2>5. Fresh' BY <1>1, <1>3, <2>1 DEF Counting, Fresh
  <2> QED BY <1>3, <2>3, <2>4, <2>5 DEF Counting, Tallied, SizesCounted
<1> QED BY <1>2, <1>3

(* A thread claims a vertex; if it is the first of its label, it has the   *)
(* label to list.                                                          *)
LEMMA ClaimCounting == ASSUME IInv, Counting, NEW p \in Threads, Claim(p) PROVE Counting'
<1>0. /\ th \in [Threads -> Locals] /\ cm \in [V -> V] /\ mark \in [V -> Nat \cup {-1}]
      /\ pc = "claim" /\ th[p].pc = "idle" /\ todo \subseteq V
  BY DEF IInv, TypeOK, TodoOK, Claim, Runs
<1>1. PICK v \in todo :
        /\ todo' = todo \ {v} /\ mark' = [mark EXCEPT ![cm[v]] = @ + 1]
        /\ th' = [th EXCEPT ![p] = IF mark[cm[v]] = -1
                                   THEN [th[p] EXCEPT !.pc = "list", !.i = cm[v]] ELSE th[p]]
  BY DEF Claim, Move, At
<1> DEFINE c0 == cm[v]
<1>2. /\ pc' = pc /\ cm' = cm /\ vlist' = vlist /\ sizes' = sizes /\ c0 \in V /\ v \in V
  BY <1>0 DEF Claim
<1>3. /\ \A c \in V : Claimed(c)' = IF c = c0 THEN Claimed(c0) \cup {v} ELSE Claimed(c)
      /\ v \notin Claimed(c0)
  BY <1>1, <1>2 DEF Claimed, Class
<1>4. \A c \in V : mark[c] = Cardinality(Claimed(c)) - 1 /\ IsFiniteSet(Claimed(c))
  BY <1>0, FiniteV DEF Counting, Marks, Claimed, Class
<1>5. Cardinality(Claimed(c0)) \in Nat /\ (mark[c0] = -1 <=> Claimed(c0) = {})
  <2>1. Cardinality(Claimed(c0)) \in Nat BY <1>4, <1>2, FS_CardinalityType
  <2>2. Cardinality(Claimed(c0)) = 0 <=> Claimed(c0) = {} BY <1>4, <1>2, FS_EmptySet
  <2> HIDE DEF c0
  <2> QED BY <2>1, <2>2, <1>4, <1>2
<1>6. Marks'
  <2>1. Cardinality(Claimed(c0) \cup {v}) = Cardinality(Claimed(c0)) + 1
    BY <1>2, <1>3, <1>4, FS_AddElement
  <2>2. \A c \in V : mark'[c] = IF c = c0 THEN mark[c0] + 1 ELSE mark[c] BY <1>0, <1>1, <1>2
  <2>3. \A c \in V : mark'[c] = Cardinality(Claimed(c)') - 1
    <3> HIDE DEF c0
    <3>1. TAKE c \in V
    <3>2. CASE c = c0 BY <3>2, <2>1, <2>2, <1>2, <1>3, <1>4, <1>5
    <3>3. CASE c # c0 BY <3>3, <2>2, <1>3, <1>4
    <3> QED BY <3>2, <3>3
  <2> QED BY <2>3, <1>0, <1>2 DEF Marks
<1>7. \A q \in Threads : q # p => th'[q] = th[q] BY <1>0, <1>1
<1>8. /\ th'[p].nn = th[p].nn /\ th'[p].mx = th[p].mx
      /\ th'[p].pc = "list" /\ th'[p].i = c0 <=> mark[c0] = -1
      /\ th'[p].pc # "list" <=> mark[c0] # -1
  <2>1. th[p] \in Locals BY <1>0
  <2>2. th'[p] = IF mark[c0] = -1 THEN [th[p] EXCEPT !.pc = "list", !.i = c0] ELSE th[p]
    BY <1>0, <1>1
  <2> HIDE DEF c0
  <2> QED BY <2>1, <2>2, <1>0 DEF Lists, Locals
<1>9. Listing'
  <2>1. Claiming /\ ListOnce BY <1>0 DEF Counting, Listing
  <2>2. \A c : InList(c)' <=> InList(c) BY <1>2 DEF InList
  <2>3. \A q \in Threads : \A c \in V :
          Lists(q, c)' <=> IF q = p THEN mark[c0] = -1 /\ c = c0 ELSE Lists(q, c)
    <3> HIDE DEF c0
    <3> QED BY <1>7, <1>8 DEF Lists
  <2>4. \A c : ~Lists(p, c) BY <1>0 DEF Lists
  <2>5. ASSUME mark[c0] = -1 PROVE ~InList(c0) /\ \A q \in Threads : ~Lists(q, c0)
    <3> HIDE DEF c0
    <3> QED BY <2>1, <2>5, <1>2, <1>5 DEF Claiming
  <2> HIDE DEF c0
  <2>6. \A c \in V : (Claimed(c) # {} \/ c = c0) => Claimed(c)' # {} BY <1>3
  <2>7. \A q \in Threads : \A c \in V : Lists(q, c)' =>
          /\ Claimed(c)' # {} /\ ~InList(c)'
          /\ \A r \in Threads : Lists(r, c)' => r = q
    BY <2>1, <2>2, <2>3, <2>5, <2>6 DEF Claiming
  <2>8. \A c \in V : Claimed(c)' # {} => InList(c)' \/ \E q \in Threads : Lists(q, c)'
    <3>1. TAKE c \in V
    <3>2. CASE c = c0 /\ mark[c0] = -1 BY <3>2, <2>3
    <3>3. CASE ~(c = c0 /\ mark[c0] = -1)
      <4>1. Claimed(c)' # {} => Claimed(c) # {} BY <3>3, <1>3, <1>5
      <4> QED BY <4>1, <2>1, <2>2, <2>3, <2>4 DEF Claiming
    <3> QED BY <3>2, <3>3
  <2>9. \A c \in V : InList(c)' => Claimed(c)' # {} BY <2>1, <2>2, <2>6 DEF Claiming
  <2>10. Claiming' BY <2>7, <2>8, <2>9 DEF Claiming
  <2> QED BY <2>1, <2>10, <1>0, <1>2 DEF Listing, ListOnce
<1>10. Fresh' BY <1>0, <1>2, <1>7, <1>8 DEF Counting, Fresh
<1> QED BY <1>0, <1>2, <1>6, <1>9, <1>10 DEF Counting, Tallied, SizesCounted

(* It lists it.                                                            *)
LEMMA ListCounting == ASSUME IInv, Counting, NEW p \in Threads, List(p) PROVE Counting'
<1> DEFINE c0 == th[p].i
           n == Len(vlist) + 1
<1>0. /\ th \in [Threads -> Locals] /\ c0 \in V /\ vlist \in Seq(V)
      /\ pc = "claim" /\ th[p].pc = "list" /\ vlist' = Append(vlist, c0)
      /\ th' = [th EXCEPT ![p] = [th[p] EXCEPT !.pc = "idle"]]
  BY DEF IInv, TypeOK, Locals, List, Runs, Move, At
<1>1. UNCHANGED <<pc, cm, todo, mark, sizes>> BY DEF List, loop
<1>2. \A c : Claimed(c)' = Claimed(c) BY <1>1 DEF Claimed, Class
<1>3. Marks' BY <1>0, <1>1, <1>2 DEF Counting, Marks
<1>4. \A q \in Threads : q # p => th'[q] = th[q] BY <1>0
<1>5. th'[p].pc = "idle" /\ th'[p].nn = th[p].nn /\ th'[p].mx = th[p].mx
  <2>1. th[p] \in Locals /\ th'[p] = [th[p] EXCEPT !.pc = "idle"] BY <1>0
  <2> QED BY <2>1 DEF Locals
<1>6. /\ DOMAIN vlist' = DOMAIN vlist \cup {n} /\ n \notin DOMAIN vlist /\ vlist'[n] = c0
      /\ \A k \in DOMAIN vlist : vlist'[k] = vlist[k]
  BY <1>0
<1>7. Listing'
  <2>1. Claiming /\ ListOnce BY <1>0 DEF Counting, Listing
  <2>2. Lists(p, c0) BY <1>0 DEF Lists
  <2>3. Claimed(c0) # {} /\ ~InList(c0) /\ \A q \in Threads : Lists(q, c0) => q = p
    BY <2>1, <2>2, <1>0 DEF Claiming
  <2> HIDE DEF c0, n
  <2>4. \A c : InList(c)' <=> InList(c) \/ c = c0 BY <1>6 DEF InList
  <2>5. \A q \in Threads : q # p => \A c : Lists(q, c)' <=> Lists(q, c) BY <1>4 DEF Lists
  <2>6. \A c : ~Lists(p, c)' BY <1>5 DEF Lists
  <2>7. \A q \in Threads : \A c \in V : Lists(q, c)' =>
          /\ Claimed(c)' # {} /\ ~InList(c)'
          /\ \A r \in Threads : Lists(r, c)' => r = q
    BY <2>1, <2>3, <2>4, <2>5, <2>6, <1>2 DEF Claiming
  <2>8. \A c \in V : Claimed(c)' # {} => InList(c)' \/ \E q \in Threads : Lists(q, c)'
    <3>1. ASSUME NEW c \in V, Claimed(c)' # {}, c # c0
          PROVE  InList(c)' \/ \E q \in Threads : Lists(q, c)'
      <4>1. InList(c) \/ \E q \in Threads : Lists(q, c) BY <3>1, <2>1, <1>2 DEF Claiming
      <4>2. ~Lists(p, c) BY <3>1, <2>2 DEF Lists
      <4> QED BY <4>1, <4>2, <2>4, <2>5
    <3> QED BY <3>1, <2>4
  <2>9. \A c \in V : InList(c)' => Claimed(c)' # {}
    <3>1. \A c \in V : InList(c) \/ c = c0 => Claimed(c) # {} BY <2>1, <2>3 DEF Claiming
    <3> QED BY <3>1, <2>4, <1>2
  <2>10. Claiming' BY <2>7, <2>8, <2>9 DEF Claiming
  <2>11. ListOnce' BY <2>1, <2>3, <1>6 DEF ListOnce, InList
  <2> QED BY <2>10, <2>11, <1>0, <1>1 DEF Listing
<1>8. Fresh' BY <1>0, <1>1, <1>4, <1>5 DEF Counting, Fresh
<1> QED BY <1>0, <1>1, <1>3, <1>7, <1>8 DEF Counting, Tallied, SizesCounted

(* All vertices are claimed, and so all labels listed.                     *)
LEMMA EndClaimCounting == ASSUME IInv, Counting, EndClaim PROVE Counting'
<1>1. /\ pc = "claim" /\ pc' = "tally" /\ todo = {} /\ todo' = DOMAIN vlist
      /\ UNCHANGED <<cm, th, mark, vlist, sizes>> /\ \A p \in Threads : th[p].pc = "idle"
  BY DEF EndClaim, Barrier, count
<1>2. Claiming /\ ListOnce BY <1>1 DEF Counting, Listing
<1>3. \A c : Claimed(c) = Class(c) BY <1>1 DEF Claimed
<1>4. \A c \in V : Class(c) # {} <=> InList(c) BY <1>1, <1>2, <1>3 DEF Claiming, Lists
<1>5. Marks'
  <2>1. \A c \in V : mark[c] = Cardinality(Class(c)) - 1 BY <1>1, <1>3 DEF Counting, Marks
  <2>2. \A c \in V : Class(c) = {} => Cardinality(Class(c)) = 0 BY FS_EmptySet
  <2>3. \A c \in V :
          mark[c] = IF \E k \in DOMAIN vlist : vlist[k] = c THEN Cardinality(Class(c)) - 1 ELSE -1
    BY <2>1, <2>2, <1>4 DEF InList
  <2> QED BY <2>3, <1>1 DEF Marks, Class
<1>6. Listing'
  <2>1. \A c \in V : c \in Names <=> Class(c) # {} BY DEF Names, Class
  <2>2. \A c \in V : c \in Names' <=> InList(c)' BY <2>1, <1>1, <1>4 DEF Names, InList
  <2>3. ListOnce' BY <1>1, <1>2 DEF ListOnce
  <2> QED BY <2>2, <2>3, <1>1 DEF Listing
<1>7. Fresh' BY <1>1 DEF Counting, Fresh
<1>8. Tallied'
  <2> DEFINE f == [k \in {} |-> CHOOSE p \in Threads : TRUE]
  <2>1. f \in [DOMAIN vlist' \ todo' -> Threads] /\ DOMAIN f = {} BY <1>1
  <2>2. /\ sizes' = [nnsc |-> 0, mxcsz |-> 0]
        /\ \A p \in Threads : th'[p].nn = 0 /\ th'[p].mx = -1
    BY <1>1 DEF Counting, Fresh
  <2>3. \A none : Adds({}, 0, none, none)' BY FS_EmptySet DEF Adds
  <2>4. (\A p \in Threads : Own(f, p) = {}) /\ Summed(f)' = {} BY <2>1 DEF Own, Summed
  <2> HIDE DEF f
  <2>5. Shares(f)' BY <2>2, <2>3, <2>4 DEF Shares
  <2> QED BY <2>1, <2>5 DEF Tallied
<1> QED BY <1>1, <1>5, <1>6, <1>7, <1>8 DEF Counting, SizesCounted

(* What the threads have added depends on the labels and the list only.    *)
LEMMA AddsStay ==
  ASSUME UNCHANGED <<cm, vlist>>
  PROVE  /\ \A S, n, m, none : Adds(S, n, m, none)' <=> Adds(S, n, m, none)
         /\ \A c : Class(c)' = Class(c)
BY DEF Adds, Size, Class

(* A thread tallies a label of the list.                                   *)
LEMMA TallyCounting == ASSUME IInv, Counting, NEW p \in Threads, Tally(p) PROVE Counting'
<1>0. /\ th \in [Threads -> Locals] /\ mark \in [V -> Nat \cup {-1}]
      /\ pc = "tally" /\ th[p].pc = "idle" /\ todo \subseteq DOMAIN vlist
      /\ th[p].nn \in Nat /\ th[p].mx \in Nat \cup {-1}
  BY DEF IInv, TypeOK, Locals, TodoOK, Tally, Runs
<1> DEFINE csz(k) == mark[vlist[k]] + 1
<1>1. PICK k \in todo :
        /\ todo' = todo \ {k} /\ mark' = [mark EXCEPT ![vlist[k]] = -1]
        /\ th' = [th EXCEPT ![p] = [th[p] EXCEPT !.nn = IF csz(k) > 1 THEN @ + 1 ELSE @,
                                                 !.mx = IF csz(k) > @ THEN csz(k) ELSE @]]
  BY DEF Tally, Move
<1>2. UNCHANGED <<pc, cm, vlist, sizes>> BY DEF Tally
<1>3. ListOnce /\ k \in DOMAIN vlist /\ vlist[k] \in V
  BY <1>0, ListTyped DEF Counting, Listing, IInv
<1>4. csz(k) = Size(k)
  <2>1. mark[vlist[k]] = Cardinality(Class(vlist[k])) - 1
    BY <1>0, <1>1, <1>3 DEF Counting, Marks
  <2>2. Cardinality(Class(vlist[k])) \in Nat BY SizeTyped
  <2> QED BY <2>1, <2>2 DEF Size
<1> DEFINE nn == IF Size(k) > 1 THEN th[p].nn + 1 ELSE th[p].nn
           mx == IF Size(k) > th[p].mx THEN Size(k) ELSE th[p].mx
<1>5. /\ th'[p].pc = "idle" /\ th'[p].nn = nn /\ th'[p].mx = mx
      /\ \A q \in Threads : q # p => th'[q] = th[q]
  <2>1. th' = [th EXCEPT ![p] = [th[p] EXCEPT !.nn = nn, !.mx = mx]] BY <1>1, <1>4
  <2> HIDE DEF nn, mx
  <2>2. th'[p] = [th[p] EXCEPT !.nn = nn, !.mx = mx] BY <2>1, <1>0
  <2>3. th[p] \in Locals BY <1>0
  <2> QED BY <2>1, <2>2, <2>3, <1>0 DEF Locals
<1>6. Marks'
  <2>1. \A c \in V :
          mark[c] = IF \E j \in todo : vlist[j] = c THEN Cardinality(Class(c)) - 1 ELSE -1
    BY <1>0 DEF Counting, Marks
  <2>2. \A c \in V : mark'[c] = IF c = vlist[k] THEN -1 ELSE mark[c] BY <1>0, <1>1, <1>3
  <2>3. \A c \in V : (\E j \in todo' : vlist[j] = c) <=>
                     (\E j \in todo : vlist[j] = c) /\ c # vlist[k]
    BY <1>0, <1>1, <1>3 DEF ListOnce
  <2>4. \A c \in V :
          mark'[c] = IF \E j \in todo' : vlist[j] = c THEN Cardinality(Class(c)) - 1 ELSE -1
    BY <2>1, <2>2, <2>3
  <2> QED BY <2>4, <1>0, <1>2 DEF Marks, Class
<1>7. Listing'
  <2>1. \A c \in V : c \in Names <=> InList(c) BY <1>0 DEF Counting, Listing
  <2>2. Names' = Names /\ \A c : InList(c)' <=> InList(c) BY <1>2 DEF Names, InList
  <2> QED BY <2>1, <2>2, <1>0, <1>2, <1>3 DEF Listing, ListOnce
<1>8. Fresh' BY <1>0, <1>2 DEF Counting, Fresh
<1>9. Tallied'
  <2>1. PICK f \in [DOMAIN vlist \ todo -> Threads] : Shares(f) BY <1>0 DEF Counting, Tallied
  <2>2. PICK g \in [DOMAIN vlist' \ todo' -> Threads] :
          /\ DOMAIN g = DOMAIN f \cup {k} /\ k \notin DOMAIN f
          /\ \A j \in DOMAIN g : g[j] = IF j = k THEN p ELSE f[j]
    <3> DEFINE g == [j \in DOMAIN vlist \ todo' |-> IF j = k THEN p ELSE f[j]]
    <3>1. /\ g \in [DOMAIN vlist' \ todo' -> Threads]
          /\ DOMAIN g = DOMAIN f \cup {k} /\ k \notin DOMAIN f
          /\ \A j \in DOMAIN g : g[j] = IF j = k THEN p ELSE f[j]
      BY <1>1, <1>2, <1>3
    <3> QED BY <3>1
  <2>3. /\ \A q \in Threads : Own(g, q) = IF q = p THEN Own(f, p) \cup {k} ELSE Own(f, q)
        /\ k \notin Own(f, p)
    BY <2>2 DEF Own
  <2>4. Summed(f) = {} /\ Summed(g)' = {}
    <3>1. \A q \in Threads : th[q].pc # "summed" /\ th'[q].pc # "summed"
      BY <1>0, <1>5 DEF IInv, Fits
    <3> QED BY <3>1, <2>1, <2>2 DEF Summed
  <2>5. Adds(Own(f, p) \cup {k}, nn, mx, -1)
    <3>1. IsFiniteSet(Own(f, p))
      <4>1. Own(f, p) \subseteq DOMAIN vlist BY <2>1 DEF Own
      <4> QED BY <4>1, ListTyped DEF IInv
    <3>2. Adds(Own(f, p), th[p].nn, th[p].mx, -1) BY <2>1 DEF Shares
    <3> QED BY <3>1, <3>2, <2>3, <1>0, AddsOne
  <2> HIDE DEF nn, mx
  <2>6. \A q \in Threads : Adds(Own(g, q), th'[q].nn, th'[q].mx, -1)
    <3>1. ASSUME NEW q \in Threads, q # p PROVE Adds(Own(g, q), th'[q].nn, th'[q].mx, -1)
      BY <3>1, <2>1, <2>3, <1>5 DEF Shares
    <3>2. Adds(Own(g, p), th'[p].nn, th'[p].mx, -1) BY <2>3, <2>5, <1>5
    <3> QED BY <3>1, <3>2
  <2>7. Adds({}, sizes'.nnsc, sizes'.mxcsz, 0) BY <2>1, <2>4, <1>2 DEF Shares
  <2>8. Shares(g)' BY <2>4, <2>6, <2>7, <1>2, AddsStay DEF Shares, Own
  <2> QED BY <2>2, <2>8 DEF Tallied
<1> QED BY <1>0, <1>2, <1>6, <1>7, <1>8, <1>9 DEF Counting, SizesCounted

(* All labels are tallied, and so all marks set back.                      *)
LEMMA EndTallyCounting == ASSUME IInv, Counting, EndTally PROVE Counting'
<1>1. /\ pc = "tally" /\ pc' = "sum" /\ todo = {}
      /\ UNCHANGED <<todo, cm, th, mark, vlist, sizes>>
  BY DEF EndTally, Barrier, count
<1>2. Marks' BY <1>1 DEF Counting, Marks
<1>3. Listing' BY <1>1 DEF Counting, Listing, ListOnce, Names, InList
<1>4. Fresh' BY <1>1 DEF Fresh
<1>5. Tallied'
  <2>1. PICK f \in [DOMAIN vlist \ todo -> Threads] : Shares(f) BY <1>1 DEF Counting, Tallied
  <2>2. Summed(f)' = Summed(f) BY <1>1 DEF Summed
  <2>3. Shares(f)' BY <2>1, <2>2, <1>1, AddsStay DEF Shares, Own
  <2> QED BY <2>1, <2>3, <1>1 DEF Tallied
<1> QED BY <1>1, <1>2, <1>3, <1>4, <1>5 DEF Counting, SizesCounted

(* A thread adds its sums to those of all.                                 *)
LEMMA SumCounting == ASSUME IInv, Counting, NEW p \in Threads, Sum(p) PROVE Counting'
<1>0. /\ th \in [Threads -> Locals] /\ pc = "sum" /\ th[p].pc = "idle"
      /\ th[p].nn \in Nat /\ th[p].mx \in Nat \cup {-1}
      /\ sizes \in [nnsc : Nat, mxcsz : Nat] /\ sizes.nnsc \in Nat /\ sizes.mxcsz \in Nat
  BY DEF IInv, TypeOK, Locals, Sum, Runs
<1> DEFINE max == IF th[p].mx > sizes.mxcsz THEN th[p].mx ELSE sizes.mxcsz
<1>1. /\ UNCHANGED <<pc, todo, cm, mark, vlist>>
      /\ sizes'.nnsc = sizes.nnsc + th[p].nn /\ sizes'.mxcsz = max
      /\ th' = [th EXCEPT ![p] = [th[p] EXCEPT !.pc = "summed"]]
  BY DEF Sum, loop, Move, At
<1>2. /\ th'[p].pc = "summed" /\ th'[p].nn = th[p].nn /\ th'[p].mx = th[p].mx
      /\ \A q \in Threads : q # p => th'[q] = th[q]
  <2>1. th'[p] = [th[p] EXCEPT !.pc = "summed"] /\ th[p] \in Locals BY <1>0, <1>1
  <2> QED BY <2>1, <1>0, <1>1 DEF Locals
<1>3. Marks' BY <1>0, <1>1 DEF Counting, Marks
<1>4. Listing' BY <1>0, <1>1 DEF Counting, Listing, ListOnce, Names, InList
<1>5. Fresh' BY <1>0, <1>1 DEF Fresh
<1>6. Tallied'
  <2>1. PICK f \in [DOMAIN vlist \ todo -> Threads] : Shares(f) BY <1>0 DEF Counting, Tallied
  <2>2. Summed(f)' = Summed(f) \cup Own(f, p) /\ Summed(f) \cap Own(f, p) = {}
    BY <2>1, <1>0, <1>2 DEF Summed, Own
  <2>3. IsFiniteSet(Summed(f)) /\ IsFiniteSet(Own(f, p))
    <3>1. Summed(f) \subseteq DOMAIN vlist /\ Own(f, p) \subseteq DOMAIN vlist
      BY <2>1 DEF Summed, Own
    <3> QED BY <3>1, ListTyped DEF IInv
  <2>4. Adds(Summed(f) \cup Own(f, p), sizes.nnsc + th[p].nn, max, 0)
    <3>1. Adds(Summed(f), sizes.nnsc, sizes.mxcsz, 0) /\ Adds(Own(f, p), th[p].nn, th[p].mx, -1)
      BY <2>1 DEF Shares
    <3> QED BY <3>1, <2>2, <2>3, <1>0, AddsBoth
  <2>5. \A q \in Threads : Adds(Own(f, q), th'[q].nn, th'[q].mx, -1)
    <3>1. \A q \in Threads : th'[q].nn = th[q].nn /\ th'[q].mx = th[q].mx BY <1>2
    <3> QED BY <3>1, <2>1 DEF Shares
  <2> HIDE DEF max
  <2>6. Adds(Summed(f)', sizes'.nnsc, sizes'.mxcsz, 0) BY <2>2, <2>4, <1>1
  <2>7. Shares(f)' BY <2>5, <2>6, <1>1, AddsStay DEF Shares, Own
  <2> QED BY <2>1, <2>7, <1>1 DEF Tallied
<1> QED BY <1>0, <1>1, <1>3, <1>4, <1>5, <1>6 DEF Counting, SizesCounted

(* All threads have added theirs.                                          *)
LEMMA EndSumCounting == ASSUME IInv, Counting, EndSum PROVE Counting'
<1>0. /\ pc = "sum" /\ pc' = "done" /\ todo = {} /\ \A p \in Threads : th[p].pc = "summed"
      /\ UNCHANGED <<cm, mark, vlist>> /\ th' = [p \in Threads |-> Idle]
      /\ found' = [found EXCEPT !.nonsingleton = sizes.nnsc, !.max = sizes.mxcsz]
  BY DEF EndSum, Counting, Listing
<1>1. found'.nonsingleton = sizes.nnsc /\ found'.max = sizes.mxcsz BY <1>0 DEF IInv, TypeOK
<1>2. PICK f \in [DOMAIN vlist -> Threads] : Shares(f) BY <1>0 DEF Counting, Tallied
<1>3. Adds(DOMAIN vlist, sizes.nnsc, sizes.mxcsz, 0)
  <2>1. Summed(f) = DOMAIN vlist BY <1>0, <1>2 DEF Summed
  <2> QED BY <2>1, <1>2 DEF Shares
<1>4. ListOnce /\ \A c \in V : c \in Names <=> InList(c) BY <1>0 DEF Counting, Listing
<1>5. Names \subseteq V BY DEF Names, IInv, TypeOK
<1>6. sizes.nnsc = Cardinality({c \in Names : Cardinality(Class(c)) > 1})
  <2> DEFINE places == {k \in DOMAIN vlist : Size(k) > 1}
             labels == {c \in Names : Cardinality(Class(c)) > 1}
             label == [k \in places |-> vlist[k]]
  <2>1. \A k \in DOMAIN vlist : vlist[k] \in Names BY <1>4, ListTyped DEF IInv, InList
  <2>2. label \in [places -> labels] BY <2>1 DEF Size
  <2>3. \A k, l \in places : label[k] = label[l] => k = l BY <1>4 DEF ListOnce
  <2>4. \A c \in labels : \E k \in places : label[k] = c
    <3>1. TAKE c \in labels
    <3>2. PICK k \in DOMAIN vlist : vlist[k] = c BY <1>4, <1>5 DEF InList
    <3>3. k \in places BY <3>2 DEF Size
    <3> QED BY <3>2, <3>3
  <2>5. sizes.nnsc = Cardinality(places) /\ IsFiniteSet(places)
    BY <1>3, ListTyped DEF Adds, IInv
  <2> HIDE DEF places, labels, label
  <2>6. label \in Bijection(places, labels)
    BY <2>2, <2>3, <2>4 DEF Bijection, Injection, IsInjective, Surjection
  <2>7. Cardinality(labels) = Cardinality(places) BY <2>5, <2>6, FS_Bijection DEF ExistsBijection
  <2> QED BY <2>5, <2>7 DEF labels
<1>7. /\ \A c \in Names : Cardinality(Class(c)) <= sizes.mxcsz
      /\ \E c \in Names : Cardinality(Class(c)) = sizes.mxcsz
  <2>1. \A c \in Names : \E k \in DOMAIN vlist : vlist[k] = c BY <1>4, <1>5 DEF InList
  <2>2. \A c \in Names : Cardinality(Class(c)) <= sizes.mxcsz BY <2>1, <1>3 DEF Adds, Size
  <2>3. sizes.mxcsz # 0
    <3>1. cm[0] \in Names /\ 0 \in Class(cm[0]) BY Sizes DEF Names, Class
    <3>2. IsFiniteSet(Class(cm[0])) BY FiniteV DEF Class
    <3>3. Cardinality(Class(cm[0])) # 0 BY <3>1, <3>2, FS_EmptySet
    <3>4. Cardinality(Class(cm[0])) \in Nat BY SizeTyped
    <3> QED BY <2>2, <3>1, <3>3, <3>4
  <2>4. PICK k \in DOMAIN vlist : Size(k) = sizes.mxcsz BY <2>3, <1>3 DEF Adds
  <2>5. vlist[k] \in Names BY <1>4, ListTyped DEF IInv, InList
  <2> QED BY <2>2, <2>4, <2>5 DEF Size
<1>8. \A v \in V : mark[v] = -1 BY <1>0 DEF Counting, Marks
<1>9. SizesCounted'
  <2>1. Names' = Names /\ \A c : Class(c)' = Class(c) BY <1>0 DEF Names, Class
  <2> QED BY <2>1, <1>0, <1>1, <1>6, <1>7, <1>8 DEF SizesCounted
<1>10. Fresh' BY <1>0 DEF Fresh, Idle
<1>11. Marks' BY <1>0, <1>8 DEF Marks
<1> QED BY <1>0, <1>9, <1>10, <1>11 DEF Counting, Listing, Tallied

LEMMA StepCounting == IInv /\ Numbered /\ Counting /\ [Next]_vars => Counting'
<1> SUFFICES ASSUME IInv, Numbered, Counting, [Next]_vars PROVE Counting' OBVIOUS
<1>1. CASE Begin \/ NextType \/ EndClimb
  <2>1. pc \notin {"claim", "tally", "sum"} /\ pc' = "sweep" /\ mark' = mark /\ th' = th
    BY <1>1 DEF Begin, NextType, EndClimb, Barrier, count
  <2> QED BY <2>1, QuietCounting
<1>2. CASE CountRoots
  <2>1. pc = "count" /\ pc' = "done" /\ mark' = mark /\ th' = th /\ keeps' = keeps
    BY <1>2 DEF CountRoots
  <2>2. SizesCounted' BY <2>1 DEF Numbered, SizesCounted
  <2> QED BY <2>1, <2>2, QuietCounting
<1>3. CASE EndSweep BY <1>3, EndSweepCounting
<1>4. CASE EndClaim \/ EndTally \/ EndSum
  BY <1>4, EndClaimCounting, EndTallyCounting, EndSumCounting
<1>5. CASE \E p \in Threads : Worker(p)
  BY <1>5, SweepCounting, ClaimCounting, ListCounting, TallyCounting, SumCounting DEF Worker
<1>6. CASE UNCHANGED vars
  <2> USE <1>6 DEF vars, loop, count
  <2>1. Marks' BY DEF Counting, Marks, Claimed, Class
  <2>2. Listing' BY DEF Counting, Listing, Claiming, ListOnce, Names, InList, Lists, Claimed, Class
  <2>3. Fresh' BY DEF Counting, Fresh
  <2>4. Tallied'
    <3>1. ASSUME NEW f, Shares(f) PROVE Shares(f)'
      BY <3>1, AddsStay DEF Shares, Own, Summed
    <3> QED BY <3>1 DEF Counting, Tallied
  <2>5. SizesCounted' BY DEF Counting, SizesCounted, Names, Class
  <2> QED BY <2>1, <2>2, <2>3, <2>4, <2>5 DEF Counting
<1> QED BY <1>1, <1>2, <1>3, <1>4, <1>5, <1>6 DEF Next, Team, Over

(* The server reports how many labels have more than one vertex and how    *)
(* many the largest has, and leaves every mark at -1, whichever threads    *)
(* claimed, listed, tallied and summed up which.                           *)
THEOREM SizesReported == Spec => []SizesCounted
<1>1. Init => Counting
  BY DEF Init, Counting, Marks, Listing, Fresh, Tallied, SizesCounted, Idle
<1>2. Init => Numbered BY DEF Init, Numbered, Grown
<1>3. Counting => SizesCounted BY DEF Counting
<1> QED BY <1>1, <1>2, <1>3, Inductive, StepNumbered, StepCounting, PTL DEF Spec
=============================================================================

--------------------------- MODULE FullEmptyProofs ---------------------------
(***************************************************************************)
(* Theorems about FullEmptyX86, for any threads, values and number of      *)
(* calls: the emulated primitives give mutual exclusion, and implement the *)
(* atomic ones of module FullEmpty.                                        *)
(***************************************************************************)
EXTENDS FullEmptyX86, TLAPS

(* A thread in a call holds the cell exactly when the call is a refill.    *)
RefillsHold ==
  \A t \in Threads :
    pc[t] \in {"load", "cas"} => (holder[t] <=> request[t].op \in Refills)

(* A thread about to swap has seen the cell in the state it waited for.    *)
SawItsTurn ==
  \A t \in Threads :
    pc[t] = "cas" =>
      /\ request[t].op \in {"readfe", "writeff", "writeef"}
      /\ val[t] = MARKER <=> request[t].op = "writeef"

(* The inductive invariant: Exclusion needs to know what a thread saw, and *)
(* that only a thread that emptied the cell refills it.                    *)
IInv == TypeOK /\ Exclusion /\ RefillsHold /\ SawItsTurn

LEMMA InitIInv == Init => IInv
BY MarkerReserved, MaxCallsNat
   DEF Init, IInv, TypeOK, Exclusion, RefillsHold, SawItsTurn, Requests, Waits, Refills

(* What a swap that succeeds does, with the value of holder in the open.   *)
Swaps(t) ==
  /\ pc[t] = "cas"
  /\ pc' = [pc EXCEPT ![t] = "done"]
  /\ UNCHANGED <<request, val, left>>
  /\ request[t].op = "readfe" =>
       /\ cell' = MARKER
       /\ holder' = [holder EXCEPT ![t] = TRUE]
  /\ request[t].op # "readfe" =>
       /\ cell' = request[t].arg
       /\ holder' = [holder EXCEPT ![t] = FALSE]

LEMMA SwapCases ==
  ASSUME NEW t \in Threads, Cas(t), cell = val[t]
  PROVE  Swaps(t)
<1>1. /\ pc[t] = "cas"
      /\ pc' = [pc EXCEPT ![t] = "done"]
      /\ cell' = Swapped(t)
      /\ holder' = [holder EXCEPT ![t] = (request[t].op = "readfe")]
      /\ UNCHANGED <<request, val, left>>
      BY DEF Cas
<1>2. CASE request[t].op = "readfe"
  <2>1. (request[t].op = "readfe") = TRUE
        BY <1>2
  <2>. QED BY <1>1, <1>2, <2>1 DEF Swapped, Swaps
<1>3. CASE request[t].op # "readfe"
  <2>1. (request[t].op = "readfe") = FALSE
        BY <1>3
  <2>. QED BY <1>1, <1>3, <2>1 DEF Swapped, Swaps
<1>. QED BY <1>2, <1>3

(* Each step keeps the types.                                              *)
LEMMA StepTypeOK == TypeOK /\ [Next]_vars => TypeOK'
<1>. SUFFICES ASSUME TypeOK, [Next]_vars PROVE TypeOK'
     OBVIOUS
<1>. USE MarkerReserved, MaxCallsNat DEF TypeOK, Requests
<1>1. ASSUME NEW t \in Threads, NEW r \in Requests, Call(t, r) PROVE TypeOK'
      BY <1>1 DEF Call
<1>2. ASSUME NEW t \in Threads, NEW r \in Requests, Refill(t, r) PROVE TypeOK'
      BY <1>2 DEF Refill
<1>3. ASSUME NEW t \in Threads, Load(t) PROVE TypeOK'
      BY <1>3 DEF Load
<1>4. ASSUME NEW t \in Threads, Cas(t) PROVE TypeOK'
  <2>1. CASE cell # val[t]
        BY <1>4, <2>1 DEF Cas
  <2>2. CASE cell = val[t]
    <3>1. Swaps(t)
          BY <1>4, <2>2, SwapCases
    <3>2. CASE request[t].op = "readfe"
          BY <3>1, <3>2 DEF Swaps
    <3>3. CASE request[t].op # "readfe"
      <4>1. request[t].arg \in Values
            OBVIOUS
      <4>. QED BY <3>1, <3>3, <4>1 DEF Swaps
    <3>. QED BY <3>2, <3>3
  <2>. QED BY <2>1, <2>2
<1>5. ASSUME NEW t \in Threads, StoreXF(t) PROVE TypeOK'
      BY <1>5 DEF StoreXF
<1>6. ASSUME NEW t \in Threads, Return(t) PROVE TypeOK'
      BY <1>6 DEF Return
<1>7. CASE UNCHANGED vars
      BY <1>7 DEF vars
<1>. QED
     BY <1>1, <1>2, <1>3, <1>4, <1>5, <1>6, <1>7 DEF Next, Step, Quiet

(* Each step keeps the rest of the invariant.                              *)
LEMMA StepIInv == IInv /\ [Next]_vars => IInv'
<1>. SUFFICES ASSUME IInv, [Next]_vars PROVE IInv'
     OBVIOUS
<1>0. TypeOK'
      BY StepTypeOK DEF IInv
<1>. USE <1>0, MarkerReserved DEF IInv, TypeOK, Requests, Waits, Refills
<1>1. ASSUME NEW t \in Threads, NEW r \in Requests, Call(t, r) PROVE IInv'
      BY <1>1 DEF Call, Exclusion, RefillsHold, SawItsTurn
<1>2. ASSUME NEW t \in Threads, NEW r \in Requests, Refill(t, r) PROVE IInv'
      BY <1>2 DEF Refill, Exclusion, RefillsHold, SawItsTurn
<1>3. ASSUME NEW t \in Threads, Load(t) PROVE IInv'
      BY <1>3 DEF Load, Exclusion, RefillsHold, SawItsTurn
<1>4. ASSUME NEW t \in Threads, Cas(t) PROVE IInv'
  <2>1. CASE cell # val[t]
        BY <1>4, <2>1 DEF Cas, Exclusion, RefillsHold, SawItsTurn
  <2>2. CASE cell = val[t]
    <3>0. Swaps(t)
          BY <1>4, <2>2, SwapCases
    <3>1. CASE request[t].op = "readfe"
          BY <2>2, <3>0, <3>1 DEF Swaps, Exclusion, RefillsHold, SawItsTurn
    <3>2. CASE request[t].op # "readfe"
          BY <2>2, <3>0, <3>2 DEF Swaps, Exclusion, RefillsHold, SawItsTurn
    <3>. QED BY <3>1, <3>2
  <2>. QED BY <2>1, <2>2
<1>5. ASSUME NEW t \in Threads, StoreXF(t) PROVE IInv'
      BY <1>5 DEF StoreXF, Exclusion, RefillsHold, SawItsTurn
<1>6. ASSUME NEW t \in Threads, Return(t) PROVE IInv'
      BY <1>6 DEF Return, Exclusion, RefillsHold, SawItsTurn
<1>7. CASE UNCHANGED vars
      BY <1>7 DEF vars, Exclusion, RefillsHold, SawItsTurn
<1>. QED
     BY <1>1, <1>2, <1>3, <1>4, <1>5, <1>6, <1>7 DEF Next, Step, Quiet

LEMMA Invariant == Spec => []IInv
BY InitIInv, StepIInv, PTL DEF Spec

(* Type correctness.                                                       *)
THEOREM TypeCorrect == Spec => []TypeOK
BY Invariant, PTL DEF IInv

(* The word that readfe empties is a lock: one thread at a time is between *)
(* its readfe and its refill, and the word is MARKER exactly then.         *)
THEOREM MutualExclusion == Spec => []Exclusion
BY Invariant, PTL DEF IInv

------------------------------------------------------------------------------
(* The refinement: the successful swap of readfe, writeff and writeef, the *)
(* last load of readff and the store of writexf are the instants at which  *)
(* the atomic primitive takes effect; every other step of a loop stutters. *)
LEMMA InitRefines == Init => Atomic!Init
BY DEF Init, Atomic!Init, Atomic!None

LEMMA StepRefines == IInv /\ [Next]_vars => [Atomic!Next]_(Atomic!vars)
<1>. SUFFICES ASSUME IInv, [Next]_vars PROVE [Atomic!Next]_(Atomic!vars)
     OBVIOUS
<1>. USE MarkerReserved
     DEF IInv, TypeOK, Requests, Waits, Refills, Atomic!Requests, Atomic!Waits,
         Atomic!Refills, Atomic!None
<1>1. ASSUME NEW t \in Threads, NEW r \in Requests, Call(t, r)
      PROVE Atomic!Next
  <2>1. Atomic!Call(t, r)
        BY <1>1 DEF Call, Atomic!Call
  <2>. QED BY <2>1 DEF Atomic!Next
<1>2. ASSUME NEW t \in Threads, NEW r \in Requests, Refill(t, r)
      PROVE Atomic!Next
  <2>1. Atomic!Call(t, r)
        BY <1>2 DEF Refill, Atomic!Call
  <2>. QED BY <2>1 DEF Atomic!Next
<1>3. ASSUME NEW t \in Threads, Load(t)
      PROVE Atomic!Next \/ UNCHANGED Atomic!vars
  <2>1. CASE pc'[t] = "done"
    <3>1. Atomic!ReadFF(t)
          BY <1>3, <2>1 DEF Load, Atomic!ReadFF
    <3>2. Atomic!Apply(t)
          BY <1>3, <2>1, <3>1 DEF Load, Atomic!Apply
    <3>. QED BY <3>2 DEF Atomic!Next
  <2>2. CASE pc'[t] # "done"
        BY <1>3, <2>2 DEF Load, Atomic!vars
  <2>. QED BY <2>1, <2>2
<1>4. ASSUME NEW t \in Threads, Cas(t)
      PROVE Atomic!Next \/ UNCHANGED Atomic!vars
  <2>1. CASE cell # val[t]
        BY <1>4, <2>1 DEF Cas, Atomic!vars
  <2>2. CASE cell = val[t]
    <3>0. Swaps(t)
          BY <1>4, <2>2, SwapCases
    <3>1. CASE request[t].op = "readfe"
      <4>1. Atomic!ReadFE(t)
            BY <2>2, <3>0, <3>1 DEF Swaps, SawItsTurn, Atomic!ReadFE
      <4>2. Atomic!Apply(t)
            BY <3>0, <4>1 DEF Swaps, Atomic!Apply
      <4>. QED BY <4>2 DEF Atomic!Next
    <3>2. CASE request[t].op = "writeff"
      <4>1. Atomic!WriteFF(t)
            BY <2>2, <3>0, <3>2 DEF Swaps, SawItsTurn, RefillsHold, Atomic!WriteFF
      <4>2. Atomic!Apply(t)
            BY <3>0, <4>1 DEF Swaps, Atomic!Apply
      <4>. QED BY <4>2 DEF Atomic!Next
    <3>3. CASE request[t].op = "writeef"
      <4>1. Atomic!WriteEF(t)
            BY <2>2, <3>0, <3>3 DEF Swaps, SawItsTurn, RefillsHold, Atomic!WriteEF
      <4>2. Atomic!Apply(t)
            BY <3>0, <4>1 DEF Swaps, Atomic!Apply
      <4>. QED BY <4>2 DEF Atomic!Next
    <3>. QED BY <1>4, <3>1, <3>2, <3>3 DEF SawItsTurn, Cas
  <2>. QED BY <2>1, <2>2
<1>5. ASSUME NEW t \in Threads, StoreXF(t)
      PROVE Atomic!Next
  <2>1. Atomic!WriteXF(t)
        BY <1>5 DEF StoreXF, Atomic!WriteXF
  <2>2. Atomic!Apply(t)
        BY <1>5, <2>1 DEF StoreXF, Atomic!Apply
  <2>. QED BY <2>2 DEF Atomic!Next
<1>6. ASSUME NEW t \in Threads, Return(t)
      PROVE Atomic!Next
  <2>1. Atomic!Return(t)
        BY <1>6 DEF Return, Atomic!Return
  <2>. QED BY <2>1 DEF Atomic!Next
<1>7. CASE UNCHANGED vars
      BY <1>7 DEF vars, Atomic!vars
<1>. QED
     BY <1>1, <1>2, <1>3, <1>4, <1>5, <1>6, <1>7 DEF Next, Step, Quiet

(* The load and compare-and-swap loops implement the atomic primitives.    *)
THEOREM Refinement == Spec => ImplementsFullEmpty
<1>1. Spec => Atomic!Init /\ [][Atomic!Next]_(Atomic!vars)
      BY InitRefines, StepRefines, Invariant, PTL DEF Spec
<1>. QED BY <1>1 DEF ImplementsFullEmpty, Atomic!Spec
==============================================================================

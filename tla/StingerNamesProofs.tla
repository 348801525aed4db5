------------------------- MODULE StingerNamesProofs --------------------------
(***************************************************************************)
(* Proofs about the name map, for every number of threads, strings and     *)
(* buckets and for every workload.                                         *)
(*                                                                         *)
(* That the words keep their types (TypeCorrect) needs no assumption.      *)
(* That the answers agree needs room for all strings: otherwise one number *)
(* too many is given out and the inverse map is written past its end.      *)
(*                                                                         *)
(* A string is stored once (Single) because a search passes only buckets   *)
(* that have other strings (Passing) and a stored string has no empty      *)
(* bucket before it (Ordered): a creation that locks a bucket and finds it *)
(* still empty has thereby looked everywhere (EmptyShows).  What a bucket  *)
(* has it keeps (Grows), with its number, from the step that publishes it. *)
(* So an answer that was right when it was given stays right.              *)
(***************************************************************************)
EXTENDS StingerNames, FiniteSetTheorems, TLAPS

(* Where a creation is that has found its bucket empty and locked it, a    *)
(* call that has a bucket locked, and a call that looks for its string.    *)
FillPcs   == {"reserve", "number", "invert", "publish"}
HoldPcs   == {"again", "hung"} \cup FillPcs
SearchPcs == {"room", "probe", "compare", "claim"} \cup HoldPcs

(* A thread that is not idle has taken a call of the phase, no other       *)
(* thread has taken the same one, and it is where a call of that kind can  *)
(* be.                                                                     *)
Tasks ==
  /\ \A t \in Threads : th[t].pc # "idle" =>
       /\ phase \in DOMAIN work /\ th[t].op \in DOMAIN work[phase]
       /\ res[th[t].op] = "taken"
       /\ th[t].pc = "inverse" => Call(t).kind = "name"
       /\ th[t].pc \in SearchPcs \cup {"found", "created"} => Call(t).kind # "name"
       /\ th[t].pc \in HoldPcs \cup {"room", "claim", "created"} => Call(t).kind = "create"
       /\ th[t].pc = "number" => th[t].place \in Nat
  /\ \A t, u \in Threads :
       th[t].pc # "idle" /\ th[u].pc # "idle" /\ th[t].op = th[u].op => t = u

Typed == TypeOK /\ Tasks

Records == [pc : ProgramCounters, op : Nat, index : Buckets, place : Int]

------------------------------------------------------------------------------
(* What a step does to the record of its thread, and to nobody else's.     *)
LEMMA BucketRange ==
  ASSUME NEW i \in Buckets
  PROVE  /\ i \in Nat /\ i < 2 * MaxTypes /\ MaxTypes \in Nat /\ MaxTypes > 0
         /\ FromName(i) \in 0..5 * MaxTypes - 1 /\ ToInt(i) \in 0..5 * MaxTypes - 1
         /\ FromName(i) \in MaxTypes..3 * MaxTypes - 1
         /\ ToInt(i) \in 3 * MaxTypes..5 * MaxTypes - 1
  BY NamesOK DEF Buckets, FromName, ToInt

LEMMA CallOf ==
  ASSUME Typed, NEW t \in Threads, th[t].pc # "idle"
  PROVE  /\ Call(t) \in Calls /\ Query(t) \in Names /\ Hash[Query(t)] \in Buckets
         /\ th[t].op \in DOMAIN res /\ th[t] \in Records
         /\ Stored(t) \in Int /\ word[ToInt(th[t].index)] \in Int
<1>1. /\ work \in Seq(Seq(Calls)) /\ phase \in DOMAIN work
      /\ th[t].op \in DOMAIN work[phase] /\ th[t] \in Records
  BY NamesOK DEF Typed, TypeOK, Tasks, Records
<1>2. work[phase] \in Seq(Calls)
  BY <1>1
<1>3. Call(t) \in Calls
  BY <1>1, <1>2 DEF Call
<1>4. Query(t) \in Names
  BY <1>3 DEF Query, Calls
<1>5. Hash[Query(t)] \in Buckets
  BY <1>4, NamesOK
<1>6. th[t].op \in DOMAIN res
  BY <1>1 DEF Typed, TypeOK, Begun
<1>7. th[t].index \in Buckets
  BY <1>1 DEF Records
<1>8. Stored(t) \in Int /\ word[ToInt(th[t].index)] \in Int
  BY <1>7, BucketRange DEF Stored, Typed, TypeOK
<1> QED
  BY <1>1, <1>3, <1>4, <1>5, <1>6, <1>8

LEMMA MoveDone ==
  ASSUME TypeOK, NEW t \in Threads, NEW to \in ProgramCounters, Move(t, to)
  PROVE  /\ th' \in [Threads -> Records]
         /\ th'[t].pc = to /\ th'[t].op = th[t].op
         /\ th'[t].index = th[t].index /\ th'[t].place = th[t].place
         /\ \A u \in Threads : u # t => th'[u] = th[u]
  BY DEF TypeOK, Move, Records

(* An answer: the call is done, the thread is idle.                        *)
LEMMA AnswerDone ==
  ASSUME Typed, NEW t \in Threads, th[t].pc # "idle", NEW rtn \in {-1, 0, 1},
         NEW out \in Int, Answer(t, rtn, out)
  PROVE  /\ th' \in [Threads -> Records]
         /\ th'[t] = Idle /\ \A u \in Threads : u # t => th'[u] = th[u]
         /\ answers' \subseteq [call : Calls, rtn : {-1, 0, 1}, out : Int]
         /\ work' = work /\ phase' = phase
         /\ res' \in [DOMAIN Begun(work, phase) -> {"todo", "taken", "done"}]
         /\ \A i \in DOMAIN res : i # th[t].op => res'[i] = res[i]
<1>1. Call(t) \in Calls /\ th[t].op \in DOMAIN res
  BY CallOf
<1>2. Idle \in Records
  BY NamesOK DEF Idle, Records, Buckets, ProgramCounters
<1> QED
  BY <1>1, <1>2 DEF Typed, TypeOK, Answer, Records

(* The record of a thread that moves on with its call.                     *)
Goes(t, r) ==
  /\ th' = [th EXCEPT ![t] = r]
  /\ r \in Records /\ r.op = th[t].op /\ r.pc # "idle"
  /\ UNCHANGED callVars

LEMMA GoesTyped ==
  ASSUME Typed, NEW t \in Threads, th[t].pc # "idle", NEW r, Goes(t, r),
         r.pc = "inverse" => Call(t).kind = "name",
         r.pc \in SearchPcs \cup {"found", "created"} => Call(t).kind # "name",
         r.pc \in HoldPcs \cup {"room", "claim", "created"} => Call(t).kind = "create",
         r.pc = "number" => r.place \in Nat,
         word' \in [0..5 * MaxTypes - 1 -> Int],
         DOMAIN text' \subseteq Nat, \A p \in DOMAIN text' : text'[p] \in Names,
         next_string' \in Nat, next_type' \in Nat
  PROVE  Typed'
<1>1. /\ th' \in [Threads -> Records] /\ th'[t] = r
      /\ \A u \in Threads : u # t => th'[u] = th[u]
  BY DEF Typed, TypeOK, Goes, Records
<1>2. TypeOK'
  BY <1>1 DEF Typed, TypeOK, Goes, callVars, Records, Begun
<1>3. \A u \in Threads : th'[u].op = th[u].op /\ (th'[u].pc # "idle" <=> th[u].pc # "idle")
  BY <1>1 DEF Goes
<1>4. \A u \in Threads : Call(u)' = Call(u)
  BY <1>3 DEF Call, Goes, callVars
<1>5. Tasks'
  BY <1>1, <1>3, <1>4 DEF Typed, Tasks, Goes, callVars
<1> QED
  BY <1>2, <1>5 DEF Typed

LEMMA AnswerTyped ==
  ASSUME Typed, NEW t \in Threads, th[t].pc # "idle", NEW rtn \in {-1, 0, 1},
         NEW out \in Int, Answer(t, rtn, out),
         word' = word, text' = text, next_string' \in Nat, next_type' \in Nat
  PROVE  Typed'
<1>1. /\ th' \in [Threads -> Records]
      /\ th'[t] = Idle /\ \A u \in Threads : u # t => th'[u] = th[u]
      /\ answers' \subseteq [call : Calls, rtn : {-1, 0, 1}, out : Int]
      /\ work' = work /\ phase' = phase
      /\ res' \in [DOMAIN Begun(work, phase) -> {"todo", "taken", "done"}]
      /\ \A i \in DOMAIN res : i # th[t].op => res'[i] = res[i]
  BY AnswerDone
<1>2. TypeOK'
  BY <1>1 DEF Typed, TypeOK, Records, Begun
<1>3. \A u \in Threads : th'[u].pc # "idle" => u # t /\ th'[u] = th[u] /\ Call(u)' = Call(u)
  BY <1>1 DEF Idle, Call
<1>4. \A u \in Threads : th'[u].pc # "idle" => th[u].op \in DOMAIN res /\ th[u].op # th[t].op
  BY <1>3, CallOf DEF Typed, Tasks
<1>5. Tasks'
  BY <1>1, <1>3, <1>4 DEF Typed, Tasks
<1> QED
  BY <1>2, <1>5 DEF Typed

------------------------------------------------------------------------------
(* Typed holds at the start and after every step.                          *)
LEMMA InitTyped == Init => Typed
<1> SUFFICES ASSUME Init PROVE Typed
  OBVIOUS
<1>1. th \in [Threads -> Records] /\ \A t \in Threads : th[t].pc = "idle"
  BY NamesOK DEF Init, Idle, Records, Buckets, ProgramCounters
<1>2. res \in [DOMAIN Begun(work, phase) -> {"todo", "taken", "done"}]
  BY DEF Init, Begun
<1>3. TypeOK
  BY <1>1, <1>2, NamesOK DEF Init, TypeOK, Records
<1> QED
  BY <1>1, <1>3 DEF Typed, Tasks

LEMMA TakeTyped ==
  ASSUME Typed, NEW t \in Threads, NEW i \in DOMAIN res, Take(t, i)
  PROVE  /\ Typed' /\ th'[t].op = i /\ th'[t].index = Hash[work[phase][i].name]
         /\ \A u \in Threads : u # t => th'[u] = th[u]
         /\ th'[t].pc = CASE work[phase][i].kind = "create" -> "room"
                          [] work[phase][i].kind = "lookup" -> "probe"
                          [] work[phase][i].kind = "name"   -> "inverse"
<1>1. phase \in DOMAIN work /\ i \in DOMAIN work[phase]
  BY DEF Typed, TypeOK, Begun
<1>2. work[phase] \in Seq(Calls) /\ i \in Nat
  BY <1>1, NamesOK DEF Typed, TypeOK
<1> DEFINE c == work[phase][i]
<1>3. c \in Calls
  BY <1>1, <1>2
<1> DEFINE to == CASE c.kind = "create" -> "room" [] c.kind = "lookup" -> "probe"
                   [] c.kind = "name" -> "inverse"
           r  == [pc |-> to, op |-> i, index |-> Hash[c.name], place |-> 0]
<1>4. /\ to \in {"room", "probe", "inverse"} /\ to # "idle"
      /\ to = "room" <=> c.kind = "create"
      /\ to = "probe" <=> c.kind = "lookup"
      /\ to = "inverse" <=> c.kind = "name"
  BY <1>3 DEF Calls
<1> HIDE DEF to
<1>5. Hash[c.name] \in Buckets
  BY <1>3, NamesOK DEF Calls
<1>6. r \in Records /\ r.pc = to /\ r.op = i /\ r.index = Hash[c.name]
  BY <1>2, <1>4, <1>5 DEF Records, ProgramCounters
<1>7. th' = [th EXCEPT ![t] = r]
  <2>1. [Idle EXCEPT !.op = i] = [pc |-> "idle", op |-> i, index |-> 0, place |-> 0]
    BY DEF Idle
  <2>2. [[pc |-> "idle", op |-> i, index |-> 0, place |-> 0] EXCEPT !.index = Hash[c.name]]
        = [pc |-> "idle", op |-> i, index |-> Hash[c.name], place |-> 0]
    OBVIOUS
  <2>3. [[pc |-> "idle", op |-> i, index |-> Hash[c.name], place |-> 0] EXCEPT !.pc = to] = r
    OBVIOUS
  <2>4. [Idle EXCEPT !.op = i, !.index = Hash[c.name], !.pc = to] =
        [[[Idle EXCEPT !.op = i] EXCEPT !.index = Hash[c.name]] EXCEPT !.pc = to]
    OBVIOUS
  <2>5. [Idle EXCEPT !.op = i, !.index = Hash[c.name], !.pc = to] = r
    BY <2>1, <2>2, <2>3, <2>4
  <2> QED
    BY <2>5 DEF Take, to
<1>8. UNCHANGED <<work, phase, answers, word, storeVars>> /\ th[t].pc = "idle"
      /\ res[i] = "todo" /\ res' = [res EXCEPT ![i] = "taken"]
  BY DEF Take, At
<1> HIDE DEF r
<1>9. /\ th' \in [Threads -> Records] /\ th'[t] = r
      /\ \A u \in Threads : u # t => th'[u] = th[u]
  BY <1>6, <1>7 DEF Typed, TypeOK, Records
<1>10. res' \in [DOMAIN Begun(work, phase) -> {"todo", "taken", "done"}]
  BY <1>8 DEF Typed, TypeOK
<1>11. TypeOK'
  BY <1>8, <1>9, <1>10 DEF Typed, TypeOK, Records, storeVars, Begun
<1>12. \A u \in Threads : u # t => Call(u)' = Call(u)
  BY <1>8, <1>9 DEF Call
<1>13. Call(t)' = c
  BY <1>6, <1>8, <1>9 DEF Call
<1>14. \A u \in Threads : u # t /\ th[u].pc # "idle" => th[u].op # i
  BY <1>8 DEF Typed, Tasks
<1>15. \A u \in Threads : u # t /\ th[u].pc # "idle" => res'[th[u].op] = "taken"
  BY <1>8, <1>14, CallOf DEF Typed, Tasks, TypeOK
<1>16. res'[i] = "taken"
  BY <1>8 DEF Typed, TypeOK
<1>17. \A u \in Threads : th'[u].pc # "idle" =>
       /\ (phase \in DOMAIN work /\ th[u].op \in DOMAIN work[phase] /\ res[th[u].op] = "taken")'
       /\ (th[u].pc = "inverse" => Call(u).kind = "name")'
       /\ (th[u].pc \in SearchPcs \cup {"found", "created"} => Call(u).kind # "name")'
       /\ (th[u].pc \in HoldPcs \cup {"room", "claim", "created"} => Call(u).kind = "create")'
       /\ (th[u].pc = "number" => th[u].place \in Nat)'
  <2> TAKE u \in Threads
  <2>1. CASE u = t
    BY <2>1, <1>1, <1>4, <1>6, <1>8, <1>9, <1>13, <1>16 DEF SearchPcs, HoldPcs, FillPcs
  <2>2. CASE u # t
    BY <2>2, <1>8, <1>9, <1>12, <1>15 DEF Typed, Tasks
  <2> QED
    BY <2>1, <2>2
<1>18. Tasks'
  BY <1>6, <1>9, <1>14, <1>17 DEF Typed, Tasks
<1> QED
  BY <1>4, <1>6, <1>9, <1>11, <1>18 DEF Typed, to

(* A step that only moves the program counter, and one that takes the      *)
(* thread to another bucket.                                               *)
LEMMA MoveTyped ==
  ASSUME Typed, NEW t \in Threads, th[t].pc # "idle",
         NEW to \in ProgramCounters \ {"idle", "number"},
         Move(t, to), UNCHANGED callVars,
         to = "inverse" => Call(t).kind = "name",
         to \in SearchPcs \cup {"found", "created"} => Call(t).kind # "name",
         to \in HoldPcs \cup {"room", "claim", "created"} => Call(t).kind = "create",
         word' \in [0..5 * MaxTypes - 1 -> Int],
         DOMAIN text' \subseteq Nat, \A p \in DOMAIN text' : text'[p] \in Names,
         next_string' \in Nat, next_type' \in Nat
  PROVE  Typed'
<1> DEFINE r == [th[t] EXCEPT !.pc = to]
<1>1. r \in Records /\ r.pc = to /\ r.op = th[t].op
  BY CallOf DEF Records
<1>2. th' = [th EXCEPT ![t] = r]
  BY DEF Move
<1> HIDE DEF r
<1>3. Goes(t, r)
  BY <1>1, <1>2 DEF Goes
<1> QED
  BY <1>1, <1>3, GoesTyped

(* The bucket after this one.                                              *)
Following(i) == (i + 1) % (2 * MaxTypes)

LEMMA FollowingBucket ==
  ASSUME NEW i \in Buckets
  PROVE  /\ Following(i) \in Buckets
         /\ Following(i) = IF i + 1 = 2 * MaxTypes THEN 0 ELSE i + 1
<1>1. CASE i + 1 = 2 * MaxTypes
  BY <1>1, NamesOK DEF Buckets, Following
<1>2. CASE i + 1 < 2 * MaxTypes
  BY <1>2, NamesOK DEF Buckets, Following
<1> QED
  BY <1>1, <1>2, NamesOK DEF Buckets

(* What a step of NextBucket that goes on does.                            *)
Advances(t) ==
  /\ Following(th[t].index) # Hash[Query(t)]
  /\ th' = [th EXCEPT ![t] = [th[t] EXCEPT !.index = Following(th[t].index), !.pc = "probe"]]
  /\ UNCHANGED callVars

LEMMA NextBucketIs ==
  ASSUME NEW t \in Threads, NextBucket(t)
  PROVE  Answer(t, -1, 0) \/ Advances(t)
<1>1. [th EXCEPT ![t].index = Following(th[t].index), ![t].pc = "probe"] =
      [th EXCEPT ![t] = [th[t] EXCEPT !.index = Following(th[t].index), !.pc = "probe"]]
  OBVIOUS
<1> QED
  BY <1>1 DEF NextBucket, Advances, Following

LEMMA AdvanceTyped ==
  ASSUME Typed, NEW t \in Threads, th[t].pc = "compare", Advances(t),
         UNCHANGED <<word, storeVars>>
  PROVE  /\ Typed' /\ th'[t].pc = "probe" /\ th'[t].op = th[t].op
         /\ th'[t].index = Following(th[t].index)
         /\ \A u \in Threads : u # t => th'[u] = th[u]
<1> DEFINE r == [th[t] EXCEPT !.index = Following(th[t].index), !.pc = "probe"]
<1>1. th[t] \in Records
  BY CallOf
<1>2. Following(th[t].index) \in Buckets
  BY <1>1, FollowingBucket DEF Records
<1>3. /\ r \in Records /\ r.pc = "probe" /\ r.op = th[t].op
      /\ r.index = Following(th[t].index)
  BY <1>1, <1>2 DEF Records, ProgramCounters
<1>4. th' = [th EXCEPT ![t] = r] /\ UNCHANGED callVars
  BY DEF Advances
<1> HIDE DEF r
<1>5. Goes(t, r)
  BY <1>3, <1>4 DEF Goes
<1>6. Call(t).kind # "name"
  BY DEF Typed, Tasks, SearchPcs
<1>7. Typed'
  BY <1>3, <1>5, <1>6, GoesTyped DEF Typed, TypeOK, storeVars, HoldPcs, FillPcs
<1> QED
  BY <1>3, <1>4, <1>7 DEF Typed, TypeOK

(* The thread takes a place and goes on.                                   *)
TakesPlace(t, p, to) ==
  /\ th' = [th EXCEPT ![t].place = p, ![t].pc = to]
  /\ UNCHANGED callVars

LEMMA PlaceTyped ==
  ASSUME Typed, NEW t \in Threads, th[t].pc \in {"claim", "reserve"},
         NEW p \in Int, NEW to \in {"reserve", "again", "number"}, TakesPlace(t, p, to),
         to = "number" => p \in Nat,
         word' \in [0..5 * MaxTypes - 1 -> Int],
         text' = text, next_string' \in Nat, next_type' \in Nat
  PROVE  /\ Typed' /\ th'[t].pc = to /\ th'[t].op = th[t].op
         /\ th'[t].index = th[t].index /\ th'[t].place = p
         /\ \A u \in Threads : u # t => th'[u] = th[u]
<1> DEFINE r == [th[t] EXCEPT !.place = p, !.pc = to]
<1>1. th[t] \in Records
  BY CallOf
<1>2. /\ r \in Records /\ r.pc = to /\ r.op = th[t].op
      /\ r.index = th[t].index /\ r.place = p
  BY <1>1 DEF Records, ProgramCounters
<1>3. [th EXCEPT ![t].place = p, ![t].pc = to] = [th EXCEPT ![t] = r]
  OBVIOUS
<1>4. th' = [th EXCEPT ![t] = r] /\ UNCHANGED callVars
  BY <1>3 DEF TakesPlace
<1> HIDE DEF r
<1>5. Goes(t, r)
  BY <1>2, <1>4 DEF Goes
<1>6. Call(t).kind = "create"
  BY DEF Typed, Tasks, HoldPcs, FillPcs
<1>7. Typed'
  BY <1>2, <1>5, <1>6, GoesTyped DEF Typed, TypeOK
<1> QED
  BY <1>2, <1>4, <1>7 DEF Typed, TypeOK

(* A step of one thread.                                                   *)
LEMMA StepTyped ==
  ASSUME Typed, NEW t \in Threads, Step(t)
  PROVE  Typed'
<1> USE DEF SearchPcs, HoldPcs, FillPcs, ProgramCounters
<1> DEFINE pc == th[t].pc
<1>1. ASSUME NEW i \in DOMAIN res, Take(t, i) PROVE Typed'
  BY <1>1, TakeTyped
<1>2. CASE Room(t)
  <2>1. pc = "room" /\ Call(t).kind = "create"
    BY <1>2 DEF Room, At, Typed, Tasks
  <2>2. CASE Answer(t, -1, 0)
    BY <1>2, <2>1, <2>2, AnswerTyped DEF Room, storeVars, Typed, TypeOK
  <2>3. CASE Move(t, "probe") /\ UNCHANGED callVars
    BY <1>2, <2>1, <2>3, MoveTyped DEF Room, storeVars, Typed, TypeOK
  <2> QED
    BY <1>2, <2>2, <2>3 DEF Room
<1>3. CASE Probe(t)
  <2>1. pc = "probe" /\ Call(t).kind # "name"
    BY <1>3 DEF Probe, At, Typed, Tasks
  <2>2. CASE Answer(t, -1, 0)
    BY <1>3, <2>1, <2>2, AnswerTyped DEF Probe, storeVars, Typed, TypeOK
  <2>3. CASE Move(t, "compare") /\ UNCHANGED callVars
    BY <1>3, <2>1, <2>3, MoveTyped DEF Probe, storeVars, Typed, TypeOK
  <2>4. CASE Move(t, "claim") /\ UNCHANGED callVars /\ Call(t).kind # "lookup"
    <3>1. Call(t).kind = "create"
      BY <2>1, <2>4, CallOf DEF Calls
    <3> QED
      BY <1>3, <2>1, <2>4, <3>1, MoveTyped DEF Probe, storeVars, Typed, TypeOK
  <2> QED
    BY <1>3, <2>2, <2>3, <2>4 DEF Probe
<1>4. CASE Compare(t)
  <2>1. pc = "compare" /\ Call(t).kind # "name"
    BY <1>4 DEF Compare, At, Typed, Tasks
  <2>2. CASE Answer(t, -1, 0)
    BY <1>4, <2>1, <2>2, AnswerTyped DEF Compare, storeVars, Typed, TypeOK
  <2>3. CASE Move(t, "found") /\ UNCHANGED callVars
    BY <1>4, <2>1, <2>3, MoveTyped DEF Compare, storeVars, Typed, TypeOK
  <2>4. CASE Advances(t)
    BY <1>4, <2>1, <2>4, AdvanceTyped DEF Compare
  <2> QED
    BY <1>4, <2>2, <2>3, <2>4, NextBucketIs DEF Compare
<1>5. CASE Found(t)
  <2>1. pc = "found"
    BY <1>5 DEF Found, At
  <2> QED
    BY <1>5, <2>1, CallOf, AnswerTyped DEF Found, storeVars, Typed, TypeOK
<1>6. CASE Claim(t)
  <2>1. pc = "claim" /\ th[t].index \in Buckets /\ Stored(t) \in Int
    BY <1>6, CallOf DEF Claim, At, Records
  <2>2. word' \in [0..5 * MaxTypes - 1 -> Int]
    <3>1. MARKER \in Int
      BY DEF MARKER
    <3> QED
      BY <1>6, <3>1 DEF Claim, Typed, TypeOK
  <2>3. TakesPlace(t, Stored(t), IF Stored(t) = 0 THEN "reserve" ELSE "again")
    BY <1>6 DEF Claim, TakesPlace
  <2>4. (IF Stored(t) = 0 THEN "reserve" ELSE "again") \in {"reserve", "again"}
    OBVIOUS
  <2> QED
    BY <1>6, <2>1, <2>2, <2>3, <2>4, PlaceTyped DEF Claim, storeVars, Typed, TypeOK
<1>7. CASE Again(t)
  <2>1. pc = "again" /\ Call(t).kind = "create" /\ th[t].place \in Int
    BY <1>7, CallOf DEF Again, At, Typed, Tasks, Records
  <2>2. word' \in [0..5 * MaxTypes - 1 -> Int]
    BY <1>7, <2>1 DEF Again, Typed, TypeOK
  <2>3. UNCHANGED <<callVars, storeVars>> /\ (Move(t, "found") \/ Move(t, "hung"))
    BY <1>7 DEF Again
  <2>4. UNCHANGED callVars /\ UNCHANGED <<text, next_string, next_type>>
    BY <2>3 DEF storeVars
  <2>5. CASE Move(t, "found")
    BY <2>1, <2>2, <2>4, <2>5, MoveTyped DEF Typed, TypeOK
  <2>6. CASE Move(t, "hung")
    BY <2>1, <2>2, <2>4, <2>6, MoveTyped DEF Typed, TypeOK
  <2> QED
    BY <2>3, <2>5, <2>6
<1>8. CASE Reserve(t)
  <2>1. pc = "reserve" /\ Length[Query(t)] \in Nat
    BY <1>8, CallOf, NamesOK DEF Reserve, At
  <2>2. next_string' \in Nat /\ UNCHANGED <<word, text, next_type>>
    BY <1>8, <2>1 DEF Reserve, Typed, TypeOK
  <2>3. CASE Answer(t, -1, INT64_MAX)
    BY <2>1, <2>2, <2>3, AnswerTyped DEF Typed, TypeOK, INT64_MAX
  <2>4. CASE TakesPlace(t, next_string, "number")
    BY <2>1, <2>2, <2>4, PlaceTyped DEF Typed, TypeOK
  <2> QED
    BY <1>8, <2>3, <2>4 DEF Reserve, TakesPlace
<1>9. CASE Number(t)
  <2>1. pc = "number" /\ Call(t).kind = "create" /\ Query(t) \in Names
    BY <1>9, CallOf DEF Number, At, Typed, Tasks
  <2>2. /\ word' \in [0..5 * MaxTypes - 1 -> Int] /\ next_type' \in Nat /\ next_string' \in Nat
    <3>1. next_type \in Int /\ next_type' = next_type + 1 /\ next_string' = next_string
      BY <1>9 DEF Number, Typed, TypeOK
    <3>2. word' \in [0..5 * MaxTypes - 1 -> Int]
      BY <1>9, <3>1 DEF Number, Typed, TypeOK
    <3> QED
      BY <3>1, <3>2 DEF Typed, TypeOK
  <2>3. UNCHANGED callVars /\ Move(t, "invert")
    BY <1>9 DEF Number
  <2>4. DOMAIN text' = DOMAIN text \cup {th[t].place}
    BY <1>9 DEF Number
  <2>5. \A p \in DOMAIN text' : text'[p] \in Names
    BY <1>9, <2>1 DEF Number, Typed, TypeOK
  <2>6. th[t].place \in Nat
    BY <2>1 DEF Typed, Tasks
  <2> QED
    BY <2>1, <2>2, <2>3, <2>4, <2>5, <2>6, MoveTyped DEF Typed, TypeOK
<1>10. CASE Invert(t)
  <2>1. pc = "invert" /\ Call(t).kind = "create" /\ th[t].place \in Int
    BY <1>10, CallOf DEF Invert, At, Typed, Tasks, Records
  <2>2. word' \in [0..5 * MaxTypes - 1 -> Int]
    BY <1>10, <2>1 DEF Invert, Typed, TypeOK
  <2> QED
    BY <1>10, <2>1, <2>2, MoveTyped DEF Invert, storeVars, Typed, TypeOK
<1>11. CASE Publish(t)
  <2>1. pc = "publish" /\ Call(t).kind = "create" /\ th[t].place \in Int
    BY <1>11, CallOf DEF Publish, At, Typed, Tasks, Records
  <2>2. word' \in [0..5 * MaxTypes - 1 -> Int]
    BY <1>11, <2>1 DEF Publish, Typed, TypeOK
  <2> QED
    BY <1>11, <2>1, <2>2, MoveTyped DEF Publish, storeVars, Typed, TypeOK
<1>12. CASE Created(t)
  <2>1. pc = "created"
    BY <1>12 DEF Created, At
  <2> QED
    BY <1>12, <2>1, CallOf, AnswerTyped DEF Created, storeVars, Typed, TypeOK
<1>13. CASE LookupName(t)
  <2>1. pc = "inverse" /\ Call(t).type \in Nat
    BY <1>13, CallOf DEF LookupName, At, Calls
  <2>2. (IF Call(t).type < MaxTypes THEN word[ToName(Call(t).type)] ELSE -1) \in Int
    BY <2>1, NamesOK DEF Typed, TypeOK, ToName
  <2> QED
    BY <1>13, <2>1, <2>2, AnswerTyped DEF LookupName, storeVars, Typed, TypeOK
<1> QED
  BY <1>1, <1>2, <1>3, <1>4, <1>5, <1>6, <1>7, <1>8, <1>9, <1>10, <1>11, <1>12, <1>13 DEF Step

LEMMA BarrierTyped ==
  ASSUME Typed, Barrier
  PROVE  /\ Typed' /\ th' = th /\ \A t \in Threads : th[t].pc = "idle"
<1>1. \A t \in Threads : th[t].pc = "idle"
  <2> SUFFICES ASSUME NEW t \in Threads, th[t].pc # "idle" PROVE FALSE
    OBVIOUS
  <2>1. th[t].op \in DOMAIN res /\ res[th[t].op] = "taken"
    BY CallOf DEF Typed, Tasks
  <2> QED
    BY <2>1 DEF Barrier
<1>2. res' \in [DOMAIN Begun(work, phase') -> {"todo", "taken", "done"}]
  BY DEF Barrier, Begun
<1>3. TypeOK'
  BY <1>2 DEF Typed, TypeOK, Barrier, storeVars
<1>4. Tasks'
  BY <1>1 DEF Tasks, Barrier
<1> QED
  BY <1>1, <1>3, <1>4 DEF Typed, Barrier

LEMMA TypedStutters ==
  ASSUME Typed, UNCHANGED vars
  PROVE  Typed'
  BY DEF Typed, TypeOK, Tasks, vars, Call, Begun

LEMMA NextTyped ==
  ASSUME Typed, [Next]_vars
  PROVE  Typed'
<1>1. CASE Next
  BY <1>1, BarrierTyped, StepTyped, TypedStutters DEF Next, Over
<1>2. CASE UNCHANGED vars
  BY <1>2, TypedStutters
<1> QED
  BY <1>1, <1>2

(* Buckets, counters, places and answers stay in range, whatever the       *)
(* workload: also when there are more strings than numbers, where the      *)
(* inverse map is written past its end (stinger-names.c).                  *)
THEOREM TypeCorrect == Spec => []TypeOK
<1>1. Init => Typed
  BY InitTyped
<1>2. Typed /\ [Next]_vars => Typed'
  BY NextTyped
<1>3. Typed => TypeOK
  BY DEF Typed
<1> QED
  BY <1>1, <1>2, <1>3, PTL DEF Spec

------------------------------------------------------------------------------
(* What the words of the storage are: the place in bucket i, the number    *)
(* beside it, and the place that number k leads back to.                   *)
InBucket(i) == word[FromName(i)]
NumberAt(i) == word[ToInt(i)]
PlaceOf(k)  == word[ToName(k)]

(* The strings that a workload asks for, and those that it creates.        *)
Asks(w, n)    == \E p \in DOMAIN w : \E i \in DOMAIN w[p] : w[p][i].name = n
Creates(w, n) ==
  \E p \in DOMAIN w : \E i \in DOMAIN w[p] : w[p][i].kind = "create" /\ w[p][i].name = n
CreatedNames(w) == {n \in Names : Creates(w, n)}

(* A thread that has locked bucket i has found place p in it; bucket i has *)
(* string n; a thread is filling it with string n.                         *)
Grips(i, p) ==
  \E u \in Threads : th[u].pc \in {"again", "hung"} /\ th[u].index = i /\ th[u].place = p
Keeps(i, n) == \E p \in DOMAIN text : Owns(i, p) /\ text[p] = n
Fills(i, n) == \E t \in Threads : th[t].pc \in FillPcs /\ th[t].index = i /\ Query(t) = n
Has(i, n)   == Keeps(i, n) \/ Fills(i, n)
LatePcs     == {"invert", "publish"}
Numbered(i) ==
  \/ \E p \in DOMAIN text : Owns(i, p)
  \/ \E t \in Threads : th[t].pc \in LatePcs /\ th[t].index = i
StoredNames == {text[p] : p \in DOMAIN text}

(* A bucket that a thread has locked is marked, and by no other thread.    *)
Locks ==
  /\ \A t \in Threads : th[t].pc \in HoldPcs => InBucket(th[t].index) = MARKER
  /\ \A t, u \in Threads :
       th[t].pc \in HoldPcs /\ th[u].pc \in HoldPcs /\ th[t].index = th[u].index => t = u

(* The places of strings: below next_string, not shared, and written by    *)
(* the time a bucket or the inverse map holds one.                         *)
Places ==
  /\ next_string > 0 /\ \A p \in DOMAIN text : 0 < p /\ p < next_string
  /\ \A i \in Buckets : InBucket(i) \in {0, MARKER} \cup DOMAIN text
  /\ \A t \in Threads :
       /\ th[t].pc = "compare" => InBucket(th[t].index) # 0
       /\ th[t].pc = "number" =>
            0 < th[t].place /\ th[t].place < next_string /\ th[t].place \notin DOMAIN text
       /\ th[t].pc \in {"again", "hung"} \cup LatePcs => th[t].place \in DOMAIN text
       /\ th[t].pc \in LatePcs => text[th[t].place] = Query(t)
  /\ \A t, u \in Threads :
       th[t].pc = "number" /\ th[u].pc = "number" /\ th[t].place = th[u].place => t = u

(* A search has passed only buckets whose strings it does not take for its *)
(* own.                                                                    *)
Passing(t) ==
  th[t].pc \in SearchPcs =>
    \A j \in Buckets : Between(Hash[Query(t)], th[t].index, j) =>
      \E p \in DOMAIN text : Owns(j, p) /\ <<Query(t), text[p]>> \notin PrefixOf

(* No bucket on the way to a stored string is empty or has a string that a *)
(* search for it would take; no string is in two buckets; a string that is *)
(* stored is in one or on its way to one.                                  *)
Ordered ==
  \A i \in Buckets : \A p \in DOMAIN text : Owns(i, p) =>
    \A j \in Buckets : Between(Hash[text[p]], i, j) =>
      \E q \in DOMAIN text : Owns(j, q) /\ <<text[p], text[q]>> \notin PrefixOf
Single == \A i, j \in Buckets : \A n \in Names : Has(i, n) /\ Has(j, n) => i = j
Housed ==
  \A p \in DOMAIN text :
    \/ \E i \in Buckets : Owns(i, p)
    \/ \E t \in Threads : th[t].pc \in LatePcs /\ th[t].place = p

(* There are as many numbers as strings, all different, and each leads     *)
(* back to its string.                                                     *)
Numbers ==
  /\ IsFiniteSet(StoredNames) /\ next_type = Cardinality(StoredNames)
  /\ \A n \in StoredNames : Creates(work, n)
  /\ \A i \in Buckets : Numbered(i) => NumberAt(i) \in 0..next_type-1
  /\ \A i, j \in Buckets : Numbered(i) /\ Numbered(j) /\ NumberAt(i) = NumberAt(j) => i = j
Inverses ==
  /\ \A i \in Buckets : \A p \in DOMAIN text : Owns(i, p) => PlaceOf(NumberAt(i)) = p
  /\ \A t \in Threads : th[t].pc = "publish" => PlaceOf(NumberAt(th[t].index)) = th[t].place

(* Every answer, and every one about to be given, is of a bucket that has  *)
(* the string; a string is created once.                                   *)
Finds(t) ==
  th[t].pc = "found" =>
    \E p \in DOMAIN text : Owns(th[t].index, p) /\ <<Query(t), text[p]>> \in PrefixOf
Creating ==
  /\ \A t \in Threads : th[t].pc = "created" =>
       Keeps(th[t].index, Query(t)) /\ \A a \in answers : a.rtn = 1 => a.call.name # Query(t)
  /\ \A t, u \in Threads :
       th[t].pc = "created" /\ th[u].pc = "created" /\ Query(t) = Query(u) => t = u
Answered(a) ==
  /\ Asks(work, a.call.name)
  /\ a.rtn = 1 => a.call.kind # "name"
  /\ a.call.kind # "name" /\ a.rtn # -1 =>
       \E i \in Buckets : \E p \in DOMAIN text :
         /\ Owns(i, p) /\ a.out = NumberAt(i)
         /\ IF a.rtn = 1 THEN text[p] = a.call.name ELSE <<a.call.name, text[p]>> \in PrefixOf
Answers ==
  /\ \A a \in answers : Answered(a)
  /\ \A a, b \in answers : a.rtn = 1 /\ b.rtn = 1 /\ a.call.name = b.call.name => a = b

Table ==
  /\ Locks /\ Places /\ Ordered /\ Single /\ Housed /\ Numbers /\ Inverses
Searches == \A t \in Threads : Passing(t) /\ Finds(t)
IInv == Typed /\ Table /\ Searches /\ Creating /\ Answers

------------------------------------------------------------------------------
(* The three arrays do not overlap: what a write of one word changes.      *)
Numerals == 0..MaxTypes-1

LEMMA Cells ==
  /\ \A i, j \in Buckets : FromName(i) = FromName(j) => i = j
  /\ \A i, j \in Buckets : ToInt(i) = ToInt(j) => i = j
  /\ \A i, j \in Buckets : FromName(i) # ToInt(j)
  /\ \A i \in Buckets : \A k \in Numerals : ToName(k) # FromName(i) /\ ToName(k) # ToInt(i)
  /\ \A i \in Buckets : FromName(i) \in 0..5 * MaxTypes - 1 /\ ToInt(i) \in 0..5 * MaxTypes - 1
  /\ \A k \in Numerals : ToName(k) \in 0..5 * MaxTypes - 1
  BY NamesOK DEF Buckets, Numerals, FromName, ToInt, ToName

LEMMA WriteBucket ==
  ASSUME TypeOK, NEW i \in Buckets, NEW v, word' = [word EXCEPT ![FromName(i)] = v]
  PROVE  /\ InBucket(i)' = v /\ \A j \in Buckets : j # i => InBucket(j)' = InBucket(j)
         /\ \A j \in Buckets : NumberAt(j)' = NumberAt(j)
         /\ \A k \in Numerals : PlaceOf(k)' = PlaceOf(k)
  BY Cells DEF TypeOK, InBucket, NumberAt, PlaceOf

LEMMA WriteNumber ==
  ASSUME TypeOK, NEW i \in Buckets, NEW v, word' = [word EXCEPT ![ToInt(i)] = v]
  PROVE  /\ NumberAt(i)' = v /\ \A j \in Buckets : j # i => NumberAt(j)' = NumberAt(j)
         /\ \A j \in Buckets : InBucket(j)' = InBucket(j)
         /\ \A k \in Numerals : PlaceOf(k)' = PlaceOf(k)
  BY Cells DEF TypeOK, InBucket, NumberAt, PlaceOf

LEMMA WritePlace ==
  ASSUME TypeOK, NEW n \in Numerals, NEW v, word' = [word EXCEPT ![ToName(n)] = v]
  PROVE  /\ PlaceOf(n)' = v /\ \A k \in Numerals : k # n => PlaceOf(k)' = PlaceOf(k)
         /\ \A j \in Buckets : InBucket(j)' = InBucket(j) /\ NumberAt(j)' = NumberAt(j)
<1>1. \A k \in Numerals : ToName(k) = ToName(n) => k = n
  BY DEF ToName
<1> QED
  BY Cells, <1>1 DEF TypeOK, InBucket, NumberAt, PlaceOf

(* A search goes round the buckets.                                        *)
LEMMA Around ==
  ASSUME NEW h \in Buckets, NEW i \in Buckets, NEW j \in Buckets
  PROVE  /\ Between(h, i, j) \/ Between(h, j, i) \/ i = j
         /\ ~ Between(h, h, j)
         /\ Following(i) # h /\ Between(h, Following(i), j) => Between(h, i, j) \/ j = i
<1>1. /\ i \in Nat /\ j \in Nat /\ h \in Nat /\ i < 2 * MaxTypes /\ j < 2 * MaxTypes
      /\ h < 2 * MaxTypes /\ MaxTypes \in Nat
  BY BucketRange
<1>2. Following(i) = IF i + 1 = 2 * MaxTypes THEN 0 ELSE i + 1
  BY FollowingBucket
<1>3. ~ Between(h, h, j) /\ (Between(h, i, j) \/ Between(h, j, i) \/ i = j)
  BY <1>1 DEF Between
<1>4. CASE i + 1 = 2 * MaxTypes
  BY <1>1, <1>2, <1>3, <1>4 DEF Between
<1>5. CASE i + 1 # 2 * MaxTypes
  BY <1>1, <1>2, <1>3, <1>5 DEF Between
<1> QED
  BY <1>3, <1>4, <1>5

(* A bucket has one string, and none while it is being filled.             *)
LEMMA OwnerMarked ==
  ASSUME Typed, Locks, Places, NEW i \in Buckets, NEW p \in DOMAIN text, Owns(i, p)
  PROVE  /\ InBucket(i) # 0
         /\ InBucket(i) = MARKER => \E t \in Threads :
              th[t].pc \in {"again", "hung"} /\ th[t].index = i /\ th[t].place = p
         /\ InBucket(i) # MARKER => InBucket(i) = p
<1>1. p \in Nat /\ p > 0 /\ MARKER = -1
  BY DEF Typed, TypeOK, Places, MARKER
<1>2. CASE word[FromName(i)] = p
  BY <1>1, <1>2 DEF InBucket
<1>3. CASE \E t \in Threads : th[t].pc \in {"again", "hung"} /\ th[t].index = i /\ th[t].place = p
  BY <1>1, <1>3 DEF Locks, HoldPcs
<1> QED
  BY <1>2, <1>3 DEF Owns

LEMMA OneOwner ==
  ASSUME Typed, Locks, Places, NEW i \in Buckets, NEW p \in DOMAIN text, NEW q \in DOMAIN text,
         Owns(i, p), Owns(i, q)
  PROVE  p = q
<1>1. CASE InBucket(i) = MARKER
  <2>1. PICK t \in Threads : th[t].pc \in {"again", "hung"} /\ th[t].index = i /\ th[t].place = p
    BY <1>1, OwnerMarked
  <2>2. PICK u \in Threads : th[u].pc \in {"again", "hung"} /\ th[u].index = i /\ th[u].place = q
    BY <1>1, OwnerMarked
  <2> QED
    BY <2>1, <2>2 DEF Locks, HoldPcs
<1>2. CASE InBucket(i) # MARKER
  BY <1>2, OwnerMarked
<1> QED
  BY <1>1, <1>2

LEMMA FilledByOne ==
  ASSUME Typed, Locks, Places, NEW t \in Threads, th[t].pc \in FillPcs
  PROVE  /\ th[t].index \in Buckets
         /\ \A p \in DOMAIN text : ~ Owns(th[t].index, p)
         /\ \A u \in Threads : th[u].pc \in HoldPcs /\ th[u].index = th[t].index => u = t
<1>1. th[t].index \in Buckets
  BY DEF Typed, TypeOK
<1>2. InBucket(th[t].index) = MARKER
  BY DEF Locks, HoldPcs
<1>3. \A u \in Threads : th[u].pc \in HoldPcs /\ th[u].index = th[t].index => u = t
  BY DEF Locks, HoldPcs
<1>4. \A p \in DOMAIN text : ~ Owns(th[t].index, p)
  <2> SUFFICES ASSUME NEW p \in DOMAIN text, Owns(th[t].index, p) PROVE FALSE
    OBVIOUS
  <2>1. PICK u \in Threads : th[u].pc \in {"again", "hung"} /\ th[u].index = th[t].index
    BY <1>1, <1>2, OwnerMarked
  <2> QED
    BY <1>3, <2>1 DEF HoldPcs, FillPcs
<1> QED
  BY <1>1, <1>3, <1>4

------------------------------------------------------------------------------
(* A workload creates finitely many strings.                               *)
LEMMA CreatedFinite ==
  ASSUME NEW w \in Workloads
  PROVE  IsFiniteSet(CreatedNames(w))
<1> DEFINE Of(p) == {w[p][i].name : i \in DOMAIN w[p]}
           All   == {Of(p) : p \in DOMAIN w}
<1>1. w \in Seq(Seq(Calls)) /\ DOMAIN w = 1..Len(w) /\ Len(w) \in Nat
  BY NamesOK
<1>2. \A p \in DOMAIN w : w[p] \in Seq(Calls)
  BY <1>1
<1>3. \A p \in DOMAIN w : IsFiniteSet(Of(p))
  <2> TAKE p \in DOMAIN w
  <2> DEFINE f == [i \in DOMAIN w[p] |-> w[p][i].name]
  <2>1. DOMAIN w[p] = 1..Len(w[p]) /\ Len(w[p]) \in Nat
    BY <1>2
  <2>2. IsFiniteSet(DOMAIN w[p])
    BY <2>1, FS_Interval
  <2>3. f \in Surjection(DOMAIN w[p], Of(p))
    BY DEF Surjection
  <2> QED
    BY <2>2, <2>3, FS_Surjection
<1>4. IsFiniteSet(All)
  <2> DEFINE g == [p \in DOMAIN w |-> Of(p)]
  <2>1. IsFiniteSet(DOMAIN w)
    BY <1>1, FS_Interval
  <2>2. g \in Surjection(DOMAIN w, All)
    BY DEF Surjection
  <2> QED
    BY <2>1, <2>2, FS_Surjection
<1>5. \A T \in All : IsFiniteSet(T)
  BY <1>3
<1> HIDE DEF All
<1>6. IsFiniteSet(UNION All)
  BY <1>4, <1>5, FS_UNION
<1>7. CreatedNames(w) \subseteq UNION All
  BY DEF CreatedNames, Creates, All
<1> QED
  BY <1>6, <1>7, FS_Subset

(* No workload creates more strings than there are numbers.                *)
RoomForAll == \A w \in Workloads : Cardinality(CreatedNames(w)) <= MaxTypes

LEMMA Roomy ==
  ASSUME RoomForAll, Typed, Numbers
  PROVE  /\ next_type <= MaxTypes /\ next_type \in Nat
         /\ \A i \in Buckets : Numbered(i) => NumberAt(i) \in Numerals
<1>1. work \in Workloads /\ next_type \in Nat /\ MaxTypes \in Nat
  BY NamesOK DEF Typed, TypeOK
<1>2. StoredNames \subseteq CreatedNames(work)
  BY DEF Typed, TypeOK, Numbers, StoredNames, CreatedNames
<1>3. IsFiniteSet(CreatedNames(work))
  BY <1>1, CreatedFinite
<1>4. /\ Cardinality(StoredNames) <= Cardinality(CreatedNames(work))
      /\ Cardinality(CreatedNames(work)) \in Nat
  BY <1>2, <1>3, FS_Subset, FS_CardinalityType
<1>5. next_type <= MaxTypes
  BY <1>1, <1>4 DEF RoomForAll, Numbers
<1> QED
  BY <1>1, <1>5 DEF Numbers, Numerals

------------------------------------------------------------------------------
(* What a step keeps.  Grows: no bucket loses its string or its number.    *)
(* Kept: nothing is stored either.                                         *)
Grows ==
  /\ work' = work
  /\ \A p \in DOMAIN text : p \in DOMAIN text' /\ text'[p] = text[p]
  /\ \A i \in Buckets : \A p \in DOMAIN text :
       Owns(i, p) => Owns(i, p)' /\ NumberAt(i)' = NumberAt(i)

Kept ==
  /\ work' = work /\ text' = text /\ next_type' = next_type
  /\ \A i \in Buckets : \A p \in DOMAIN text : Owns(i, p)' <=> Owns(i, p)
  /\ \A i \in Buckets : NumberAt(i)' = NumberAt(i)
  /\ \A k \in Numerals : PlaceOf(k)' = PlaceOf(k)
  /\ \A u \in Threads : th'[u].pc \in LatePcs <=> th[u].pc \in LatePcs
  /\ \A u \in Threads : th[u].pc \in LatePcs => th'[u] = th[u]

(* No bucket is filled with another string than before.                    *)
NoFill == \A i \in Buckets : \A n \in Names : Fills(i, n)' => Fills(i, n)

(* Thread u searches on where it was.                                      *)
Searching(u) ==
  th'[u].pc \in SearchPcs =>
    th[u].pc \in SearchPcs /\ th'[u].index = th[u].index /\ Query(u)' = Query(u)

LEMMA KeptGrows == ASSUME Kept PROVE Grows
  BY DEF Kept, Grows

LEMMA PassingKept ==
  ASSUME Grows, NEW u \in Threads, Passing(u), Searching(u)
  PROVE  Passing(u)'
<1> SUFFICES ASSUME th'[u].pc \in SearchPcs, NEW j \in Buckets,
                    Between(Hash[Query(u)], th[u].index, j)'
             PROVE  (\E p \in DOMAIN text : Owns(j, p) /\ <<Query(u), text[p]>> \notin PrefixOf)'
  BY DEF Passing
<1>1. th[u].pc \in SearchPcs /\ th'[u].index = th[u].index /\ Query(u)' = Query(u)
  BY DEF Searching
<1>2. Between(Hash[Query(u)], th[u].index, j)
  BY <1>1 DEF Between
<1>3. PICK p \in DOMAIN text : Owns(j, p) /\ <<Query(u), text[p]>> \notin PrefixOf
  BY <1>1, <1>2 DEF Passing
<1> QED
  BY <1>1, <1>3 DEF Grows

LEMMA KeptOrdered ==
  ASSUME Kept, Ordered
  PROVE  Ordered'
<1> SUFFICES ASSUME NEW i \in Buckets, NEW p \in DOMAIN text, Owns(i, p),
                    NEW j \in Buckets, Between(Hash[text[p]], i, j)
             PROVE  \E q \in DOMAIN text : Owns(j, q)' /\ <<text[p], text[q]>> \notin PrefixOf
  BY DEF Kept, Ordered, Between
<1> QED
  BY DEF Kept, Ordered

LEMMA KeptSingle ==
  ASSUME Kept, NoFill, Single
  PROVE  Single'
<1>1. \A i \in Buckets : \A n \in Names : Has(i, n)' => Has(i, n)
  BY DEF Kept, NoFill, Has, Keeps
<1> QED
  BY <1>1 DEF Single

LEMMA KeptHoused ==
  ASSUME Kept, Housed
  PROVE  Housed'
<1> SUFFICES ASSUME NEW p \in DOMAIN text PROVE (\E i \in Buckets : Owns(i, p))' \/
               (\E t \in Threads : th[t].pc \in LatePcs /\ th[t].place = p)'
  BY DEF Housed, Kept
<1>1. CASE \E i \in Buckets : Owns(i, p)
  BY <1>1 DEF Kept
<1>2. CASE \E t \in Threads : th[t].pc \in LatePcs /\ th[t].place = p
  BY <1>2 DEF Kept
<1> QED
  BY <1>1, <1>2 DEF Housed

LEMMA KeptNumbers ==
  ASSUME Kept, Numbers
  PROVE  Numbers'
<1>1. \A i \in Buckets : Numbered(i)' <=> Numbered(i)
  BY DEF Kept, Numbered
<1>2. StoredNames' = StoredNames /\ work' = work /\ next_type' = next_type
  BY DEF Kept, StoredNames
<1>3. \A i \in Buckets : NumberAt(i)' = NumberAt(i)
  BY DEF Kept
<1>4. (IsFiniteSet(StoredNames) /\ next_type = Cardinality(StoredNames))'
  BY <1>2 DEF Numbers
<1>5. \A n \in StoredNames' : Creates(work, n)'
  BY <1>2 DEF Numbers, Creates
<1> QED
  BY <1>1, <1>2, <1>3, <1>4, <1>5 DEF Numbers

LEMMA KeptInverses ==
  ASSUME Kept, Inverses, \A i \in Buckets : Numbered(i) => NumberAt(i) \in Numerals,
         \A t \in Threads : th[t].index \in Buckets
  PROVE  Inverses'
<1>1. ASSUME NEW i \in Buckets, NEW p \in DOMAIN text, Owns(i, p)
      PROVE  PlaceOf(NumberAt(i))' = p
  <2>1. NumberAt(i) \in Numerals /\ PlaceOf(NumberAt(i)) = p
    BY <1>1 DEF Numbered, Inverses
  <2>2. NumberAt(i)' = NumberAt(i)
    BY DEF Kept
  <2>3. PlaceOf(NumberAt(i)') = PlaceOf(NumberAt(i))
    BY <2>2
  <2> QED
    BY <2>1, <2>2 DEF Kept, PlaceOf
<1>2. ASSUME NEW t \in Threads, th'[t].pc = "publish"
      PROVE  PlaceOf(NumberAt(th[t].index))' = th'[t].place
  <2>1. th'[t] = th[t] /\ th[t].pc = "publish" /\ th[t].index \in Buckets
    BY <1>2 DEF Kept, LatePcs
  <2>2. NumberAt(th[t].index) \in Numerals /\ PlaceOf(NumberAt(th[t].index)) = th[t].place
    BY <2>1 DEF Numbered, Inverses, LatePcs
  <2> DEFINE i == th[t].index
  <2>3. NumberAt(i)' = NumberAt(i)
    BY <2>1 DEF Kept, NumberAt
  <2> QED
    BY <2>1, <2>2, <2>3 DEF Kept, PlaceOf
<1> QED
  BY <1>1, <1>2 DEF Inverses, Kept

------------------------------------------------------------------------------
(* Steps that leave the table as it is: what threads that have a bucket    *)
(* locked know is not touched.                                             *)
Rests(u) == th'[u] = th[u] /\ Query(u)' = Query(u)

Calm ==
  /\ UNCHANGED <<work, word, text, next_string, next_type>>
  /\ \A u \in Threads : th[u].pc \in HoldPcs \/ th'[u].pc \in HoldPcs => Rests(u)
  /\ \A u \in Threads : th'[u].pc = "compare" => InBucket(th'[u].index) # 0

LEMMA OthersRest ==
  ASSUME Typed, NEW t \in Threads, Step(t)
  PROVE  /\ work' = work /\ phase' = phase
         /\ \A u \in Threads : u # t => Rests(u)
<1> DEFINE Goal == work' = work /\ phase' = phase
           Only == \A u \in Threads : u # t => th'[u] = th[u]
<1>1. \A r : th' = [th EXCEPT ![t] = r] => Only
  BY DEF Typed, TypeOK
<1>2. \A rtn, out : Answer(t, rtn, out) => Goal /\ Only
  BY <1>1 DEF Answer
<1>3. \A to : Move(t, to) => Only
  <2> TAKE to
  <2>1. Move(t, to) => th' = [th EXCEPT ![t] = [th[t] EXCEPT !.pc = to]]
    BY DEF Move
  <2> QED
    BY <1>1, <2>1
<1>4. UNCHANGED callVars => Goal
  BY DEF callVars
<1>5. Advances(t) => Goal /\ Only
  BY <1>1 DEF Advances, callVars
<1>6. \A p, to : TakesPlace(t, p, to) => Goal /\ Only
  <2> TAKE p, to
  <2>1. [th EXCEPT ![t].place = p, ![t].pc = to] =
        [th EXCEPT ![t] = [th[t] EXCEPT !.place = p, !.pc = to]]
    OBVIOUS
  <2> QED
    BY <1>1, <2>1 DEF TakesPlace, callVars
<1> HIDE DEF Only
<1>7. \A i \in DOMAIN res : Take(t, i) => Goal /\ Only
  BY TakeTyped DEF Take, Only
<1>8. Room(t) => Goal /\ Only
  BY <1>2, <1>3, <1>4 DEF Room
<1>9. Probe(t) => Goal /\ Only
  BY <1>2, <1>3, <1>4 DEF Probe
<1>10. Compare(t) => Goal /\ Only
  BY <1>2, <1>3, <1>4, <1>5, NextBucketIs DEF Compare
<1>11. Found(t) => Goal /\ Only
  BY <1>2 DEF Found
<1>12. Claim(t) => Goal /\ Only
  BY <1>6 DEF Claim, TakesPlace
<1>13. Again(t) => Goal /\ Only
  BY <1>3, <1>4 DEF Again
<1>14. Reserve(t) => Goal /\ Only
  BY <1>2, <1>6 DEF Reserve, TakesPlace
<1>15. (Number(t) => Goal /\ Only) /\ (Invert(t) => Goal /\ Only) /\ (Publish(t) => Goal /\ Only)
  BY <1>3, <1>4 DEF Number, Invert, Publish
<1>16. (Created(t) => Goal /\ Only) /\ (LookupName(t) => Goal /\ Only)
  BY <1>2 DEF Created, LookupName
<1>17. Goal /\ Only
  BY <1>7, <1>8, <1>9, <1>10, <1>11, <1>12, <1>13, <1>14, <1>15, <1>16 DEF Step
<1> QED
  BY <1>17 DEF Only, Rests, Query, Call

LEMMA CalmKept ==
  ASSUME Calm
  PROVE  Kept /\ NoFill
<1> USE DEF HoldPcs, FillPcs, LatePcs
<1>1. \A i \in Buckets : \A p \in DOMAIN text : Owns(i, p)' <=> Owns(i, p)
  BY DEF Calm, Rests, Owns
<1>2. NoFill
  BY DEF NoFill, Calm, Rests, Fills
<1>3. Kept
  BY <1>1 DEF Kept, Calm, Rests, NumberAt, PlaceOf
<1> QED
  BY <1>2, <1>3

(* What Kept leaves of the table.                                          *)
LEMMA KeptTable ==
  ASSUME RoomForAll, Typed, Table, Kept
  PROVE  Ordered' /\ Housed' /\ Numbers' /\ Inverses' /\ (NoFill => Single')
<1>1. \A i \in Buckets : Numbered(i) => NumberAt(i) \in Numerals
  BY Roomy DEF Table
<1>2. \A t \in Threads : th[t].index \in Buckets
  BY DEF Typed, TypeOK
<1> QED
  BY <1>1, <1>2, KeptOrdered, KeptHoused, KeptNumbers, KeptInverses, KeptSingle DEF Table

LEMMA CalmTable ==
  ASSUME RoomForAll, Typed, Table, Calm
  PROVE  Table' /\ Grows
<1>1. Locks'
  BY DEF Table, Locks, Calm, Rests, InBucket
<1>2. Places'
  <2>1. \A i \in Buckets : InBucket(i)' = InBucket(i)
    BY DEF Calm, InBucket
  <2>2. ASSUME NEW u \in Threads
        PROVE  /\ (th[u].pc = "compare" => InBucket(th[u].index) # 0)'
               /\ (th[u].pc = "number" =>
                     /\ 0 < th[u].place /\ th[u].place < next_string
                     /\ th[u].place \notin DOMAIN text)'
               /\ (th[u].pc \in {"again", "hung"} \cup LatePcs => th[u].place \in DOMAIN text)'
               /\ (th[u].pc \in LatePcs => text[th[u].place] = Query(u))'
    <3>1. (th[u].pc = "compare" => InBucket(th[u].index) # 0)'
      BY DEF Calm, InBucket
    <3>2. CASE th'[u].pc \in HoldPcs
      BY <3>1, <3>2 DEF Table, Places, Calm, Rests, HoldPcs, FillPcs, LatePcs
    <3>3. CASE th'[u].pc \notin HoldPcs
      BY <3>1, <3>3 DEF HoldPcs, FillPcs, LatePcs
    <3> QED
      BY <3>2, <3>3
  <2>3. \A u, x \in Threads : (th[u].pc = "number" /\ th[x].pc = "number" /\
            th[u].place = th[x].place => u = x)'
    BY DEF Table, Places, Calm, Rests, HoldPcs, FillPcs
  <2> QED
    BY <2>1, <2>2, <2>3 DEF Table, Places, Calm
<1> QED
  BY <1>1, <1>2, CalmKept, KeptTable, KeptGrows DEF Table

(* What the steps without effect on the table do with their thread.        *)
Aside(t) ==
  /\ UNCHANGED <<work, word, text, next_string, next_type>>
  /\ th[t].pc \notin HoldPcs /\ th'[t].pc \notin HoldPcs
  /\ th'[t].pc = "compare" => InBucket(th'[t].index) # 0
  /\ \A u \in Threads : u # t => Rests(u)

LEMMA AsideCalm ==
  ASSUME Places, NEW t \in Threads, Aside(t)
  PROVE  Calm
<1> SUFFICES ASSUME NEW u \in Threads
             PROVE  /\ th[u].pc \in HoldPcs \/ th'[u].pc \in HoldPcs => Rests(u)
                    /\ th'[u].pc = "compare" => InBucket(th'[u].index) # 0
  BY DEF Aside, Calm
<1>1. CASE u = t
  BY <1>1 DEF Aside
<1>2. CASE u # t
  BY <1>2 DEF Aside, Rests, Places
<1> QED
  BY <1>1, <1>2

(* The outcomes of those steps.                                            *)
LEMMA TakeAside ==
  ASSUME Typed, NEW t \in Threads, NEW i \in DOMAIN res, Take(t, i)
  PROVE  /\ Aside(t) /\ answers' = answers
         /\ th'[t].pc \in {"room", "probe", "inverse"} /\ th'[t].index = Hash[Query(t)]'
<1> USE DEF HoldPcs, FillPcs
<1>1. /\ th[t].pc = "idle" /\ UNCHANGED <<work, phase, answers, word, storeVars>>
  BY DEF Take, At
<1>2. th'[t].op = i /\ th'[t].index = Hash[work[phase][i].name]
  BY TakeTyped
<1>3. phase \in DOMAIN work /\ i \in DOMAIN work[phase] /\ work \in Seq(Seq(Calls))
  BY NamesOK DEF Typed, TypeOK, Begun
<1>4. work[phase][i] \in Calls
  BY <1>3
<1>5. th'[t].pc \in {"room", "probe", "inverse"}
  BY <1>4, TakeTyped DEF Calls
<1>6. th'[t].index = Hash[Query(t)]'
  BY <1>1, <1>2 DEF Query, Call
<1>7. \A u \in Threads : u # t => Rests(u)
  BY OthersRest DEF Step
<1> QED
  BY <1>1, <1>5, <1>6, <1>7 DEF Aside, storeVars

LEMMA RoomAside ==
  ASSUME Typed, NEW t \in Threads, Room(t)
  PROVE  /\ Aside(t) /\ th[t].pc = "room"
         /\ \/ Answer(t, -1, 0) /\ th'[t].pc = "idle"
            \/ /\ answers' = answers /\ th'[t].pc = "probe" /\ th'[t].index = th[t].index
               /\ Query(t)' = Query(t)
<1> USE DEF HoldPcs, FillPcs
<1>1. th[t].pc = "room" /\ UNCHANGED <<word, storeVars>>
  BY DEF Room, At
<1>2. /\ work' = work /\ phase' = phase /\ \A u \in Threads : u # t => Rests(u)
  BY OthersRest DEF Step
<1>3. CASE Answer(t, -1, 0)
  BY <1>1, <1>2, <1>3, AnswerDone DEF Aside, storeVars, Idle
<1>4. CASE Move(t, "probe") /\ UNCHANGED callVars
  <2>1. th'[t].pc = "probe" /\ th'[t].op = th[t].op /\ th'[t].index = th[t].index
    BY <1>4, MoveDone DEF Typed, ProgramCounters
  <2> QED
    BY <1>1, <1>2, <1>4, <2>1 DEF Aside, storeVars, callVars, Query, Call
<1> QED
  BY <1>3, <1>4 DEF Room

LEMMA ProbeAside ==
  ASSUME Typed, NEW t \in Threads, Probe(t)
  PROVE  /\ Aside(t) /\ th[t].pc = "probe"
         /\ \/ Answer(t, -1, 0) /\ th'[t].pc = "idle"
            \/ /\ answers' = answers /\ th'[t].pc \in {"compare", "claim"}
               /\ th'[t].index = th[t].index /\ Query(t)' = Query(t)
<1> USE DEF HoldPcs, FillPcs
<1>1. th[t].pc = "probe" /\ UNCHANGED <<word, storeVars>>
  BY DEF Probe, At
<1>2. /\ work' = work /\ phase' = phase /\ \A u \in Threads : u # t => Rests(u)
  BY OthersRest DEF Step
<1>3. CASE Answer(t, -1, 0)
  BY <1>1, <1>2, <1>3, AnswerDone DEF Aside, storeVars, Idle
<1>4. CASE Stored(t) # 0 /\ Move(t, "compare") /\ UNCHANGED callVars
  <2>1. th'[t].pc = "compare" /\ th'[t].op = th[t].op /\ th'[t].index = th[t].index
    BY <1>4, MoveDone DEF Typed, ProgramCounters
  <2> QED
    BY <1>1, <1>2, <1>4, <2>1 DEF Aside, storeVars, callVars, Query, Call, Stored, InBucket
<1>5. CASE Move(t, "claim") /\ UNCHANGED callVars
  <2>1. th'[t].pc = "claim" /\ th'[t].op = th[t].op /\ th'[t].index = th[t].index
    BY <1>5, MoveDone DEF Typed, ProgramCounters
  <2> QED
    BY <1>1, <1>2, <1>5, <2>1 DEF Aside, storeVars, callVars, Query, Call
<1> QED
  BY <1>3, <1>4, <1>5 DEF Probe

LEMMA CompareAside ==
  ASSUME Typed, NEW t \in Threads, Compare(t)
  PROVE  /\ Aside(t) /\ th[t].pc = "compare" /\ Stored(t) # MARKER
         /\ \/ Answer(t, -1, 0) /\ th'[t].pc = "idle"
            \/ /\ answers' = answers /\ th'[t].pc = "found" /\ Matches(Query(t), Stored(t))
               /\ th'[t].index = th[t].index /\ Query(t)' = Query(t)
            \/ /\ answers' = answers /\ th'[t].pc = "probe" /\ ~ Matches(Query(t), Stored(t))
               /\ Following(th[t].index) # Hash[Query(t)]
               /\ th'[t].index = Following(th[t].index) /\ Query(t)' = Query(t)
<1> USE DEF HoldPcs, FillPcs
<1>1. th[t].pc = "compare" /\ UNCHANGED <<word, storeVars>> /\ Stored(t) # MARKER
  BY DEF Compare, At
<1>2. /\ work' = work /\ phase' = phase /\ \A u \in Threads : u # t => Rests(u)
  BY OthersRest DEF Step
<1>3. CASE Answer(t, -1, 0)
  BY <1>1, <1>2, <1>3, AnswerDone DEF Aside, storeVars, Idle
<1>4. CASE Matches(Query(t), Stored(t)) /\ Move(t, "found") /\ UNCHANGED callVars
  <2>1. th'[t].pc = "found" /\ th'[t].op = th[t].op /\ th'[t].index = th[t].index
    BY <1>4, MoveDone DEF Typed, ProgramCounters
  <2> QED
    BY <1>1, <1>2, <1>4, <2>1 DEF Aside, storeVars, callVars, Query, Call
<1>5. CASE ~ Matches(Query(t), Stored(t)) /\ Advances(t)
  <2>1. /\ th'[t].pc = "probe" /\ th'[t].op = th[t].op
        /\ th'[t].index = Following(th[t].index)
    BY <1>1, <1>5, AdvanceTyped
  <2>2. Following(th[t].index) # Hash[Query(t)] /\ answers' = answers
    BY <1>5 DEF Advances, callVars
  <2> QED
    BY <1>1, <1>2, <1>5, <2>1, <2>2 DEF Aside, storeVars, Query, Call
<1> QED
  BY <1>3, <1>4, <1>5, NextBucketIs DEF Compare

LEMMA AnswerAside ==
  ASSUME Typed, NEW t \in Threads, Found(t) \/ Created(t) \/ LookupName(t)
  PROVE  /\ Aside(t) /\ th'[t].pc = "idle"
<1> USE DEF HoldPcs, FillPcs
<1>1. /\ th[t].pc \in {"found", "created", "inverse"} /\ UNCHANGED <<word, storeVars>>
      /\ \E rtn, out : Answer(t, rtn, out)
  BY DEF Found, Created, LookupName, At
<1>2. /\ work' = work /\ phase' = phase /\ \A u \in Threads : u # t => Rests(u)
  BY OthersRest DEF Step
<1>3. th'[t].pc = "idle"
  BY <1>1 DEF Answer, Idle, Typed, TypeOK
<1> QED
  BY <1>1, <1>2, <1>3 DEF Aside, storeVars

------------------------------------------------------------------------------
(* The steps of a creation in the bucket that it has found empty, and of   *)
(* one that finds it filled.                                               *)
Onward(t, p, to) ==
  /\ th'[t].pc = to /\ th'[t].index = th[t].index /\ th'[t].place = p
  /\ Query(t)' = Query(t) /\ answers' = answers /\ work' = work
  /\ \A u \in Threads : u # t => Rests(u)

LEMMA MoveOn ==
  ASSUME Typed, NEW t \in Threads, NEW to \in ProgramCounters, Step(t),
         Move(t, to), UNCHANGED callVars
  PROVE  Onward(t, th[t].place, to)
<1>1. /\ th'[t].pc = to /\ th'[t].op = th[t].op
      /\ th'[t].index = th[t].index /\ th'[t].place = th[t].place
  BY MoveDone DEF Typed
<1> QED
  BY <1>1, OthersRest DEF Onward, callVars, Query, Call

LEMMA PlaceOn ==
  ASSUME Typed, NEW t \in Threads, NEW to, NEW p, Step(t), TakesPlace(t, p, to)
  PROVE  Onward(t, p, to)
<1>1. th' = [th EXCEPT ![t] = [th[t] EXCEPT !.place = p, !.pc = to]]
  <2>1. [th EXCEPT ![t].place = p, ![t].pc = to] =
        [th EXCEPT ![t] = [th[t] EXCEPT !.place = p, !.pc = to]]
    OBVIOUS
  <2> QED
    BY <2>1 DEF TakesPlace
<1> DEFINE r == [th[t] EXCEPT !.place = p, !.pc = to]
<1>2. r.pc = to /\ r.place = p /\ r.op = th[t].op /\ r.index = th[t].index
  BY DEF Typed, TypeOK
<1> HIDE DEF r
<1>3. th'[t] = r
  BY <1>1 DEF Typed, TypeOK, r
<1> QED
  BY <1>2, <1>3, OthersRest DEF Onward, TakesPlace, callVars, Query, Call

(* A locked bucket stays locked, by the same thread or by nobody.          *)
LEMMA LocksKept ==
  ASSUME Locks, \A i \in Buckets : InBucket(i)' = InBucket(i),
         \A t \in Threads : th[t].index \in Buckets,
         \A t \in Threads : th'[t].pc \in HoldPcs =>
           th[t].pc \in HoldPcs /\ th'[t].index = th[t].index
  PROVE  Locks'
<1>1. ASSUME NEW t \in Threads, th'[t].pc \in HoldPcs
      PROVE  InBucket(th[t].index)' = MARKER
  <2>1. InBucket(th[t].index) = MARKER /\ th[t].index \in Buckets /\ th'[t].index = th[t].index
    BY <1>1 DEF Locks
  <2> QED
    BY <2>1 DEF InBucket
<1>2. \A t, u \in Threads :
       th'[t].pc \in HoldPcs /\ th'[u].pc \in HoldPcs /\ th'[t].index = th'[u].index => t = u
  BY DEF Locks
<1> QED
  BY <1>1, <1>2 DEF Locks

LEMMA ReserveTable ==
  ASSUME RoomForAll, Typed, Table, NEW t \in Threads, Reserve(t)
  PROVE  /\ Table' /\ Grows /\ th[t].pc = "reserve"
         /\ \A u \in Threads : u # t => Rests(u)
         /\ \/ Answer(t, -1, INT64_MAX) /\ th'[t].pc = "idle"
            \/ Onward(t, next_string, "number")
<1>1. /\ th[t].pc = "reserve" /\ UNCHANGED <<word, text, next_type>>
      /\ next_string' = next_string + Length[Query(t)] + 1
  BY DEF Reserve, At
<1>2. /\ work' = work /\ phase' = phase /\ \A u \in Threads : u # t => Rests(u)
  BY OthersRest DEF Step
<1>3. next_string \in Nat /\ Length[Query(t)] \in Nat /\ next_string < next_string'
  BY <1>1, CallOf, NamesOK DEF Typed, TypeOK
<1>4. \/ Answer(t, -1, INT64_MAX) /\ th'[t].pc = "idle"
      \/ Onward(t, next_string, "number")
  <2>1. CASE Answer(t, -1, INT64_MAX)
    BY <1>1, <2>1, AnswerDone DEF Idle, INT64_MAX
  <2>2. CASE TakesPlace(t, next_string, "number")
    BY <2>2, PlaceOn DEF Step
  <2> QED
    BY <2>1, <2>2 DEF Reserve, TakesPlace
<1>5. /\ th'[t].pc \in {"idle", "number"}
      /\ th'[t].pc = "number" => th'[t].index = th[t].index /\ th'[t].place = next_string /\
                                 Query(t)' = Query(t)
  BY <1>4 DEF Onward
<1>6. /\ \A i \in Buckets : InBucket(i)' = InBucket(i) /\ NumberAt(i)' = NumberAt(i)
      /\ \A k \in Numerals : PlaceOf(k)' = PlaceOf(k)
  BY <1>1 DEF InBucket, NumberAt, PlaceOf
<1> USE DEF HoldPcs, FillPcs, LatePcs
<1>7. \A i \in Buckets : \A p \in DOMAIN text : Owns(i, p)' <=> Owns(i, p)
  BY <1>1, <1>2, <1>5 DEF Owns, Rests
<1>8. NoFill
  <2> SUFFICES ASSUME NEW i \in Buckets, NEW n \in Names, NEW u \in Threads,
                      th'[u].pc \in FillPcs, th'[u].index = i, Query(u)' = n
               PROVE  Fills(i, n)
    BY DEF NoFill, Fills
  <2>1. th[u].pc \in FillPcs /\ th[u].index = i /\ Query(u) = n
    BY <1>1, <1>2, <1>5 DEF Rests
  <2> QED
    BY <2>1 DEF Fills
<1>9. Kept
  BY <1>1, <1>2, <1>5, <1>6, <1>7 DEF Kept, Rests
<1>10. Locks'
  BY <1>1, <1>2, <1>5, <1>6, LocksKept DEF Table, Rests, Typed, TypeOK
<1>11. Places'
  <2>1. next_string' > 0 /\ \A p \in DOMAIN text' : 0 < p /\ p < next_string'
    BY <1>1, <1>3 DEF Table, Places, Typed, TypeOK
  <2>2. \A i \in Buckets : InBucket(i)' \in {0, MARKER} \cup DOMAIN text'
    BY <1>1, <1>6 DEF Table, Places
  <2>3. ASSUME NEW u \in Threads
        PROVE  /\ (th[u].pc = "compare" => InBucket(th[u].index) # 0)'
               /\ (th[u].pc = "number" =>
                     /\ 0 < th[u].place /\ th[u].place < next_string
                     /\ th[u].place \notin DOMAIN text)'
               /\ (th[u].pc \in {"again", "hung"} \cup LatePcs => th[u].place \in DOMAIN text)'
               /\ (th[u].pc \in LatePcs => text[th[u].place] = Query(u))'
    <3>1. CASE u = t
      BY <1>1, <1>3, <1>5, <3>1 DEF Table, Places
    <3>2. CASE u # t
      <4>1. Rests(u) /\ (th[u].pc = "number" => th[u].place \in Nat)
        BY <1>2, <3>2 DEF Typed, Tasks
      <4>2. (th[u].pc = "compare" => InBucket(th[u].index) # 0)'
        BY <1>1, <4>1 DEF Rests, Table, Places, InBucket
      <4> QED
        BY <1>1, <1>3, <4>1, <4>2 DEF Rests, Table, Places
    <3> QED
      BY <3>1, <3>2
  <2>4. ASSUME NEW u \in Threads, NEW x \in Threads, th'[u].pc = "number", th'[x].pc = "number",
               th'[u].place = th'[x].place
        PROVE  u = x
    <3>1. ASSUME NEW y \in Threads, y # t, th'[y].pc = "number"
          PROVE  th'[y].place # next_string /\ th'[y] = th[y]
      <4>1. th'[y] = th[y]
        BY <1>2, <3>1 DEF Rests
      <4>2. th[y].place < next_string /\ th[y].place \in Nat
        BY <3>1, <4>1 DEF Table, Places, Typed, Tasks
      <4> QED
        BY <1>3, <4>1, <4>2
    <3>2. \A y \in Threads : th'[y].pc = "number" /\ y = t => th'[y].place = next_string
      BY <1>5
    <3> QED
      BY <2>4, <3>1, <3>2 DEF Table, Places
  <2> QED
    BY <2>1, <2>2, <2>3, <2>4 DEF Places
<1> QED
  BY <1>1, <1>2, <1>4, <1>8, <1>9, <1>10, <1>11, KeptTable, KeptGrows DEF Table

(* A search that finds an empty bucket shows that its string is nowhere:   *)
(* not before it, where all buckets have other strings, and not behind it, *)
(* where a stored string has no empty bucket before it.                    *)
LEMMA EmptyShows ==
  ASSUME Typed, Table, Searches, NEW t \in Threads, th[t].pc = "claim",
         InBucket(th[t].index) = 0, NEW j \in Buckets
  PROVE  ~ Has(j, Query(t))
<1> DEFINE i == th[t].index
           n == Query(t)
           h == Hash[n]
<1>1. i \in Buckets /\ h \in Buckets
  BY CallOf DEF Typed, TypeOK
<1>2. \A p \in DOMAIN text : ~ Owns(i, p)
  BY <1>1, OwnerMarked DEF Table
<1>3. \A u \in Threads : th[u].pc \in HoldPcs => th[u].index # i
  BY DEF Table, Locks, MARKER
<1>4. \A k \in Buckets : Between(h, i, k) => \E p \in DOMAIN text : Owns(k, p) /\ text[p] # n
  <2>1. n \in Names
    BY CallOf
  <2> QED
    BY <2>1, NamesOK DEF Searches, Passing, SearchPcs
<1>5. Between(h, i, j) \/ Between(h, j, i) \/ i = j
  BY <1>1, Around
<1>6. ASSUME NEW p \in DOMAIN text, Owns(j, p), text[p] = n PROVE FALSE
  <2>1. CASE Between(h, i, j)
    <3>1. PICK q \in DOMAIN text : Owns(j, q) /\ text[q] # n
      BY <1>4, <2>1
    <3> QED
      BY <1>6, <3>1, OneOwner DEF Table
  <2>2. CASE Between(h, j, i)
    BY <1>1, <1>2, <1>6, <2>2 DEF Table, Ordered
  <2>3. CASE i = j
    BY <1>2, <1>6, <2>3
  <2> QED
    BY <1>5, <2>1, <2>2, <2>3
<1>7. ASSUME NEW u \in Threads, th[u].pc \in FillPcs, th[u].index = j, Query(u) = n PROVE FALSE
  <2>1. CASE Between(h, i, j)
    BY <1>4, <1>7, <2>1, FilledByOne DEF Table
  <2>2. CASE Between(h, j, i)
    <3>1. Passing(u) /\ th[u].pc \in SearchPcs
      BY <1>7 DEF Searches, SearchPcs, HoldPcs
    <3>2. \E p \in DOMAIN text : Owns(i, p)
      BY <1>1, <1>7, <2>2, <3>1 DEF Passing
    <3> QED
      BY <1>2, <3>2
  <2>3. CASE i = j
    BY <1>3, <1>7, <2>3 DEF HoldPcs
  <2> QED
    BY <1>5, <2>1, <2>2, <2>3
<1> QED
  BY <1>6, <1>7 DEF Has, Keeps, Fills

LEMMA ClaimTable ==
  ASSUME RoomForAll, Typed, Table, Searches, NEW t \in Threads, Claim(t)
  PROVE  /\ Table' /\ Grows /\ th[t].pc = "claim"
         /\ \A u \in Threads : u # t => Rests(u)
         /\ \E p : Onward(t, p, "reserve") \/ Onward(t, p, "again")
<1>a. PICK i \in Buckets : i = th[t].index
  BY DEF Typed, TypeOK
<1>b. PICK s : s = InBucket(i)
  OBVIOUS
<1> DEFINE to == IF s = 0 THEN "reserve" ELSE "again"
<1>1. /\ th[t].pc = "claim" /\ s # MARKER /\ UNCHANGED storeVars
      /\ word' = [word EXCEPT ![FromName(i)] = MARKER]
      /\ TakesPlace(t, s, to)
  BY <1>a, <1>b DEF Claim, At, Stored, InBucket, TakesPlace
<1>2. Onward(t, s, to)
  BY <1>1, PlaceOn DEF Step
<1>3. Query(t) \in Names /\ \A u \in Threads : th[u].index \in Buckets
  BY <1>1, CallOf DEF Typed, TypeOK
<1>4. /\ InBucket(i)' = MARKER /\ \A j \in Buckets : j # i => InBucket(j)' = InBucket(j)
      /\ \A j \in Buckets : NumberAt(j)' = NumberAt(j)
      /\ \A k \in Numerals : PlaceOf(k)' = PlaceOf(k)
  BY <1>1, <1>3, WriteBucket DEF Typed
<1>5. \A u \in Threads : th[u].pc \in HoldPcs => th[u].index # i
  BY <1>1, <1>b DEF Table, Locks
<1>6. /\ s \in {0} \cup DOMAIN text /\ 0 \notin DOMAIN text /\ MARKER \notin DOMAIN text
      /\ MARKER # 0
  BY <1>1, <1>b DEF Table, Places, MARKER, Typed, TypeOK
<1>7. /\ th'[t].pc = to /\ th'[t].index = i /\ th'[t].place = s /\ Query(t)' = Query(t)
      /\ work' = work /\ \A u \in Threads : u # t => Rests(u)
      /\ to \in {"reserve", "again"} /\ (to = "again" <=> s # 0)
  BY <1>2, <1>a DEF Onward
<1> HIDE DEF to
<1> USE DEF HoldPcs, FillPcs, LatePcs
<1>8. \A j \in Buckets : \A p \in DOMAIN text : Owns(j, p)' <=> Owns(j, p)
  <2> TAKE j \in Buckets
  <2> TAKE p \in DOMAIN text
  <2>1. text' = text
    BY <1>1 DEF storeVars
  <2>2. CASE j = i
    <3>1. Owns(i, p) <=> s = p
      BY <1>5, <1>b DEF Owns, InBucket
    <3>2. Owns(i, p)' <=> s = p
      BY <1>4, <1>5, <1>6, <1>7, <2>1 DEF Owns, InBucket, Rests
    <3> QED
      BY <2>2, <3>1, <3>2
  <2>3. CASE j # i
    <3>1. InBucket(j)' = InBucket(j)
      BY <1>4, <2>3
    <3>2. Grips(j, p)' <=> Grips(j, p)
      BY <1>1, <1>7, <2>3 DEF Grips, Rests
    <3> QED
      BY <2>1, <3>1, <3>2 DEF Owns, InBucket, Grips
  <2> QED
    BY <2>2, <2>3
<1>9. Kept
  BY <1>1, <1>4, <1>7, <1>8 DEF Kept, storeVars, Rests
<1>10. Locks'
  <2>1. ASSUME NEW u \in Threads, th'[u].pc \in HoldPcs PROVE InBucket(th[u].index)' = MARKER
    <3>1. CASE u = t
      BY <1>4, <1>7, <3>1 DEF InBucket
    <3>2. CASE u # t
      <4>1. th'[u] = th[u] /\ th[u].index # i
        BY <1>5, <1>7, <2>1, <3>2 DEF Rests
      <4>2. InBucket(th[u].index) = MARKER
        BY <2>1, <4>1 DEF Table, Locks
      <4> QED
        BY <1>3, <1>4, <4>1, <4>2 DEF InBucket
    <3> QED
      BY <3>1, <3>2
  <2>2. \A u, x \in Threads : (th[u].pc \in HoldPcs /\ th[x].pc \in HoldPcs /\
            th[u].index = th[x].index => u = x)'
    BY <1>5, <1>7 DEF Rests, Table, Locks
  <2> QED
    BY <2>1, <2>2 DEF Locks
<1>11. Places'
  <2>1. text' = text /\ next_string' = next_string
    BY <1>1 DEF storeVars
  <2>2. \A j \in Buckets : InBucket(j)' \in {0, MARKER} \cup DOMAIN text
    BY <1>4 DEF Table, Places
  <2>3. ASSUME NEW u \in Threads
        PROVE  /\ (th[u].pc = "compare" => InBucket(th[u].index) # 0)'
               /\ (th[u].pc = "number" =>
                     /\ 0 < th[u].place /\ th[u].place < next_string
                     /\ th[u].place \notin DOMAIN text)'
               /\ (th[u].pc \in {"again", "hung"} \cup LatePcs => th[u].place \in DOMAIN text)'
               /\ (th[u].pc \in LatePcs => text[th[u].place] = Query(u))'
    <3>1. CASE u = t
      BY <1>6, <1>7, <2>1, <3>1
    <3>2. CASE u # t
      <4>1. (th[u].pc = "compare" => InBucket(th[u].index) # 0)'
        BY <1>3, <1>4, <1>6, <1>7, <3>2 DEF Rests, Table, Places, InBucket
      <4> QED
        BY <1>7, <2>1, <3>2, <4>1 DEF Rests, Table, Places
    <3> QED
      BY <3>1, <3>2
  <2>4. \A u, x \in Threads : (th[u].pc = "number" /\ th[x].pc = "number" /\
            th[u].place = th[x].place => u = x)'
    BY <1>7 DEF Table, Places, Rests
  <2> QED
    BY <2>1, <2>2, <2>3, <2>4 DEF Table, Places
<1>12. Single'
  <2>1. CASE s # 0
    <3>1. NoFill
      BY <1>7, <2>1 DEF NoFill, Fills, Rests
    <3> QED
      BY <1>9, <3>1, KeptTable
  <2>2. CASE s = 0
    <3>1. \A j \in Buckets : ~ Has(j, Query(t))
      BY <1>1, <1>a, <1>b, <2>2, EmptyShows
    <3>2. \A j \in Buckets : \A n \in Names : Has(j, n)' => Has(j, n) \/ (j = i /\ n = Query(t))
      <4> TAKE j \in Buckets
      <4> TAKE n \in Names
      <4>1. Keeps(j, n)' => Keeps(j, n)
        BY <1>9 DEF Kept, Keeps
      <4>2. Fills(j, n)' => Fills(j, n) \/ (j = i /\ n = Query(t))
        BY <1>7 DEF Fills, Rests
      <4> QED
        BY <4>1, <4>2 DEF Has
    <3> QED
      BY <3>1, <3>2 DEF Table, Single
  <2> QED
    BY <2>1, <2>2
<1>13. \E p : Onward(t, p, "reserve") \/ Onward(t, p, "again")
  BY <1>2, <1>7
<1> QED
  BY <1>1, <1>7, <1>9, <1>10, <1>11, <1>12, <1>13, KeptTable, KeptGrows DEF Table

LEMMA AgainTable ==
  ASSUME RoomForAll, Typed, Table, NEW t \in Threads, Again(t)
  PROVE  /\ Table' /\ Grows /\ th[t].pc = "again"
         /\ \A u \in Threads : u # t => Rests(u)
         /\ \/ Onward(t, th[t].place, "found") /\ Matches(Query(t), th[t].place)
            \/ Onward(t, th[t].place, "hung")
<1>a. PICK i \in Buckets : i = th[t].index
  BY DEF Typed, TypeOK
<1>b. PICK s : s = th[t].place
  OBVIOUS
<1>1. th[t].pc = "again" /\ UNCHANGED storeVars /\ UNCHANGED callVars
  BY DEF Again, At
<1>2. \/ /\ word' = [word EXCEPT ![FromName(i)] = s] /\ Onward(t, s, "found")
         /\ Matches(Query(t), s)
      \/ word' = word /\ Onward(t, s, "hung")
  <2>1. CASE Matches(Query(t), s)
    <3>1. Onward(t, s, "found")
      BY <1>1, <1>b, <2>1, MoveOn DEF Again, ProgramCounters, Step
    <3> QED
      BY <1>a, <1>b, <2>1, <3>1 DEF Again
  <2>2. CASE ~ Matches(Query(t), s)
    <3>1. Onward(t, s, "hung")
      BY <1>1, <1>b, <2>2, MoveOn DEF Again, ProgramCounters, Step
    <3> QED
      BY <1>b, <2>2, <3>1 DEF Again
  <2> QED
    BY <2>1, <2>2
<1>3. \A u \in Threads : th[u].index \in Buckets
  BY DEF Typed, TypeOK
<1>4. /\ InBucket(i)' = IF th'[t].pc = "found" THEN s ELSE MARKER
      /\ \A j \in Buckets : j # i => InBucket(j)' = InBucket(j)
      /\ \A j \in Buckets : NumberAt(j)' = NumberAt(j)
      /\ \A k \in Numerals : PlaceOf(k)' = PlaceOf(k)
  <2>1. CASE word' = [word EXCEPT ![FromName(i)] = s] /\ th'[t].pc = "found"
    BY <2>1, WriteBucket DEF Typed
  <2>2. CASE word' = word /\ th'[t].pc = "hung"
    <3>1. InBucket(i) = MARKER
      BY <1>1, <1>a DEF Table, Locks, HoldPcs
    <3> QED
      BY <2>2, <3>1 DEF InBucket, NumberAt, PlaceOf
  <2> QED
    BY <1>2, <2>1, <2>2 DEF Onward
<1>5. /\ InBucket(i) = MARKER
      /\ \A u \in Threads : u # t /\ th[u].pc \in HoldPcs => th[u].index # i
  BY <1>1, <1>a DEF Table, Locks, HoldPcs
<1>6. s \in DOMAIN text /\ 0 \notin DOMAIN text /\ MARKER \notin DOMAIN text /\ MARKER # 0
  BY <1>1, <1>b DEF Table, Places, MARKER, Typed, TypeOK
<1>7. /\ th'[t].pc \in {"found", "hung"} /\ th'[t].index = i /\ th'[t].place = s
      /\ Query(t)' = Query(t) /\ work' = work /\ \A u \in Threads : u # t => Rests(u)
  BY <1>2, <1>a DEF Onward
<1> USE DEF HoldPcs, FillPcs, LatePcs
<1>8. \A j \in Buckets : \A p \in DOMAIN text : Owns(j, p)' <=> Owns(j, p)
  <2> TAKE j \in Buckets
  <2> TAKE p \in DOMAIN text
  <2>1. text' = text
    BY <1>1 DEF storeVars
  <2>2. CASE j = i
    <3>1. Owns(i, p) <=> s = p
      BY <1>1, <1>5, <1>6, <1>a, <1>b DEF Owns, InBucket
    <3>2. Owns(i, p)' <=> s = p
      BY <1>4, <1>5, <1>6, <1>7, <2>1 DEF Owns, InBucket, Rests
    <3> QED
      BY <2>2, <3>1, <3>2
  <2>3. CASE j # i
    <3>1. InBucket(j)' = InBucket(j)
      BY <1>4, <2>3
    <3>2. Grips(j, p)' <=> Grips(j, p)
      BY <1>a, <1>7, <2>3 DEF Grips, Rests
    <3> QED
      BY <2>1, <3>1, <3>2 DEF Owns, InBucket, Grips
  <2> QED
    BY <2>2, <2>3
<1>9. Kept
  BY <1>1, <1>4, <1>7, <1>8 DEF Kept, storeVars, Rests
<1>10. NoFill
  BY <1>7 DEF NoFill, Fills, Rests
<1>11. Locks'
  <2>1. ASSUME NEW u \in Threads, th'[u].pc \in HoldPcs PROVE InBucket(th[u].index)' = MARKER
    <3>1. CASE u = t
      BY <1>4, <1>7, <2>1, <3>1 DEF InBucket
    <3>2. CASE u # t
      <4>1. th'[u] = th[u] /\ th[u].index # i
        BY <1>5, <1>7, <2>1, <3>2 DEF Rests
      <4>2. InBucket(th[u].index) = MARKER
        BY <2>1, <4>1 DEF Table, Locks
      <4> QED
        BY <1>3, <1>4, <4>1, <4>2 DEF InBucket
    <3> QED
      BY <3>1, <3>2
  <2>2. \A u, x \in Threads : (th[u].pc \in HoldPcs /\ th[x].pc \in HoldPcs /\
            th[u].index = th[x].index => u = x)'
    BY <1>5, <1>7 DEF Rests, Table, Locks
  <2> QED
    BY <2>1, <2>2 DEF Locks
<1>12. Places'
  <2>1. text' = text /\ next_string' = next_string
    BY <1>1 DEF storeVars
  <2>2. \A j \in Buckets : InBucket(j)' \in {0, MARKER} \cup DOMAIN text
    BY <1>4, <1>6 DEF Table, Places
  <2>3. ASSUME NEW u \in Threads
        PROVE  /\ (th[u].pc = "compare" => InBucket(th[u].index) # 0)'
               /\ (th[u].pc = "number" =>
                     /\ 0 < th[u].place /\ th[u].place < next_string
                     /\ th[u].place \notin DOMAIN text)'
               /\ (th[u].pc \in {"again", "hung"} \cup LatePcs => th[u].place \in DOMAIN text)'
               /\ (th[u].pc \in LatePcs => text[th[u].place] = Query(u))'
    <3>1. CASE u = t
      BY <1>6, <1>7, <2>1, <3>1
    <3>2. CASE u # t
      <4>1. (th[u].pc = "compare" => InBucket(th[u].index) # 0)'
        BY <1>3, <1>4, <1>6, <1>7, <3>2 DEF Rests, Table, Places, InBucket
      <4> QED
        BY <1>7, <2>1, <3>2, <4>1 DEF Rests, Table, Places
    <3> QED
      BY <3>1, <3>2
  <2>4. \A u, x \in Threads : (th[u].pc = "number" /\ th[x].pc = "number" /\
            th[u].place = th[x].place => u = x)'
    BY <1>7 DEF Table, Places, Rests
  <2> QED
    BY <2>1, <2>2, <2>3, <2>4 DEF Table, Places
<1>13. \/ Onward(t, th[t].place, "found") /\ Matches(Query(t), th[t].place)
       \/ Onward(t, th[t].place, "hung")
  BY <1>2, <1>b
<1> QED
  BY <1>1, <1>7, <1>9, <1>10, <1>11, <1>12, <1>13, KeptTable, KeptGrows DEF Table

(* The string that a thread is about to number is stored nowhere yet.      *)
LEMMA NotStored ==
  ASSUME Typed, Table, NEW t \in Threads, th[t].pc \in FillPcs \ LatePcs
  PROVE  Query(t) \notin StoredNames
<1> SUFFICES ASSUME NEW p \in DOMAIN text, text[p] = Query(t) PROVE FALSE
  BY DEF StoredNames
<1>1. th[t].index \in Buckets /\ Query(t) \in Names
  BY CallOf DEF Typed, TypeOK, FillPcs
<1>2. Fills(th[t].index, Query(t))
  BY DEF Fills
<1>3. CASE \E i \in Buckets : Owns(i, p)
  <2>1. PICK i \in Buckets : Owns(i, p)
    BY <1>3
  <2>2. Has(i, Query(t)) /\ Has(th[t].index, Query(t))
    BY <1>2, <2>1 DEF Has, Keeps
  <2>3. i = th[t].index
    BY <1>1, <2>2 DEF Table, Single
  <2> QED
    BY <2>1, <2>3, FilledByOne DEF Table
<1>4. CASE \E u \in Threads : th[u].pc \in LatePcs /\ th[u].place = p
  <2>1. PICK u \in Threads : th[u].pc \in LatePcs /\ th[u].place = p
    BY <1>4
  <2>2. Query(u) = Query(t) /\ th[u].index \in Buckets
    BY <2>1 DEF Table, Places, Typed, TypeOK
  <2>3. Fills(th[u].index, Query(t))
    BY <2>1, <2>2 DEF Fills, LatePcs, FillPcs
  <2>4. th[u].index = th[t].index
    BY <1>1, <1>2, <2>2, <2>3 DEF Table, Single, Has
  <2> QED
    BY <2>1, <2>4, FilledByOne DEF Table, HoldPcs, FillPcs, LatePcs
<1> QED
  BY <1>3, <1>4 DEF Table, Housed

LEMMA NumberTable ==
  ASSUME RoomForAll, Typed, Table, NEW t \in Threads, Number(t)
  PROVE  /\ Table' /\ Grows /\ th[t].pc = "number"
         /\ \A u \in Threads : u # t => Rests(u)
         /\ Onward(t, th[t].place, "invert")
<1>a. PICK i \in Buckets : i = th[t].index
  BY DEF Typed, TypeOK
<1>b. PICK s : s = th[t].place
  OBVIOUS
<1>c. PICK n : n = Query(t)
  OBVIOUS
<1>1. /\ th[t].pc = "number" /\ UNCHANGED <<callVars, next_string>>
      /\ text' = [p \in DOMAIN text \cup {s} |-> IF p = s THEN n ELSE text[p]]
      /\ word' = [word EXCEPT ![ToInt(i)] = next_type]
      /\ next_type' = next_type + 1
  BY <1>a, <1>b, <1>c DEF Number, At
<1>2. Onward(t, s, "invert")
  BY <1>1, <1>b, MoveOn DEF Number, ProgramCounters, Step
<1>3. n \in Names /\ \A u \in Threads : th[u].index \in Buckets
  BY <1>1, <1>c, CallOf DEF Typed, TypeOK
<1>4. /\ NumberAt(i)' = next_type
      /\ \A j \in Buckets : j # i => NumberAt(j)' = NumberAt(j)
      /\ \A j \in Buckets : InBucket(j)' = InBucket(j)
      /\ \A k \in Numerals : PlaceOf(k)' = PlaceOf(k)
  BY <1>1, WriteNumber DEF Typed
<1>5. /\ \A p \in DOMAIN text : ~ Owns(i, p)
      /\ \A u \in Threads : u # t /\ th[u].pc \in HoldPcs => th[u].index # i
  BY <1>1, <1>a, FilledByOne DEF Table, FillPcs
<1>6. /\ s \notin DOMAIN text /\ 0 < s /\ s < next_string /\ s \in Nat
      /\ MARKER # s /\ next_type \in Nat
  BY <1>1, <1>b DEF Table, Places, Typed, TypeOK, Tasks, MARKER
<1>7. /\ th'[t].pc = "invert" /\ th'[t].index = i /\ th'[t].place = s
      /\ Query(t)' = n /\ work' = work /\ \A u \in Threads : u # t => Rests(u)
  BY <1>2, <1>a, <1>c DEF Onward
<1>8. /\ DOMAIN text' = DOMAIN text \cup {s} /\ text'[s] = n
      /\ \A p \in DOMAIN text : text'[p] = text[p]
  BY <1>1, <1>6
<1> USE DEF HoldPcs, FillPcs, LatePcs
<1>9. \A j \in Buckets : /\ \A p \in DOMAIN text : Owns(j, p)' <=> Owns(j, p)
                         /\ ~ Owns(j, s)'
  <2> TAKE j \in Buckets
  <2>1. \A p : Grips(j, p)' <=> Grips(j, p)
    BY <1>1, <1>7 DEF Grips, Rests
  <2>2. InBucket(j)' = InBucket(j)
    BY <1>4
  <2>3. InBucket(j) # s
    BY <1>6 DEF Table, Places
  <2>4. \A u \in Threads : th[u].pc \in {"again", "hung"} => th[u].place # s
    BY <1>6 DEF Table, Places
  <2>5. \A p \in DOMAIN text : Owns(j, p)' <=> Owns(j, p)
    BY <1>8, <2>1, <2>2 DEF Owns, InBucket, Grips
  <2>6. ~ Owns(j, s)'
    BY <2>1, <2>2, <2>3, <2>4 DEF Owns, InBucket, Grips
  <2> QED
    BY <2>5, <2>6
<1>10. \A j \in Buckets : (\E p \in DOMAIN text : Owns(j, p))' <=> \E p \in DOMAIN text : Owns(j, p)
  BY <1>8, <1>9
<1>11. Locks'
  BY <1>3, <1>4, <1>7, <1>a, <1>1, LocksKept DEF Table, Rests
<1>12. Places'
  <2>1. next_string' = next_string
    BY <1>1
  <2>2. \A j \in Buckets : InBucket(j)' \in {0, MARKER} \cup DOMAIN text'
    BY <1>4, <1>8 DEF Table, Places
  <2>3. ASSUME NEW u \in Threads
        PROVE  /\ (th[u].pc = "compare" => InBucket(th[u].index) # 0)'
               /\ (th[u].pc = "number" =>
                     /\ 0 < th[u].place /\ th[u].place < next_string
                     /\ th[u].place \notin DOMAIN text)'
               /\ (th[u].pc \in {"again", "hung"} \cup LatePcs => th[u].place \in DOMAIN text)'
               /\ (th[u].pc \in LatePcs => text[th[u].place] = Query(u))'
    <3>1. CASE u = t
      BY <1>7, <1>8, <3>1
    <3>2. CASE u # t
      <4>1. (th[u].pc = "compare" => InBucket(th[u].index) # 0)'
        BY <1>3, <1>4, <1>7, <3>2 DEF Rests, Table, Places, InBucket
      <4>2. th[u].pc = "number" => th[u].place # s
        BY <1>1, <1>b, <3>2 DEF Table, Places
      <4> QED
        BY <1>7, <1>8, <2>1, <3>2, <4>1, <4>2 DEF Rests, Table, Places
    <3> QED
      BY <3>1, <3>2
  <2>4. \A u, x \in Threads : (th[u].pc = "number" /\ th[x].pc = "number" /\
            th[u].place = th[x].place => u = x)'
    BY <1>7 DEF Table, Places, Rests
  <2>5. \A p \in DOMAIN text' : 0 < p /\ p < next_string
    BY <1>6, <1>8 DEF Table, Places
  <2> QED
    BY <2>1, <2>2, <2>3, <2>4, <2>5 DEF Table, Places
<1>13. Ordered'
  <2> SUFFICES ASSUME NEW j \in Buckets, NEW p \in DOMAIN text', Owns(j, p)',
                      NEW k \in Buckets, Between(Hash[text'[p]], j, k)
               PROVE  (\E q \in DOMAIN text : Owns(k, q) /\ <<text[p], text[q]>> \notin PrefixOf)'
    BY DEF Ordered, Between
  <2>1. p \in DOMAIN text /\ Owns(j, p) /\ text'[p] = text[p]
    BY <1>8, <1>9
  <2>2. PICK q \in DOMAIN text : Owns(k, q) /\ <<text[p], text[q]>> \notin PrefixOf
    BY <2>1 DEF Table, Ordered
  <2>3. q \in DOMAIN text' /\ text'[q] = text[q] /\ Owns(k, q)'
    BY <1>8, <1>9, <2>2
  <2> QED
    BY <2>1, <2>2, <2>3
<1>14. Single'
  <2>1. ASSUME NEW j \in Buckets, NEW m \in Names, Has(j, m)' PROVE Has(j, m)
    <3>1. Keeps(j, m)' => Keeps(j, m)
      BY <1>8, <1>9 DEF Keeps
    <3>2. Fills(j, m)' => Fills(j, m)
      BY <1>1, <1>7, <1>a, <1>c DEF Fills, Rests
    <3> QED
      BY <2>1, <3>1, <3>2 DEF Has
  <2> QED
    BY <2>1 DEF Table, Single
<1>15. Housed'
  <2> SUFFICES ASSUME NEW p \in DOMAIN text'
               PROVE  (\E j \in Buckets : Owns(j, p))' \/
                      (\E u \in Threads : th[u].pc \in LatePcs /\ th[u].place = p)'
    BY DEF Housed
  <2>1. CASE p = s
    BY <1>7, <2>1
  <2>2. CASE p \in DOMAIN text
    <3>1. CASE \E j \in Buckets : Owns(j, p)
      BY <1>9, <2>2, <3>1
    <3>2. CASE \E u \in Threads : th[u].pc \in LatePcs /\ th[u].place = p
      BY <1>1, <1>7, <3>2 DEF Rests
    <3> QED
      BY <2>2, <3>1, <3>2 DEF Table, Housed
  <2> QED
    BY <1>8, <2>1, <2>2
<1>16. \A j \in Buckets : Numbered(j)' <=> Numbered(j) \/ j = i
  <2> TAKE j \in Buckets
  <2>1. (\E u \in Threads : th[u].pc \in LatePcs /\ th[u].index = j)' <=>
        (\E u \in Threads : th[u].pc \in LatePcs /\ th[u].index = j) \/ j = i
    BY <1>1, <1>7 DEF Rests
  <2> QED
    BY <1>10, <2>1 DEF Numbered
<1>17. ~ Numbered(i)
  BY <1>1, <1>5 DEF Numbered
<1>18. Numbers'
  <2>1. StoredNames' = StoredNames \cup {n}
    BY <1>8 DEF StoredNames
  <2>2. n \notin StoredNames
    BY <1>1, <1>c, NotStored
  <2>3. (IsFiniteSet(StoredNames) /\ next_type = Cardinality(StoredNames))'
    BY <1>1, <2>1, <2>2, FS_AddElement DEF Table, Numbers
  <2>4. Creates(work, n)
    BY <1>1, <1>c DEF Creates, Typed, Tasks, Query, Call
  <2>5. \A m \in StoredNames' : Creates(work, m)'
    BY <1>7, <2>1, <2>4 DEF Table, Numbers, Creates
  <2>6. \A j \in Buckets : Numbered(j)' => NumberAt(j)' \in 0..next_type'-1
    BY <1>1, <1>4, <1>6, <1>16 DEF Table, Numbers
  <2>7. \A j \in Buckets : Numbered(j)' /\ j # i => NumberAt(j)' # next_type
    BY <1>4, <1>6, <1>16 DEF Table, Numbers
  <2>8. \A j, k \in Buckets : Numbered(j)' /\ Numbered(k)' /\ NumberAt(j)' = NumberAt(k)' => j = k
    BY <1>4, <1>16, <2>7 DEF Table, Numbers
  <2> QED
    BY <2>3, <2>5, <2>6, <2>8 DEF Numbers
<1>19. Inverses'
  <2>1. \A j \in Buckets : Numbered(j) => NumberAt(j) \in Numerals
    BY Roomy DEF Table
  <2>2. ASSUME NEW j \in Buckets, NEW p \in DOMAIN text', Owns(j, p)'
        PROVE  PlaceOf(NumberAt(j))' = p
    <3>1. p \in DOMAIN text /\ Owns(j, p)
      BY <1>8, <1>9, <2>2
    <3>2. j # i
      BY <1>5, <3>1
    <3>3. NumberAt(j)' = NumberAt(j) /\ NumberAt(j) \in Numerals /\ PlaceOf(NumberAt(j)) = p
      BY <1>4, <2>1, <3>1, <3>2 DEF Numbered, Table, Inverses
    <3> QED
      BY <1>4, <3>3 DEF PlaceOf
  <2>3. ASSUME NEW u \in Threads, th'[u].pc = "publish"
        PROVE  PlaceOf(NumberAt(th[u].index))' = th'[u].place
    <3>1. PICK j \in Buckets : j = th[u].index
      BY <1>3
    <3>2. u # t /\ th'[u] = th[u] /\ j # i
      BY <1>5, <1>7, <2>3, <3>1 DEF Rests
    <3>3. /\ NumberAt(j)' = NumberAt(j) /\ NumberAt(j) \in Numerals
          /\ PlaceOf(NumberAt(j)) = th[u].place
      BY <1>4, <2>1, <2>3, <3>1, <3>2 DEF Numbered, Table, Inverses
    <3>4. PlaceOf(NumberAt(j))' = th[u].place
      BY <1>4, <3>3 DEF PlaceOf
    <3> QED
      BY <3>1, <3>2, <3>4 DEF PlaceOf, NumberAt
  <2> QED
    BY <2>2, <2>3 DEF Inverses
<1>20. Grows
  BY <1>4, <1>5, <1>7, <1>8, <1>9 DEF Grows
<1> QED
  BY <1>1, <1>2, <1>7, <1>b, <1>11, <1>12, <1>13, <1>14, <1>15, <1>18, <1>19, <1>20 DEF Table

LEMMA InvertTable ==
  ASSUME RoomForAll, Typed, Table, NEW t \in Threads, Invert(t)
  PROVE  /\ Table' /\ Grows /\ th[t].pc = "invert"
         /\ \A u \in Threads : u # t => Rests(u)
         /\ Onward(t, th[t].place, "publish")
<1>a. PICK i \in Buckets : i = th[t].index
  BY DEF Typed, TypeOK
<1>b. PICK s : s = th[t].place
  OBVIOUS
<1>c. PICK k : k = NumberAt(i)
  OBVIOUS
<1>1. /\ th[t].pc = "invert" /\ UNCHANGED <<callVars, storeVars>>
      /\ word' = [word EXCEPT ![ToName(k)] = s]
  BY <1>a, <1>b, <1>c DEF Invert, At, NumberAt
<1>2. Onward(t, s, "publish")
  BY <1>1, <1>b, MoveOn DEF Invert, ProgramCounters, Step
<1>3. \A u \in Threads : th[u].index \in Buckets
  BY DEF Typed, TypeOK
<1>d. Numbered(i) /\ k \in Numerals
  <2>1. Numbered(i)
    BY <1>1, <1>a DEF Numbered, LatePcs
  <2> QED
    BY <2>1, <1>c, Roomy DEF Table
<1>4. /\ PlaceOf(k)' = s /\ \A m \in Numerals : m # k => PlaceOf(m)' = PlaceOf(m)
      /\ \A j \in Buckets : InBucket(j)' = InBucket(j) /\ NumberAt(j)' = NumberAt(j)
  BY <1>1, <1>d, WritePlace DEF Typed
<1>5. /\ \A p \in DOMAIN text : ~ Owns(i, p)
      /\ \A u \in Threads : u # t /\ th[u].pc \in HoldPcs => th[u].index # i
  BY <1>1, <1>a, FilledByOne DEF Table, FillPcs
<1>7. /\ th'[t].pc = "publish" /\ th'[t].index = i /\ th'[t].place = s
      /\ Query(t)' = Query(t) /\ work' = work /\ \A u \in Threads : u # t => Rests(u)
  BY <1>2, <1>a DEF Onward
<1>8. text' = text /\ next_string' = next_string /\ next_type' = next_type
  BY <1>1 DEF storeVars
<1> USE DEF HoldPcs, FillPcs, LatePcs
<1>9. \A j \in Buckets : \A p \in DOMAIN text : Owns(j, p)' <=> Owns(j, p)
  <2> TAKE j \in Buckets
  <2>1. \A p : Grips(j, p)' <=> Grips(j, p)
    BY <1>1, <1>7 DEF Grips, Rests
  <2> QED
    BY <1>4, <1>8, <2>1 DEF Owns, InBucket, Grips
<1>10. /\ \A j \in Buckets :
            (\E p \in DOMAIN text : Owns(j, p))' <=> \E p \in DOMAIN text : Owns(j, p)
       /\ \A j \in Buckets : (\E u \in Threads : th[u].pc \in LatePcs /\ th[u].index = j)' <=>
            \E u \in Threads : th[u].pc \in LatePcs /\ th[u].index = j
       /\ \A p : (\E u \in Threads : th[u].pc \in LatePcs /\ th[u].place = p)' <=>
            \E u \in Threads : th[u].pc \in LatePcs /\ th[u].place = p
  BY <1>1, <1>7, <1>8, <1>9, <1>a, <1>b DEF Rests
<1>11. Locks'
  BY <1>3, <1>4, <1>7, <1>a, <1>1, LocksKept DEF Table, Rests
<1>12. Places'
  <2>2. \A j \in Buckets : InBucket(j)' \in {0, MARKER} \cup DOMAIN text'
    BY <1>4, <1>8 DEF Table, Places
  <2>3. ASSUME NEW u \in Threads
        PROVE  /\ (th[u].pc = "compare" => InBucket(th[u].index) # 0)'
               /\ (th[u].pc = "number" =>
                     /\ 0 < th[u].place /\ th[u].place < next_string
                     /\ th[u].place \notin DOMAIN text)'
               /\ (th[u].pc \in {"again", "hung"} \cup LatePcs => th[u].place \in DOMAIN text)'
               /\ (th[u].pc \in LatePcs => text[th[u].place] = Query(u))'
    <3>1. CASE u = t
      BY <1>1, <1>7, <1>8, <1>b, <3>1 DEF Table, Places
    <3>2. CASE u # t
      <4>1. (th[u].pc = "compare" => InBucket(th[u].index) # 0)'
        BY <1>3, <1>4, <1>7, <3>2 DEF Rests, Table, Places, InBucket
      <4> QED
        BY <1>7, <1>8, <3>2, <4>1 DEF Rests, Table, Places
    <3> QED
      BY <3>1, <3>2
  <2>4. \A u, x \in Threads : (th[u].pc = "number" /\ th[x].pc = "number" /\
            th[u].place = th[x].place => u = x)'
    BY <1>7 DEF Table, Places, Rests
  <2> QED
    BY <1>8, <2>2, <2>3, <2>4 DEF Table, Places
<1>13. Ordered'
  <2> SUFFICES ASSUME NEW j \in Buckets, NEW p \in DOMAIN text, Owns(j, p),
                      NEW m \in Buckets, Between(Hash[text[p]], j, m)
               PROVE  (\E q \in DOMAIN text : Owns(m, q) /\ <<text[p], text[q]>> \notin PrefixOf)'
    BY <1>8, <1>9 DEF Ordered, Between
  <2>1. PICK q \in DOMAIN text : Owns(m, q) /\ <<text[p], text[q]>> \notin PrefixOf
    BY DEF Table, Ordered
  <2> QED
    BY <1>8, <1>9, <2>1
<1>14. Single'
  <2>1. ASSUME NEW j \in Buckets, NEW m \in Names, Has(j, m)' PROVE Has(j, m)
    <3>1. Keeps(j, m)' => Keeps(j, m)
      BY <1>8, <1>9 DEF Keeps
    <3>2. Fills(j, m)' => Fills(j, m)
      BY <1>1, <1>7, <1>a DEF Fills, Rests
    <3> QED
      BY <2>1, <3>1, <3>2 DEF Has
  <2> QED
    BY <2>1 DEF Table, Single
<1>15. Housed'
  BY <1>8, <1>9, <1>10 DEF Table, Housed
<1>16. Numbers'
  <2>1. \A j \in Buckets : Numbered(j)' <=> Numbered(j)
    BY <1>10 DEF Numbered
  <2>2. StoredNames' = StoredNames
    BY <1>8 DEF StoredNames
  <2>3. (IsFiniteSet(StoredNames) /\ next_type = Cardinality(StoredNames))'
    BY <1>8, <2>2 DEF Table, Numbers
  <2>4. \A m \in StoredNames' : Creates(work, m)'
    BY <1>7, <2>2 DEF Table, Numbers, Creates
  <2> QED
    BY <1>4, <1>8, <2>1, <2>3, <2>4 DEF Table, Numbers
<1>17. Inverses'
  <2>1. \A j \in Buckets : Numbered(j) => NumberAt(j) \in Numerals
    BY Roomy DEF Table
  <2>2. \A j \in Buckets : Numbered(j) /\ j # i => NumberAt(j) # k
    BY <1>c, <1>d DEF Table, Numbers
  <2>3. ASSUME NEW j \in Buckets, NEW p \in DOMAIN text, Owns(j, p)
        PROVE  PlaceOf(NumberAt(j))' = p
    <3>1. j # i /\ Numbered(j)
      BY <1>5, <2>3 DEF Numbered
    <3>2. /\ NumberAt(j)' = NumberAt(j) /\ NumberAt(j) \in Numerals /\ NumberAt(j) # k
          /\ PlaceOf(NumberAt(j)) = p
      BY <1>4, <2>1, <2>2, <2>3, <3>1 DEF Table, Inverses
    <3> QED
      BY <1>4, <3>2 DEF PlaceOf
  <2>4. ASSUME NEW u \in Threads, th'[u].pc = "publish"
        PROVE  PlaceOf(NumberAt(th[u].index))' = th'[u].place
    <3>1. CASE u = t
      <4>1. NumberAt(i)' = k
        BY <1>4, <1>c
      <4>2. PlaceOf(NumberAt(i))' = s
        BY <1>4, <4>1 DEF PlaceOf
      <4> QED
        BY <1>7, <3>1, <4>2 DEF PlaceOf, NumberAt
    <3>2. CASE u # t
      <4>1. PICK j \in Buckets : j = th[u].index
        BY <1>3
      <4>2. th'[u] = th[u] /\ j # i /\ Numbered(j)
        BY <1>5, <1>7, <2>4, <3>2, <4>1 DEF Rests, Numbered
      <4>3. /\ NumberAt(j)' = NumberAt(j) /\ NumberAt(j) \in Numerals /\ NumberAt(j) # k
            /\ PlaceOf(NumberAt(j)) = th[u].place
        BY <1>4, <2>1, <2>2, <2>4, <4>1, <4>2 DEF Table, Inverses
      <4>4. PlaceOf(NumberAt(j))' = th[u].place
        BY <1>4, <4>3 DEF PlaceOf
      <4> QED
        BY <4>1, <4>2, <4>4 DEF PlaceOf, NumberAt
    <3> QED
      BY <3>1, <3>2
  <2> QED
    BY <1>8, <1>9, <2>3, <2>4 DEF Inverses
<1>18. Grows
  BY <1>4, <1>7, <1>8, <1>9 DEF Grows
<1> QED
  BY <1>1, <1>2, <1>7, <1>b, <1>11, <1>12, <1>13, <1>14, <1>15, <1>16, <1>17, <1>18 DEF Table

LEMMA PublishTable ==
  ASSUME RoomForAll, Typed, Table, Searches, NEW t \in Threads, Publish(t)
  PROVE  /\ Table' /\ Grows /\ th[t].pc = "publish"
         /\ \A u \in Threads : u # t => Rests(u)
         /\ Onward(t, th[t].place, "created")
         /\ Keeps(th[t].index, Query(t))'
<1>a. PICK i \in Buckets : i = th[t].index
  BY DEF Typed, TypeOK
<1>b. PICK s : s = th[t].place
  OBVIOUS
<1>c. PICK n : n = Query(t)
  OBVIOUS
<1>1. /\ th[t].pc = "publish" /\ UNCHANGED <<callVars, storeVars>>
      /\ word' = [word EXCEPT ![FromName(i)] = s]
  BY <1>a, <1>b DEF Publish, At
<1>2. Onward(t, s, "created")
  BY <1>1, <1>b, MoveOn DEF Publish, ProgramCounters, Step
<1>3. n \in Names /\ \A u \in Threads : th[u].index \in Buckets
  BY <1>1, <1>c, CallOf DEF Typed, TypeOK
<1>4. /\ InBucket(i)' = s /\ \A j \in Buckets : j # i => InBucket(j)' = InBucket(j)
      /\ \A j \in Buckets : NumberAt(j)' = NumberAt(j)
      /\ \A k \in Numerals : PlaceOf(k)' = PlaceOf(k)
  BY <1>1, WriteBucket DEF Typed
<1>5. /\ \A p \in DOMAIN text : ~ Owns(i, p)
      /\ \A u \in Threads : u # t /\ th[u].pc \in HoldPcs => th[u].index # i
  BY <1>1, <1>a, FilledByOne DEF Table, FillPcs
<1>6. s \in DOMAIN text /\ text[s] = n /\ s # 0
  BY <1>1, <1>b, <1>c DEF Table, Places, LatePcs, Typed, TypeOK
<1>7. /\ th'[t].pc = "created" /\ th'[t].index = i /\ th'[t].place = s
      /\ Query(t)' = n /\ work' = work /\ \A u \in Threads : u # t => Rests(u)
  BY <1>2, <1>a, <1>c DEF Onward
<1>8. text' = text /\ next_string' = next_string /\ next_type' = next_type
  BY <1>1 DEF storeVars
<1> USE DEF HoldPcs, FillPcs, LatePcs
<1>9. \A j \in Buckets : \A p \in DOMAIN text : Owns(j, p)' <=> Owns(j, p) \/ (j = i /\ p = s)
  <2> TAKE j \in Buckets
  <2> TAKE p \in DOMAIN text
  <2>1. Grips(j, p)' <=> Grips(j, p)
    BY <1>1, <1>7 DEF Grips, Rests
  <2>2. CASE j # i
    BY <1>4, <1>8, <2>1, <2>2 DEF Owns, InBucket, Grips
  <2>3. CASE j = i
    <3>1. ~ Owns(i, p)
      BY <1>5
    <3>2. Owns(i, p)' <=> p = s
      BY <1>4, <1>8, <2>1, <2>3, <3>1 DEF Owns, InBucket, Grips
    <3> QED
      BY <2>3, <3>1, <3>2
  <2> QED
    BY <2>2, <2>3
<1>10. \A j \in Buckets : Numbered(j)' <=> Numbered(j)
  <2> TAKE j \in Buckets
  <2>1. CASE j = i
    BY <1>1, <1>6, <1>8, <1>9, <1>a, <2>1 DEF Numbered
  <2>2. CASE j # i
    <3>1. (\E u \in Threads : th[u].pc \in LatePcs /\ th[u].index = j)' <=>
          \E u \in Threads : th[u].pc \in LatePcs /\ th[u].index = j
      BY <1>7, <1>a, <2>2 DEF Rests
    <3> QED
      BY <1>8, <1>9, <2>2, <3>1 DEF Numbered
  <2> QED
    BY <2>1, <2>2
<1>11. Locks'
  <2>1. ASSUME NEW u \in Threads, th'[u].pc \in HoldPcs PROVE InBucket(th[u].index)' = MARKER
    <3>1. u # t /\ th'[u] = th[u] /\ th[u].index # i
      BY <1>5, <1>7, <2>1 DEF Rests
    <3>2. InBucket(th[u].index) = MARKER
      BY <2>1, <3>1 DEF Table, Locks
    <3> QED
      BY <1>3, <1>4, <3>1, <3>2 DEF InBucket
  <2>2. \A u, x \in Threads : (th[u].pc \in HoldPcs /\ th[x].pc \in HoldPcs /\
            th[u].index = th[x].index => u = x)'
    BY <1>7 DEF Rests, Table, Locks
  <2> QED
    BY <2>1, <2>2 DEF Locks
<1>12. Places'
  <2>2. \A j \in Buckets : InBucket(j)' \in {0, MARKER} \cup DOMAIN text'
    BY <1>4, <1>6, <1>8 DEF Table, Places
  <2>3. ASSUME NEW u \in Threads
        PROVE  /\ (th[u].pc = "compare" => InBucket(th[u].index) # 0)'
               /\ (th[u].pc = "number" =>
                     /\ 0 < th[u].place /\ th[u].place < next_string
                     /\ th[u].place \notin DOMAIN text)'
               /\ (th[u].pc \in {"again", "hung"} \cup LatePcs => th[u].place \in DOMAIN text)'
               /\ (th[u].pc \in LatePcs => text[th[u].place] = Query(u))'
    <3>1. CASE u = t
      BY <1>7, <3>1
    <3>2. CASE u # t
      <4>1. 0 \notin DOMAIN text
        BY DEF Table, Places
      <4>2. (th[u].pc = "compare" => InBucket(th[u].index) # 0)'
        BY <1>3, <1>4, <1>6, <1>7, <3>2 DEF Rests, Table, Places, InBucket
      <4> QED
        BY <1>7, <1>8, <3>2, <4>2 DEF Rests, Table, Places
    <3> QED
      BY <3>1, <3>2
  <2>4. \A u, x \in Threads : (th[u].pc = "number" /\ th[x].pc = "number" /\
            th[u].place = th[x].place => u = x)'
    BY <1>7 DEF Table, Places, Rests
  <2> QED
    BY <1>8, <2>2, <2>3, <2>4 DEF Table, Places
<1>13. Ordered'
  <2> SUFFICES ASSUME NEW j \in Buckets, NEW p \in DOMAIN text, Owns(j, p)',
                      NEW m \in Buckets, Between(Hash[text[p]], j, m)
               PROVE  \E q \in DOMAIN text : Owns(m, q)' /\ <<text[p], text[q]>> \notin PrefixOf
    BY <1>8 DEF Ordered, Between
  <2>1. \E q \in DOMAIN text : Owns(m, q) /\ <<text[p], text[q]>> \notin PrefixOf
    <3>1. CASE Owns(j, p)
      BY <3>1 DEF Table, Ordered
    <3>2. CASE j = i /\ p = s
      <4>1. Passing(t) /\ th[t].pc \in SearchPcs
        BY <1>1 DEF Searches, SearchPcs
      <4> QED
        BY <1>6, <1>a, <1>c, <3>2, <4>1 DEF Passing
    <3> QED
      BY <1>9, <3>1, <3>2
  <2> QED
    BY <1>9, <2>1
<1>14. Single'
  <2>1. ASSUME NEW j \in Buckets, NEW m \in Names, Has(j, m)' PROVE Has(j, m)
    <3>1. Keeps(j, m)' => Keeps(j, m) \/ (j = i /\ m = n)
      BY <1>6, <1>8, <1>9 DEF Keeps
    <3>2. Fills(j, m)' => Fills(j, m)
      BY <1>7 DEF Fills, Rests
    <3>3. Fills(i, n)
      BY <1>1, <1>a, <1>c DEF Fills
    <3> QED
      BY <2>1, <3>1, <3>2, <3>3 DEF Has
  <2> QED
    BY <2>1 DEF Table, Single
<1>15. Housed'
  <2> SUFFICES ASSUME NEW p \in DOMAIN text
               PROVE  (\E j \in Buckets : Owns(j, p))' \/
                      (\E u \in Threads : th[u].pc \in LatePcs /\ th[u].place = p)'
    BY <1>8 DEF Housed
  <2>1. CASE \E j \in Buckets : Owns(j, p)
    BY <1>9, <2>1
  <2>2. CASE \E u \in Threads : th[u].pc \in LatePcs /\ th[u].place = p
    <3>1. PICK u \in Threads : th[u].pc \in LatePcs /\ th[u].place = p
      BY <2>2
    <3>2. CASE u = t
      BY <1>9, <1>b, <3>1, <3>2
    <3>3. CASE u # t
      BY <1>7, <3>1, <3>3 DEF Rests
    <3> QED
      BY <3>2, <3>3
  <2> QED
    BY <2>1, <2>2 DEF Table, Housed
<1>16. Numbers'
  <2>2. StoredNames' = StoredNames
    BY <1>8 DEF StoredNames
  <2>3. (IsFiniteSet(StoredNames) /\ next_type = Cardinality(StoredNames))'
    BY <1>8, <2>2 DEF Table, Numbers
  <2>4. \A m \in StoredNames' : Creates(work, m)'
    BY <1>7, <2>2 DEF Table, Numbers, Creates
  <2> QED
    BY <1>4, <1>8, <1>10, <2>3, <2>4 DEF Table, Numbers
<1>17. Inverses'
  <2>1. \A j \in Buckets : Numbered(j) => NumberAt(j) \in Numerals
    BY Roomy DEF Table
  <2>2. Numbered(i) /\ PlaceOf(NumberAt(i)) = s
    BY <1>1, <1>a, <1>b DEF Numbered, Table, Inverses
  <2>3. ASSUME NEW j \in Buckets, NEW p \in DOMAIN text, Owns(j, p)'
        PROVE  PlaceOf(NumberAt(j))' = p
    <3>1. Numbered(j) /\ PlaceOf(NumberAt(j)) = p
      BY <1>9, <2>2, <2>3 DEF Numbered, Table, Inverses
    <3>2. NumberAt(j)' = NumberAt(j) /\ NumberAt(j) \in Numerals
      BY <1>4, <2>1, <3>1
    <3> QED
      BY <1>4, <3>1, <3>2 DEF PlaceOf
  <2>4. ASSUME NEW u \in Threads, th'[u].pc = "publish"
        PROVE  PlaceOf(NumberAt(th[u].index))' = th'[u].place
    <3>1. PICK j \in Buckets : j = th[u].index
      BY <1>3
    <3>2. th'[u] = th[u]
      BY <1>7, <2>4 DEF Rests
    <3>3. Numbered(j) /\ PlaceOf(NumberAt(j)) = th[u].place
      BY <2>4, <3>1, <3>2 DEF Numbered, Table, Inverses
    <3>4. NumberAt(j)' = NumberAt(j) /\ NumberAt(j) \in Numerals
      BY <1>4, <2>1, <3>3
    <3>5. PlaceOf(NumberAt(j))' = th[u].place
      BY <1>4, <3>3, <3>4 DEF PlaceOf
    <3> QED
      BY <3>1, <3>2, <3>5 DEF PlaceOf, NumberAt
  <2> QED
    BY <1>8, <2>3, <2>4 DEF Inverses
<1>18. Grows
  BY <1>4, <1>7, <1>8, <1>9 DEF Grows
<1>19. Keeps(th[t].index, Query(t))'
  <2>1. Owns(i, s)'
    BY <1>6, <1>9
  <2> QED
    BY <1>6, <1>7, <1>8, <2>1 DEF Keeps, Owns, FromName
<1> QED
  BY <1>1, <1>2, <1>7, <1>b, <1>11, <1>12, <1>13, <1>14, <1>15, <1>16, <1>17, <1>18, <1>19 DEF Table

------------------------------------------------------------------------------
(* Searches and answers.                                                   *)
LEMMA RestsSearches ==
  ASSUME Typed, Grows, NEW u \in Threads, Rests(u), Passing(u), Finds(u)
  PROVE  Passing(u)' /\ Finds(u)'
<1>1. Passing(u)'
  BY PassingKept DEF Rests, Searching
<1>2. ASSUME th'[u].pc = "found"
      PROVE  (\E p \in DOMAIN text : Owns(th[u].index, p) /\ <<Query(u), text[p]>> \in PrefixOf)'
  <2>1. PICK i \in Buckets : i = th[u].index
    BY DEF Typed, TypeOK
  <2>2. PICK p \in DOMAIN text : Owns(i, p) /\ <<Query(u), text[p]>> \in PrefixOf
    BY <1>2, <2>1 DEF Rests, Finds
  <2>3. p \in DOMAIN text' /\ text'[p] = text[p] /\ Owns(i, p)'
    BY <2>2 DEF Grows
  <2>4. Owns(th[u].index, p)'
    BY <2>1, <2>3 DEF Rests, Owns
  <2> QED
    BY <2>2, <2>3, <2>4 DEF Rests
<1> QED
  BY <1>1, <1>2 DEF Finds

LEMMA OnwardSearches ==
  ASSUME Grows, NEW t \in Threads, NEW p, NEW to, th[t].pc \in SearchPcs, Passing(t),
         Onward(t, p, to), to # "found"
  PROVE  Passing(t)' /\ Finds(t)'
  BY PassingKept DEF Onward, Searching, Finds

LEMMA FoundThere ==
  ASSUME Typed, Grows, NEW t \in Threads, NEW p \in DOMAIN text, Owns(th[t].index, p),
         Matches(Query(t), p), th'[t].pc = "found", th'[t].index = th[t].index,
         Query(t)' = Query(t)
  PROVE  Passing(t)' /\ Finds(t)'
<1>1. PICK i \in Buckets : i = th[t].index
  BY DEF Typed, TypeOK
<1>2. p \in DOMAIN text' /\ text'[p] = text[p] /\ Owns(i, p)'
  BY <1>1 DEF Grows
<1>3. Owns(th[t].index, p)'
  BY <1>1, <1>2 DEF Owns
<1> QED
  BY <1>2, <1>3 DEF Passing, Finds, SearchPcs, HoldPcs, FillPcs, Matches

LEMMA CompareSearches ==
  ASSUME Typed, Table, Grows, NEW t \in Threads, Passing(t), Compare(t)
  PROVE  Passing(t)' /\ Finds(t)'
<1>1. /\ Aside(t) /\ th[t].pc = "compare" /\ Stored(t) # MARKER
      /\ \/ Answer(t, -1, 0) /\ th'[t].pc = "idle"
         \/ /\ answers' = answers /\ th'[t].pc = "found" /\ Matches(Query(t), Stored(t))
            /\ th'[t].index = th[t].index /\ Query(t)' = Query(t)
         \/ /\ answers' = answers /\ th'[t].pc = "probe" /\ ~ Matches(Query(t), Stored(t))
            /\ Following(th[t].index) # Hash[Query(t)]
            /\ th'[t].index = Following(th[t].index) /\ Query(t)' = Query(t)
  BY CompareAside
<1>2. PICK i \in Buckets : i = th[t].index
  BY DEF Typed, TypeOK
<1>3. PICK s : s = Stored(t)
  OBVIOUS
<1>4. s \in DOMAIN text /\ Owns(i, s)
  BY <1>1, <1>2, <1>3 DEF Table, Places, InBucket, Stored, Owns
<1>5. Query(t) \in Names /\ Hash[Query(t)] \in Buckets
  BY <1>1, CallOf
<1>6. CASE th'[t].pc = "idle"
  BY <1>6 DEF Passing, Finds, SearchPcs, HoldPcs, FillPcs
<1>7. CASE th'[t].pc = "found"
  BY <1>1, <1>2, <1>3, <1>4, <1>7, FoundThere
<1>8. CASE th'[t].pc = "probe"
  <2>1. PICK n : n = Query(t)
    OBVIOUS
  <2>2. Query(t)' = n /\ th'[t].index = Following(i) /\ Following(i) # Hash[n]
    BY <1>1, <1>2, <1>8, <2>1
  <2>3. <<n, text[s]>> \notin PrefixOf
    BY <1>1, <1>3, <1>4, <1>5, <1>8, <2>1 DEF Matches
  <2>4. ASSUME NEW j \in Buckets, Between(Hash[n], Following(i), j)
        PROVE  \E p \in DOMAIN text : Owns(j, p) /\ <<n, text[p]>> \notin PrefixOf
    <3>1. Between(Hash[n], i, j) \/ j = i
      BY <1>5, <2>1, <2>2, <2>4, Around
    <3>2. CASE Between(Hash[n], i, j)
      BY <1>1, <1>2, <2>1, <3>2 DEF Passing, SearchPcs
    <3>3. CASE j = i
      BY <1>4, <2>3, <3>3
    <3> QED
      BY <3>1, <3>2, <3>3
  <2>5. ASSUME NEW j \in Buckets, Between(Hash[n], Following(i), j)
        PROVE  \E p \in DOMAIN text' : Owns(j, p)' /\ <<n, text'[p]>> \notin PrefixOf
    BY <2>4, <2>5 DEF Grows
  <2> QED
    BY <1>8, <2>2, <2>5 DEF Passing, Finds, Between
<1> QED
  BY <1>1, <1>6, <1>7, <1>8

LEMMA TakeSearches ==
  ASSUME Typed, NEW t \in Threads, NEW i \in DOMAIN res, Take(t, i)
  PROVE  Passing(t)' /\ Finds(t)'
<1>1. th'[t].pc \in {"room", "probe", "inverse"} /\ th'[t].index = Hash[Query(t)]' /\ Typed'
  BY TakeAside, TakeTyped
<1>2. PICK h : h = Hash[Query(t)]'
  OBVIOUS
<1>3. h \in Buckets
  BY <1>1, <1>2 DEF Typed, TypeOK
<1>4. \A j \in Buckets : ~ Between(h, h, j)
  BY <1>3, Around
<1> QED
  BY <1>1, <1>2, <1>4 DEF Passing, Finds, Between

LEMMA StepTable ==
  ASSUME RoomForAll, Typed, Table, Searches, NEW t \in Threads, Step(t)
  PROVE  Table' /\ Grows
<1>1. Places
  BY DEF Table
<1>2. CASE \E i \in DOMAIN res : Take(t, i)
  BY <1>1, <1>2, TakeAside, AsideCalm, CalmTable
<1>3. CASE Room(t)
  BY <1>1, <1>3, RoomAside, AsideCalm, CalmTable
<1>4. CASE Probe(t)
  BY <1>1, <1>4, ProbeAside, AsideCalm, CalmTable
<1>5. CASE Compare(t)
  BY <1>1, <1>5, CompareAside, AsideCalm, CalmTable
<1>6. CASE Found(t) \/ Created(t) \/ LookupName(t)
  BY <1>1, <1>6, AnswerAside, AsideCalm, CalmTable
<1>7. CASE Claim(t)
  BY <1>7, ClaimTable
<1>8. CASE Again(t)
  BY <1>8, AgainTable
<1>9. CASE Reserve(t)
  BY <1>9, ReserveTable
<1>10. CASE Number(t)
  BY <1>10, NumberTable
<1>11. CASE Invert(t)
  BY <1>11, InvertTable
<1>12. CASE Publish(t)
  BY <1>12, PublishTable
<1> QED
  BY <1>2, <1>3, <1>4, <1>5, <1>6, <1>7, <1>8, <1>9, <1>10, <1>11, <1>12 DEF Step

LEMMA StepSearches ==
  ASSUME RoomForAll, Typed, Table, Searches, NEW t \in Threads, Step(t)
  PROVE  Searches'
<1>1. Grows /\ \A u \in Threads : u # t => Rests(u)
  BY StepTable, OthersRest
<1>2. \A u \in Threads : u # t => Passing(u)' /\ Finds(u)'
  BY <1>1, RestsSearches DEF Searches
<1>3. Passing(t) /\ Finds(t)
  BY DEF Searches
<1> SUFFICES Passing(t)' /\ Finds(t)'
  BY <1>2 DEF Searches
<1> USE DEF SearchPcs, HoldPcs, FillPcs
<1>4. th'[t].pc \in {"idle", "created"} => Passing(t)' /\ Finds(t)'
  BY DEF Passing, Finds
<1>5. CASE \E i \in DOMAIN res : Take(t, i)
  BY <1>5, TakeSearches
<1>6. CASE Room(t)
  <2>1. th'[t].pc = "idle" \/ (Searching(t) /\ th'[t].pc # "found")
    BY <1>6, RoomAside DEF Searching
  <2> QED
    BY <1>1, <1>3, <1>4, <2>1, PassingKept DEF Finds
<1>7. CASE Probe(t)
  <2>1. th'[t].pc = "idle" \/ (Searching(t) /\ th'[t].pc # "found")
    BY <1>7, ProbeAside DEF Searching
  <2> QED
    BY <1>1, <1>3, <1>4, <2>1, PassingKept DEF Finds
<1>8. CASE Compare(t)
  BY <1>1, <1>3, <1>8, CompareSearches
<1>9. CASE Found(t) \/ Created(t) \/ LookupName(t)
  BY <1>4, <1>9, AnswerAside
<1>10. CASE Claim(t)
  <2>1. th[t].pc = "claim" /\ \E p : Onward(t, p, "reserve") \/ Onward(t, p, "again")
    BY <1>10, ClaimTable
  <2> QED
    BY <1>1, <1>3, <2>1, OnwardSearches
<1>11. CASE Again(t)
  <2>1. th[t].pc = "again"
        /\ \/ Onward(t, th[t].place, "found") /\ Matches(Query(t), th[t].place)
           \/ Onward(t, th[t].place, "hung")
    BY <1>11, AgainTable
  <2>2. th[t].place \in DOMAIN text /\ Owns(th[t].index, th[t].place)
    BY <2>1 DEF Table, Places, Owns
  <2>3. CASE Onward(t, th[t].place, "found") /\ Matches(Query(t), th[t].place)
    BY <1>1, <2>2, <2>3, FoundThere DEF Onward
  <2>4. CASE Onward(t, th[t].place, "hung")
    BY <1>1, <1>3, <2>1, <2>4, OnwardSearches
  <2> QED
    BY <2>1, <2>3, <2>4
<1>12. CASE Reserve(t)
  <2>1. th[t].pc = "reserve" /\ (th'[t].pc = "idle" \/ Onward(t, next_string, "number"))
    BY <1>12, ReserveTable
  <2> QED
    BY <1>1, <1>3, <1>4, <2>1, OnwardSearches
<1>13. CASE Number(t)
  BY <1>1, <1>3, <1>13, NumberTable, OnwardSearches
<1>14. CASE Invert(t)
  BY <1>1, <1>3, <1>14, InvertTable, OnwardSearches
<1>15. CASE Publish(t)
  BY <1>4, <1>15, PublishTable DEF Onward
<1> QED
  BY <1>5, <1>6, <1>7, <1>8, <1>9, <1>10, <1>11, <1>12, <1>13, <1>14, <1>15 DEF Step

LEMMA AnsweredKept ==
  ASSUME Grows, NEW a, Answered(a)
  PROVE  Answered(a)'
<1>1. Asks(work, a.call.name)'
  BY DEF Grows, Answered, Asks
<1>2. a.rtn = 1 => a.call.kind # "name"
  BY DEF Answered
<1>3. ASSUME a.call.kind # "name", a.rtn # -1
      PROVE  (\E i \in Buckets : \E p \in DOMAIN text :
                /\ Owns(i, p) /\ a.out = NumberAt(i)
                /\ IF a.rtn = 1 THEN text[p] = a.call.name
                   ELSE <<a.call.name, text[p]>> \in PrefixOf)'
  <2>1. PICK i \in Buckets : \E p \in DOMAIN text :
                /\ Owns(i, p) /\ a.out = NumberAt(i)
                /\ IF a.rtn = 1 THEN text[p] = a.call.name
                   ELSE <<a.call.name, text[p]>> \in PrefixOf
    BY <1>3 DEF Answered
  <2> QED
    BY <2>1 DEF Grows
<1> QED
  BY <1>1, <1>2, <1>3 DEF Answered

(* One more answer.                                                        *)
LEMMA AnswersGrow ==
  ASSUME Grows, Answers, NEW b, answers' = answers \cup {b}, Answered(b)',
         b.rtn = 1 => \A a \in answers : a.rtn = 1 => a.call.name # b.call.name
  PROVE  Answers'
<1>1. \A a \in answers : Answered(a)'
  BY AnsweredKept DEF Answers
<1> QED
  BY <1>1 DEF Answers

LEMMA CreatingKept ==
  ASSUME Typed, Grows, Creating,
         \A u \in Threads : th'[u].pc = "created" => th[u].pc = "created" /\ Rests(u),
         \A u \in Threads : \A b \in answers' :
           th'[u].pc = "created" /\ b.rtn = 1 => b \in answers \/ b.call.name # Query(u)
  PROVE  Creating'
<1>1. ASSUME NEW u \in Threads, th'[u].pc = "created"
      PROVE  Keeps(th[u].index, Query(u))'
  <2>1. PICK i \in Buckets : i = th[u].index
    BY DEF Typed, TypeOK
  <2>2. th[u].pc = "created" /\ Rests(u)
    BY <1>1
  <2>3. PICK p \in DOMAIN text : Owns(i, p) /\ text[p] = Query(u)
    BY <2>1, <2>2 DEF Creating, Keeps
  <2>4. p \in DOMAIN text' /\ text'[p] = Query(u)' /\ Owns(i, p)'
    BY <2>2, <2>3 DEF Grows, Rests
  <2> QED
    BY <2>1, <2>2, <2>4 DEF Keeps, Owns, Rests
<1>2. ASSUME NEW u \in Threads, th'[u].pc = "created"
      PROVE  \A a \in answers' : a.rtn = 1 => a.call.name # Query(u)'
  BY <1>2 DEF Creating, Rests
<1>3. \A u, x \in Threads :
       th'[u].pc = "created" /\ th'[x].pc = "created" /\ Query(u)' = Query(x)' => u = x
  BY DEF Creating, Rests
<1> QED
  BY <1>1, <1>2, <1>3 DEF Creating

LEMMA Asked ==
  ASSUME Typed, NEW t \in Threads, th[t].pc # "idle"
  PROVE  Asks(work, Query(t))
  BY DEF Typed, Tasks, Asks, Query, Call

LEMMA QuietStep ==
  ASSUME Typed, Grows, Creating, Answers, NEW t \in Threads, answers' = answers,
         th'[t].pc # "created", \A u \in Threads : u # t => Rests(u)
  PROVE  Creating' /\ Answers'
<1>1. Answers'
  <2>1. \A a \in answers : Answered(a)'
    BY AnsweredKept DEF Answers
  <2> QED
    BY <2>1 DEF Answers
<1>2. \A u \in Threads : th'[u].pc = "created" => th[u].pc = "created" /\ Rests(u)
  BY DEF Rests
<1> QED
  BY <1>1, <1>2, CreatingKept

LEMMA AnswerStep ==
  ASSUME Typed, Grows, Creating, Answers, NEW t \in Threads, th[t].pc # "idle",
         NEW rtn \in {-1, 0, 1}, NEW out, Answer(t, rtn, out), th'[t].pc = "idle",
         \A u \in Threads : u # t => Rests(u),
         rtn = 1 => th[t].pc = "created" /\ Call(t).kind # "name",
         Call(t).kind # "name" /\ rtn # -1 =>
           \E i \in Buckets : \E p \in DOMAIN text :
             /\ Owns(i, p) /\ out = NumberAt(i)
             /\ IF rtn = 1 THEN text[p] = Query(t) ELSE <<Query(t), text[p]>> \in PrefixOf
  PROVE  Creating' /\ Answers'
<1>1. PICK b : b = [call |-> Call(t), rtn |-> rtn, out |-> out]
  OBVIOUS
<1>2. answers' = answers \cup {b}
  BY <1>1 DEF Answer
<1>3. b.call = Call(t) /\ b.rtn = rtn /\ b.out = out /\ b.call.name = Query(t)
  BY <1>1 DEF Query
<1>4. Answered(b)
  <2>1. Asks(work, b.call.name)
    BY <1>3, Asked
  <2> QED
    BY <1>3, <2>1 DEF Answered
<1>5. Answered(b)'
  BY <1>4, AnsweredKept
<1>6. b.rtn = 1 => \A a \in answers : a.rtn = 1 => a.call.name # b.call.name
  BY <1>3 DEF Creating
<1>7. Answers'
  BY <1>2, <1>5, <1>6, AnswersGrow
<1>8. \A u \in Threads : th'[u].pc = "created" => th[u].pc = "created" /\ Rests(u) /\ u # t
  BY DEF Rests
<1>9. \A u \in Threads : \A a \in answers' :
        th'[u].pc = "created" /\ a.rtn = 1 => a \in answers \/ a.call.name # Query(u)
  <2> SUFFICES ASSUME NEW u \in Threads, th'[u].pc = "created", b.rtn = 1
               PROVE  b.call.name # Query(u)
    BY <1>2
  <2> QED
    BY <1>3, <1>8 DEF Creating
<1> QED
  BY <1>7, <1>8, <1>9, CreatingKept

LEMMA FailedStep ==
  ASSUME Typed, Grows, Creating, Answers, NEW t \in Threads, th[t].pc # "idle",
         NEW out, Answer(t, -1, out), th'[t].pc = "idle",
         \A u \in Threads : u # t => Rests(u)
  PROVE  Creating' /\ Answers'
<1>1. -1 \in {-1, 0, 1} /\ -1 # 1
  OBVIOUS
<1> QED
  BY <1>1, AnswerStep

LEMMA FoundStep ==
  ASSUME Typed, Grows, Searches, Creating, Answers, NEW t \in Threads, Found(t),
         \A u \in Threads : u # t => Rests(u)
  PROVE  Creating' /\ Answers'
<1>1. th[t].pc = "found" /\ Answer(t, 0, word[ToInt(th[t].index)])
  BY DEF Found, At
<1>2. PICK i \in Buckets : i = th[t].index
  BY DEF Typed, TypeOK
<1>3. PICK p \in DOMAIN text : Owns(i, p) /\ <<Query(t), text[p]>> \in PrefixOf
  BY <1>1, <1>2 DEF Searches, Finds
<1>4. PICK out : out = NumberAt(i)
  OBVIOUS
<1>5. Answer(t, 0, out)
  BY <1>1, <1>2, <1>4 DEF NumberAt
<1>6. th'[t].pc = "idle"
  BY AnswerAside
<1>7. 0 \in {-1, 0, 1} /\ 0 # 1
  OBVIOUS
<1> QED
  BY <1>1, <1>3, <1>4, <1>5, <1>6, <1>7, AnswerStep

LEMMA CreatedStep ==
  ASSUME Typed, Grows, Creating, Answers, NEW t \in Threads, Created(t),
         \A u \in Threads : u # t => Rests(u)
  PROVE  Creating' /\ Answers'
<1>1. th[t].pc = "created" /\ Answer(t, 1, word[ToInt(th[t].index)])
  BY DEF Created, At
<1>2. PICK i \in Buckets : i = th[t].index
  BY DEF Typed, TypeOK
<1>3. PICK p \in DOMAIN text : Owns(i, p) /\ text[p] = Query(t)
  BY <1>1, <1>2 DEF Creating, Keeps
<1>4. PICK out : out = NumberAt(i)
  OBVIOUS
<1>5. Answer(t, 1, out)
  BY <1>1, <1>2, <1>4 DEF NumberAt
<1>6. th'[t].pc = "idle"
  BY AnswerAside
<1>7. Call(t).kind # "name"
  BY <1>1 DEF Typed, Tasks
<1>8. 1 \in {-1, 0, 1}
  OBVIOUS
<1> QED
  BY <1>1, <1>3, <1>4, <1>5, <1>6, <1>7, <1>8, AnswerStep

LEMMA LookupNameStep ==
  ASSUME Typed, Grows, Creating, Answers, NEW t \in Threads, LookupName(t),
         \A u \in Threads : u # t => Rests(u)
  PROVE  Creating' /\ Answers'
<1>1. th[t].pc = "inverse" /\ \E out : Answer(t, 0, out)
  BY DEF LookupName, At
<1>2. th'[t].pc = "idle"
  BY AnswerAside
<1>3. Call(t).kind = "name"
  BY <1>1 DEF Typed, Tasks
<1>4. 0 \in {-1, 0, 1} /\ 0 # 1
  OBVIOUS
<1> QED
  BY <1>1, <1>2, <1>3, <1>4, AnswerStep

(* A creation is published: nobody else has created the string, or its     *)
(* bucket would be this one.                                               *)
LEMMA PublishStep ==
  ASSUME RoomForAll, Typed, Table, Searches, Creating, Answers, NEW t \in Threads, Publish(t)
  PROVE  Creating' /\ Answers'
<1>1. /\ Grows /\ th[t].pc = "publish" /\ Onward(t, th[t].place, "created")
      /\ Keeps(th[t].index, Query(t))'
  BY PublishTable
<1>2. PICK i \in Buckets : i = th[t].index
  BY DEF Typed, TypeOK
<1>3. Query(t) \in Names /\ Has(i, Query(t)) /\ \A p \in DOMAIN text : ~ Owns(i, p)
  <2>1. Query(t) \in Names
    BY <1>1, CallOf
  <2>2. Has(i, Query(t))
    BY <1>1, <1>2 DEF Has, Fills, FillPcs
  <2>3. \A p \in DOMAIN text : ~ Owns(i, p)
    BY <1>1, <1>2, FilledByOne DEF Table, FillPcs
  <2> QED
    BY <2>1, <2>2, <2>3
<1>4. \A j \in Buckets : ~ Keeps(j, Query(t))
  BY <1>3 DEF Table, Single, Has, Keeps
<1>5. \A u \in Threads : th[u].pc = "created" => Query(u) # Query(t)
  BY <1>4 DEF Creating, Typed, TypeOK
<1>6. ASSUME NEW a \in answers, a.rtn = 1 PROVE a.call.name # Query(t)
  <2>1. Answered(a) /\ a.rtn # -1
    BY <1>6 DEF Answers
  <2>2. PICK j \in Buckets : \E p \in DOMAIN text : Owns(j, p) /\ text[p] = a.call.name
    BY <1>6, <2>1 DEF Answered
  <2>3. Keeps(j, a.call.name)
    BY <2>2 DEF Keeps
  <2> QED
    BY <1>4, <2>3
<1>7. Answers'
  <2>1. \A a \in answers : Answered(a)'
    BY <1>1, AnsweredKept DEF Answers
  <2> QED
    BY <1>1, <2>1 DEF Answers, Onward
<1>8. ASSUME NEW u \in Threads, th'[u].pc = "created"
      PROVE  /\ Keeps(th[u].index, Query(u))'
             /\ \A a \in answers' : a.rtn = 1 => a.call.name # Query(u)'
  <2>1. CASE u = t
    BY <1>1, <1>6, <2>1 DEF Onward
  <2>2. CASE u # t
    <3>1. th[u].pc = "created" /\ Rests(u)
      BY <1>1, <1>8, <2>2 DEF Onward, Rests
    <3>2. PICK j \in Buckets : j = th[u].index
      BY DEF Typed, TypeOK
    <3>3. PICK p \in DOMAIN text : Owns(j, p) /\ text[p] = Query(u)
      BY <3>1, <3>2 DEF Creating, Keeps
    <3>4. p \in DOMAIN text' /\ text'[p] = Query(u)' /\ Owns(j, p)'
      BY <1>1, <3>1, <3>3 DEF Grows, Rests
    <3>5. Keeps(th[u].index, Query(u))'
      BY <3>1, <3>2, <3>4 DEF Keeps, Owns, Rests
    <3> QED
      BY <1>1, <3>1, <3>5 DEF Creating, Onward, Rests
  <2> QED
    BY <2>1, <2>2
<1>9. \A u, x \in Threads :
       th'[u].pc = "created" /\ th'[x].pc = "created" /\ Query(u)' = Query(x)' => u = x
  BY <1>1, <1>5 DEF Creating, Onward, Rests
<1> QED
  BY <1>7, <1>8, <1>9 DEF Creating

LEMMA StepAnswers ==
  ASSUME RoomForAll, Typed, Table, Searches, Creating, Answers, NEW t \in Threads, Step(t)
  PROVE  Creating' /\ Answers'
<1>1. Grows /\ \A u \in Threads : u # t => Rests(u)
  BY StepTable, OthersRest
<1>2. CASE \E i \in DOMAIN res : Take(t, i)
  <2>1. answers' = answers /\ th'[t].pc # "created"
    BY <1>2, TakeAside
  <2> QED
    BY <1>1, <2>1, QuietStep
<1>3. CASE Room(t)
  BY <1>1, <1>3, RoomAside, QuietStep, FailedStep
<1>4. CASE Probe(t)
  BY <1>1, <1>4, ProbeAside, QuietStep, FailedStep
<1>5. CASE Compare(t)
  BY <1>1, <1>5, CompareAside, QuietStep, FailedStep
<1>6. CASE Found(t) \/ Created(t) \/ LookupName(t)
  BY <1>1, <1>6, FoundStep, CreatedStep, LookupNameStep
<1>7. CASE Claim(t)
  BY <1>1, <1>7, ClaimTable, QuietStep DEF Onward
<1>8. CASE Again(t)
  BY <1>1, <1>8, AgainTable, QuietStep DEF Onward
<1>9. CASE Reserve(t)
  BY <1>1, <1>9, ReserveTable, QuietStep, FailedStep DEF Onward
<1>10. CASE Number(t)
  BY <1>1, <1>10, NumberTable, QuietStep DEF Onward
<1>11. CASE Invert(t)
  BY <1>1, <1>11, InvertTable, QuietStep DEF Onward
<1>12. CASE Publish(t)
  BY <1>12, PublishStep
<1> QED
  BY <1>2, <1>3, <1>4, <1>5, <1>6, <1>7, <1>8, <1>9, <1>10, <1>11, <1>12 DEF Step

------------------------------------------------------------------------------
(* The invariant.                                                          *)
LEMMA InitInv == Init => IInv
<1> SUFFICES ASSUME Init PROVE IInv
  OBVIOUS
<1>1. /\ DOMAIN text = {} /\ answers = {} /\ next_type = 0 /\ next_string = 1
      /\ \A t \in Threads : th[t] = Idle /\ th[t].pc = "idle"
  BY DEF Init, Idle
<1>2. \A i \in Buckets : InBucket(i) = 0
  BY Cells DEF Init, InBucket
<1> USE DEF SearchPcs, HoldPcs, FillPcs, LatePcs
<1>3. Locks /\ Places
  BY <1>1, <1>2 DEF Locks, Places
<1>4. \A i \in Buckets : (\A p : ~ Owns(i, p)) /\ ~ Numbered(i) /\ \A n : ~ Has(i, n)
  BY <1>1 DEF Owns, Numbered, Has, Keeps, Fills
<1>5. StoredNames = {}
  BY <1>1 DEF StoredNames
<1>6. Numbers
  BY <1>1, <1>4, <1>5, FS_EmptySet DEF Numbers
<1>7. Ordered /\ Single /\ Housed /\ Inverses
  BY <1>1, <1>4 DEF Ordered, Single, Housed, Inverses
<1>8. Searches /\ Creating /\ Answers
  BY <1>1 DEF Searches, Passing, Finds, Creating, Answers
<1> QED
  BY <1>3, <1>6, <1>7, <1>8, InitTyped DEF IInv, Table

(* What a step leaves that is no step of a thread.                         *)
LEMMA IdleInv ==
  ASSUME RoomForAll, IInv, Typed', th' = th, UNCHANGED <<work, word, storeVars, answers>>,
         phase' = phase \/ \A t \in Threads : th[t].pc = "idle"
  PROVE  IInv'
<1> USE DEF SearchPcs, HoldPcs, FillPcs
<1>1. \A u \in Threads : th[u].pc # "idle" => Rests(u)
  BY DEF Rests, Query, Call
<1>2. Calm
  BY <1>1 DEF Calm, IInv, Table, Places, storeVars
<1>3. Table' /\ Grows
  BY <1>2, CalmTable DEF IInv
<1>4. Searches'
  <2> SUFFICES ASSUME NEW u \in Threads PROVE Passing(u)' /\ Finds(u)'
    BY DEF Searches
  <2>1. CASE th[u].pc = "idle"
    BY <2>1 DEF Passing, Finds
  <2>2. CASE th[u].pc # "idle"
    BY <1>1, <1>3, <2>2, RestsSearches DEF IInv, Searches
  <2> QED
    BY <2>1, <2>2
<1>5. Creating'
  <2>1. \A u \in Threads : th'[u].pc = "created" => th[u].pc = "created" /\ Rests(u)
    BY <1>1
  <2> QED
    BY <1>3, <2>1, CreatingKept DEF IInv
<1>6. Answers'
  <2>1. \A a \in answers : Answered(a)'
    BY <1>3, AnsweredKept DEF IInv, Answers
  <2> QED
    BY <2>1 DEF IInv, Answers
<1> QED
  BY <1>3, <1>4, <1>5, <1>6 DEF IInv

LEMMA NextInv ==
  ASSUME RoomForAll, IInv, [Next]_vars
  PROVE  IInv'
<1>1. Typed'
  BY NextTyped DEF IInv
<1>2. CASE Barrier
  <2>1. th' = th /\ \A t \in Threads : th[t].pc = "idle"
    BY <1>2, BarrierTyped DEF IInv
  <2> QED
    BY <1>1, <1>2, <2>1, IdleInv DEF Barrier
<1>3. CASE UNCHANGED vars
  BY <1>1, <1>3, IdleInv DEF vars, storeVars
<1>4. ASSUME NEW t \in Threads, Step(t) PROVE IInv'
  <2>1. Table' /\ Searches'
    BY <1>4, StepTable, StepSearches DEF IInv
  <2>2. Creating' /\ Answers'
    BY <1>4, StepAnswers DEF IInv
  <2> QED
    BY <1>1, <2>1, <2>2 DEF IInv
<1> QED
  BY <1>2, <1>3, <1>4 DEF Next, Over

LEMMA InvHolds == RoomForAll => (Spec => []IInv)
<1> SUFFICES ASSUME RoomForAll PROVE Spec => []IInv
  OBVIOUS
<1>1. Init => IInv
  BY InitInv
<1>2. IInv /\ [Next]_vars => IInv'
  BY NextInv
<1> QED
  BY <1>1, <1>2, PTL DEF Spec

(* A string whose creation has been answered is found from then on, by its *)
(* name and by its number, unless some thread is caught in the table: the  *)
(* search of stinger_names_lookup_type comes from its hash to its bucket,  *)
(* past buckets that other strings fill, and reads the number that was     *)
(* answered, and that number leads back to it.  No workload creates more   *)
(* strings than the map has numbers (stinger_names_create_type).           *)
THEOREM CreatedStays == RoomForAll => (Spec => []CreatedIsFound)
<1>1. IInv => CreatedIsFound
  <2> SUFFICES ASSUME IInv, NEW a \in answers, a.rtn = 1
               PROVE  \E i \in Buckets, p \in DOMAIN text :
                        /\ text[p] = a.call.name /\ Owns(i, p)
                        /\ word[ToInt(i)] = a.out /\ word[ToName(a.out)] = p
                        /\ \A j \in Buckets : Between(Hash[a.call.name], i, j) =>
                             \E q \in DOMAIN text : Owns(j, q) /\ ~Matches(a.call.name, q)
    BY DEF CreatedIsFound
  <2>1. Answered(a) /\ a.rtn # -1
    BY DEF IInv, Answers
  <2>2. PICK i \in Buckets : \E p \in DOMAIN text :
          Owns(i, p) /\ a.out = NumberAt(i) /\ text[p] = a.call.name
    BY <2>1 DEF Answered
  <2>3. PICK p \in DOMAIN text : Owns(i, p) /\ a.out = NumberAt(i) /\ text[p] = a.call.name
    BY <2>2
  <2>4. PlaceOf(NumberAt(i)) = p
    BY <2>3 DEF IInv, Table, Inverses
  <2>5. \A j \in Buckets : Between(Hash[a.call.name], i, j) =>
          \E q \in DOMAIN text : Owns(j, q) /\ ~Matches(a.call.name, q)
    BY <2>3 DEF IInv, Table, Ordered, Matches
  <2> QED
    BY <2>3, <2>4, <2>5 DEF NumberAt, PlaceOf
<1> QED
  BY <1>1, InvHolds, PTL

(* No string that a workload asks for is a proper prefix of one that it    *)
(* creates: strncmp over the length of the query takes the two for the     *)
(* same.                                                                   *)
NoPrefixes ==
  \A w \in Workloads : \A m, n \in Names :
    Asks(w, m) /\ Creates(w, n) /\ <<m, n>> \in PrefixOf => m = n

(* One string has one number and one number one string, whatever races;    *)
(* and a string is created once: the answers of stinger_names_create_type  *)
(* and stinger_names_lookup_type agree with each other for ever.           *)
THEOREM AnswersRight == RoomForAll /\ NoPrefixes => (Spec => []AnswersAgree)
<1> SUFFICES ASSUME RoomForAll, NoPrefixes PROVE Spec => []AnswersAgree
  OBVIOUS
<1>1. IInv => AnswersAgree
  <2> SUFFICES ASSUME IInv PROVE AnswersAgree
    OBVIOUS
  <2> DEFINE Told == {x \in answers : x.call.kind # "name" /\ x.rtn # -1}
  <2>1. ASSUME NEW x \in Told
        PROVE  \E i \in Buckets : \E p \in DOMAIN text :
                 Owns(i, p) /\ x.out = NumberAt(i) /\ text[p] = x.call.name
    <3>1. Answered(x) /\ x.call.name \in Names
      BY DEF IInv, Answers, Typed, TypeOK, Calls
    <3>2. PICK i \in Buckets : \E p \in DOMAIN text :
            /\ Owns(i, p) /\ x.out = NumberAt(i)
            /\ IF x.rtn = 1 THEN text[p] = x.call.name
               ELSE <<x.call.name, text[p]>> \in PrefixOf
      BY <3>1 DEF Answered
    <3>3. PICK p \in DOMAIN text :
            /\ Owns(i, p) /\ x.out = NumberAt(i)
            /\ IF x.rtn = 1 THEN text[p] = x.call.name
               ELSE <<x.call.name, text[p]>> \in PrefixOf
      BY <3>2
    <3>4. text[p] \in Names /\ Creates(work, text[p]) /\ work \in Workloads
      BY DEF IInv, Table, Numbers, StoredNames, Typed, TypeOK
    <3>5. text[p] = x.call.name
      BY <3>1, <3>3, <3>4 DEF NoPrefixes, Answered
    <3> QED
      BY <3>3, <3>5
  <2>2. ASSUME NEW a \in Told, NEW b \in Told
        PROVE  a.call.name = b.call.name <=> a.out = b.out
    <3>1. PICK i \in Buckets : \E p \in DOMAIN text :
            Owns(i, p) /\ a.out = NumberAt(i) /\ text[p] = a.call.name
      BY <2>1
    <3>2. PICK p \in DOMAIN text : Owns(i, p) /\ a.out = NumberAt(i) /\ text[p] = a.call.name
      BY <3>1
    <3>3. PICK j \in Buckets : \E q \in DOMAIN text :
            Owns(j, q) /\ b.out = NumberAt(j) /\ text[q] = b.call.name
      BY <2>1
    <3>4. PICK q \in DOMAIN text : Owns(j, q) /\ b.out = NumberAt(j) /\ text[q] = b.call.name
      BY <3>3
    <3>5. ASSUME a.call.name = b.call.name PROVE a.out = b.out
      <4>1. a.call.name \in Names /\ Has(i, a.call.name) /\ Has(j, a.call.name)
        BY <3>2, <3>4, <3>5 DEF IInv, Typed, TypeOK, Has, Keeps
      <4>2. i = j
        BY <4>1 DEF IInv, Table, Single
      <4> QED
        BY <3>2, <3>4, <4>2
    <3>6. ASSUME a.out = b.out PROVE a.call.name = b.call.name
      <4>1. Numbered(i) /\ Numbered(j) /\ NumberAt(i) = NumberAt(j)
        BY <3>2, <3>4, <3>6 DEF Numbered
      <4>2. i = j
        BY <4>1 DEF IInv, Table, Numbers
      <4>3. p = q
        BY <3>2, <3>4, <4>2, OneOwner DEF IInv, Table
      <4> QED
        BY <3>2, <3>4, <4>3
    <3> QED
      BY <3>5, <3>6
  <2>3. \A a, b \in Told : a.rtn = 1 /\ b.rtn = 1 /\ a.call.name = b.call.name => a = b
    BY DEF IInv, Answers
  <2> QED
    BY <2>2, <2>3 DEF AnswersAgree
<1>2. Spec => []IInv
  BY InvHolds
<1> QED
  BY <1>1, <1>2, PTL
=============================================================================

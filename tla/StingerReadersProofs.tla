------------------------ MODULE StingerReadersProofs -------------------------
(***************************************************************************)
(* Proof that a traversal beside the threads that update the store reads   *)
(* only what is stored, if it only reads, and meets every edge that stays  *)
(* there once, if it is after all edges of a vertex or of a type, for      *)
(* every number of threads, vertices, blocks and slots and for every       *)
(* workload.                                                               *)
(*                                                                         *)
(* A reader shares no lock with the updates, so what it has met is         *)
(* accounted for by position: the slots Behind it are those it has been    *)
(* at, or come past in the order of the list or of the array.  Blocks are  *)
(* only added behind all others of their list and in places that were      *)
(* empty, marks never fall, and an edge never changes its slot.            *)
(***************************************************************************)
EXTENDS StingerReaders, StingerEdgeSetProofs

(* The program counters of a reader; of one that is in block rd.b.         *)
ReaderPcs == {"none", "head", "place", "block", "high", "slot", "copy", "next", "done", "wild"}
HerePcs   == {"block", "high", "slot", "copy"}
Running   == rd.pc \notin {"none", "done", "wild"}

Kinds == {"vertex", "typed", "array", "modify"}

ReaderLocals ==
  [pc : ReaderPcs, kind : Kinds, v : Vertices, e : Nat, p : Nat, b : Int, i : Nat,
   in : BOOLEAN]

(* What the body of a traversal is run on: type, source, destination.      *)
Triples == Int \X Int \X Int
ReaderOK ==
  /\ rd \in ReaderLocals
  /\ rd.pc # "none" => rd.e \in Types
  /\ seen \in Seq(Triples)
  /\ rd.pc = "none" => seen = <<>>

(* A reader of a list is in a block of the list, and one of an array in    *)
(* the block it found at its place; it looks at the slots of blocks of the *)
(* type it was asked for, and below the mark.                              *)
Whereabouts ==
  /\ rd.pc = "head" => rd.kind # "array"
  /\ rd.pc = "place" => rd.kind = "array"
  /\ rd.pc \in HerePcs \cup {"next"} /\ rd.kind # "array" =>
       rd.b \in Listed /\ eb[rd.b].vertex = rd.v
  /\ rd.pc \in HerePcs /\ rd.kind = "array" =>
       /\ rd.p < eta[rd.e].high /\ eta[rd.e].blocks[rd.p] = rd.b /\ rd.b # 0
  /\ rd.pc \in {"high", "slot", "copy"} /\ rd.kind \in {"typed", "array"} => eb[rd.b].type = rd.e
  /\ rd.pc \in {"slot", "copy"} => rd.i < eb[rd.b].high

(* Slot j of block d has been passed.                                      *)
InPlace(d, q) == q \in 0..eta[rd.e].high-1 /\ eta[rd.e].blocks[q] = d
Behind(d, j) ==
  IF rd.kind = "array"
  THEN \E q \in Nat : InPlace(d, q) /\
         (q < rd.p \/ (q = rd.p /\ (rd.pc = "next" \/ (rd.pc \in HerePcs /\ j < rd.i))))
  ELSE \/ rd.pc \in HerePcs /\ (d < rd.b \/ (d = rd.b /\ j < rd.i))
       \/ rd.pc = "next" /\ d <= rd.b

Met(x)   == \E n \in DOMAIN seen : \A m \in DOMAIN seen : seen[m] = x <=> m = n
Unmet(x) == \A n \in DOMAIN seen : seen[n] # x

Histories == stable \subseteq Edges /\ Stored \subseteq ever

Accounts ==
  \A d \in Listed : \A j \in Slots :
    Occupied(d, j) /\ EdgeIn(d, j) \in Wanted(stable) =>
      IF Behind(d, j) THEN Met(EdgeIn(d, j)) ELSE Unmet(EdgeIn(d, j))

Reading ==
  /\ ReaderOK /\ Whereabouts /\ ReadsStored /\ SeesStable
  /\ Running => Histories /\ Accounts

(* What fills a place of an array is a block of its type.                  *)
Filled ==
  \A e \in Types : \A q \in 0..PoolSize-1 : \A b \in Blocks : eta[e].blocks[q] = b =>
    b < tail /\ b + 1 < PoolSize /\ eb[b].type = e

------------------------------------------------------------------------------
(* The arrays.  Places are only filled once and marks only rise.           *)
LEMMA ArrayStep ==
  ASSUME IInv, Arrays, NEW t \in Threads, Step(t), NEW e \in Types
  PROVE  /\ eta[e].high \in Nat /\ eta'[e].high \in Nat /\ eta[e].high <= eta'[e].high
         /\ \A q \in 0..PoolSize-1 :
              \/ eta'[e].blocks[q] = eta[e].blocks[q]
              \/ /\ th[t].pc = "push" /\ e = Op(t).type /\ eta[e].blocks[q] = 0
                 /\ eta'[e].blocks[q] = th[t].tmp
<1>1. EtaType BY DEF IInv, TypeOK, EtaType
<1>2. eta[e].high \in Nat BY <1>1 DEF EtaType
<1>3. CASE FillPlace(t)
  <2>. SUFFICES ASSUME NEW a, NEW n, NEW m, a = Op(t).type, n = th[t].k, m = th[t].tmp
                PROVE  /\ eta'[e].high = eta[e].high
                       /\ \A q \in 0..PoolSize-1 :
                            \/ eta'[e].blocks[q] = eta[e].blocks[q]
                            \/ e = a /\ eta[e].blocks[q] = 0 /\ eta'[e].blocks[q] = m
       BY <1>2, <1>3, SMT DEF FillPlace, At
  <2>1. th[t].pc = "push" /\ eta' = [eta EXCEPT ![a].blocks[n] = m]
        BY <1>3, Zenon DEF FillPlace, At
  <2>2. a \in Types /\ eta[a].blocks[n] = 0 BY <2>1, OpFields DEF Arrays, Claims
  <2>3. /\ eta[a] \in [high : Nat, blocks : [0..PoolSize-1 -> 0..PoolSize-1]]
        /\ \A c \in Types \ {a} : eta'[c] = eta[c]
        /\ eta'[a] = [eta[a] EXCEPT !.blocks = [eta[a].blocks EXCEPT ![n] = m]]
        BY <1>1, <2>1, <2>2 DEF EtaType
  <2>4. /\ eta'[a].high = eta[a].high
        /\ eta'[a].blocks = [eta[a].blocks EXCEPT ![n] = m]
        /\ eta[a].blocks \in [0..PoolSize-1 -> 0..PoolSize-1]
        BY <2>3
  <2>5. \A q \in 0..PoolSize-1 : eta'[a].blocks[q] = IF q = n THEN m ELSE eta[a].blocks[q]
        BY <2>4
  <2>6. CASE e = a BY <2>2, <2>4, <2>5, <2>6
  <2>7. CASE e # a BY <2>3, <2>7
  <2>. QED BY <2>6, <2>7
<1>4. CASE ClaimPlace(t)
  <2>. SUFFICES ASSUME NEW a, a = Op(t).type
                PROVE  eta'[e].high \in {eta[e].high, eta[e].high + 1}
                       /\ eta'[e].blocks = eta[e].blocks
       BY <1>2
  <2>1. eta' = [eta EXCEPT ![a].high = @ + 1] BY <1>4, Zenon DEF ClaimPlace
  <2>. QED BY <1>1, <2>1, SMT DEF EtaType
<1>5. CASE ~FillPlace(t) /\ ~ClaimPlace(t)
  <2>1. eta' = eta
    <3>1. CASE NewBlock(t) \/ PoolExhausted(t) BY <3>1 DEF NewBlock, PoolExhausted
    <3>. QED BY <1>5, <3>1, NoArraySteps
  <2>. QED BY <1>2, <2>1
<1>. QED BY <1>3, <1>4, <1>5

(* A listed block keeps its place, and has no other.                       *)
LEMMA PlacesStay ==
  ASSUME IInv, IInv', Arrays, Arrays', NEW t \in Threads, Step(t),
         NEW e \in Types, NEW d \in Listed, NEW q
  PROVE  q \in 0..eta'[e].high-1 /\ eta'[e].blocks[q] = d <=>
           q \in 0..eta[e].high-1 /\ eta[e].blocks[q] = d
<1>1. /\ eta[e].high \in Nat /\ eta'[e].high \in Nat /\ eta[e].high <= eta'[e].high
      /\ \A i \in 0..PoolSize-1 :
           \/ eta'[e].blocks[i] = eta[e].blocks[i]
           \/ /\ th[t].pc = "push" /\ eta[e].blocks[i] = 0 /\ eta'[e].blocks[i] = th[t].tmp
      BY ArrayStep
<1>2. d # 0 /\ (th[t].pc = "push" => th[t].tmp # d) BY Numbers DEF Listed, Private
<1>3. \A i \in 0..PoolSize-1 : eta'[e].blocks[i] = d <=> eta[e].blocks[i] = d BY <1>1, <1>2
<1>4. \A i \in 0..PoolSize-1 : eta[e].blocks[i] = d => i < eta[e].high
      BY <1>1, <1>2 DEF Arrays, Claims
<1>5. eta[e].high <= PoolSize - 1 /\ PoolSize \in Nat
  <2>1. eta[e].high < tail /\ tail \in 1..PoolSize BY DEF Arrays, Claims, IInv, TypeOK
  <2>. QED BY <1>1, <2>1, SizesPositive
<1>6. eta'[e].high <= PoolSize
  <2>1. eta'[e].high < tail' /\ tail' \in 1..PoolSize BY DEF Arrays, Claims, IInv, TypeOK
  <2>. QED BY <1>1, <2>1, SizesPositive
<1>. QED BY <1>1, <1>3, <1>4, <1>5, <1>6

LEMMA HasPlace ==
  ASSUME IInv, Arrays, NEW d \in Listed
  PROVE  /\ eb[d].type \in Types
         /\ \E q \in 0..eta[eb[d].type].high-1 : eta[eb[d].type].blocks[q] = d
         /\ \A e \in Types : \A q, r \in 0..eta[e].high-1 :
              eta[e].blocks[q] = d /\ eta[e].blocks[r] = d => q = r
<1>1. d \in Blocks /\ d < tail /\ d + 1 < PoolSize /\ ~Private(d) BY DEF Listed
<1>2. ~Claiming(d) BY <1>1 DEF Private, Claiming
<1>3. eb[d].type \in Types BY <1>1, <1>2 DEF Arrays, Owners
<1>4. PICK i \in 0..eta[eb[d].type].high-1 : Owns(eb[d].type, i, d)
      BY <1>1, <1>2 DEF Arrays, Owners
<1>5. eta[eb[d].type].blocks[i] = d BY <1>1, <1>4 DEF Owns, Private, Pushes
<1>6. ASSUME NEW e \in Types, NEW q \in 0..eta[e].high-1, NEW r \in 0..eta[e].high-1,
             eta[e].blocks[q] = d, eta[e].blocks[r] = d
      PROVE  q = r
  <2>1. Owns(e, q, d) /\ Owns(e, r, d) BY <1>6 DEF Owns
  <2>. QED BY <1>1, <2>1 DEF Arrays, Owners
<1>. QED BY <1>3, <1>5, <1>6

LEMMA StepFilled ==
  ASSUME IInv, IInv', Lists, Arrays, Filled, NEW t \in Threads, Step(t)
  PROVE  Filled'
<1>. SUFFICES ASSUME NEW e \in Types, NEW q \in 0..PoolSize-1, NEW b \in Blocks,
                     eta'[e].blocks[q] = b
              PROVE  b < tail' /\ b + 1 < PoolSize /\ eb'[b].type = e
     BY DEF Filled
<1>1. b < tail /\ b + 1 < PoolSize /\ eb[b].type = e
  <2>1. CASE eta'[e].blocks[q] = eta[e].blocks[q] BY <2>1 DEF Filled
  <2>2. CASE th[t].pc = "push" /\ e = Op(t).type /\ eta'[e].blocks[q] = th[t].tmp
    <3>1. th[t].tmp < tail BY <2>2, Working DEF Fits
    <3>. QED BY <2>2, <3>1 DEF Lists, InList, CreatingPcs
  <2>. QED BY <2>1, <2>2, ArrayStep
<1>2. tail \in Nat /\ tail <= tail' /\ b \in Nat
      BY TailStep, Numbers DEF IInv, TypeOK
<1>3. eb'[b].type = eb[b].type
  <2>1. CASE NewBlock(t) BY <1>1, <2>1, BlockAdded, Numbers
  <2>2. CASE ~NewBlock(t) BY <2>2, StepEdits DEF Edit
  <2>. QED BY <2>1, <2>2
<1>. QED BY <1>1, <1>2, <1>3, TailStep

LEMMA FilledHold == Spec => []Filled
<1>1. Init => Filled
  <2>. SUFFICES ASSUME Init, NEW e \in Types, NEW q \in 0..PoolSize-1 PROVE eta[e].blocks[q] = 0
       BY Numbers DEF Filled, Unwritten
  <2>1. eta[e] = [high |-> 0, blocks |-> [i \in 0..PoolSize-1 |-> 0]] BY DEF Init, Unwritten
  <2>. QED BY <2>1
<1>2. IInv /\ IInv' /\ Lists /\ Arrays /\ Filled /\ [Next]_vars => Filled'
  <2>. SUFFICES ASSUME IInv, IInv', Lists, Arrays, Filled, [Next]_vars PROVE Filled'
       OBVIOUS
  <2>1. CASE UNCHANGED <<eta, tail, eb>> BY <2>1 DEF Filled
  <2>2. CASE Barrier BY <2>1, <2>2 DEF Barrier, edgeVars, poolVars
  <2>3. CASE Over \/ UNCHANGED vars BY <2>1, <2>3 DEF Over, vars
  <2>. QED BY <2>2, <2>3, StepFilled DEF Next
<1>. QED BY <1>1, <1>2, Invariance, ListsHold, ArraysHold, PTL DEF Spec

------------------------------------------------------------------------------
(* What a step of a thread leaves to a reader.                             *)
Store == Safe /\ Arrays /\ Filled

(* The edge in a block that no list leads to yet is nowhere else.          *)
LEMMA NotYet ==
  ASSUME Safe, NEW d \in Blocks, d < tail, d + 1 < PoolSize, d \notin Listed,
         NEW j \in Slots, Occupied(d, j)
  PROVE  EdgeIn(d, j) \notin Edges
<1>. USE DEF NewPcs, EndPcs, CreatingPcs
<1>1. PICK t \in Threads : th[t].pc \in {"claim", "push", "link"} /\ th[t].tmp = d
      BY DEF Listed, Private
<1>. SUFFICES ASSUME NEW o, o = Op(t) PROVE EdgeIn(d, j) \notin Edges
     OBVIOUS
<1>2. /\ IInv /\ Lists /\ Uniqueness /\ Ordered BY DEF Safe, Uniqueness
<1>3. /\ eb[d].vertex = o.from /\ eb[d].type = o.type
      /\ eb[d].high = 1 /\ eb[d].edges[0].nbr = o.to
  <2>1. eb[d].vertex = o.from /\ eb[d].type = o.type BY <1>1, <1>2 DEF Lists, InList
  <2>2. eb[d].high = 1 /\ eb[d].edges[0].nbr = o.to BY <1>1, <1>2 DEF Uniqueness, Fills
  <2>. QED BY <2>1, <2>2
<1>4. j = 0 BY <1>3, Numbers DEF Occupied
<1>5. EdgeIn(d, j) = Abstract!EdgeOf(o) BY <1>3, <1>4 DEF EdgeIn, Abstract!EdgeOf
<1>6. ASSUME NEW b \in Listed, NEW i \in Slots, Has(b, i, o) PROVE FALSE
  <2>1. ~Before(th[t].ptr, b, o.from) BY <1>1, <1>2, <1>6, AtTheEnd DEF Has, Mine
  <2>2. Passed(th[t], o.from, b, i) BY <1>1, <2>1 DEF Passed
  <2>3. Chooses(th[t], o) BY <1>2 DEF Uniqueness, Scan
  <2>. QED BY <1>1, <1>6, <2>2, <2>3 DEF Chooses, Has, Full
<1>. QED BY <1>5, <1>6, EdgePresent

(* An edge that was there is where it was.                                 *)
LEMMA StaysThere ==
  ASSUME Safe, Safe', NEW t \in Threads, Step(t), NEW d \in Listed', NEW j \in Slots,
         Occupied(d, j)', EdgeIn(d, j)' \in Edges
  PROVE  d \in Listed /\ Occupied(d, j) /\ EdgeIn(d, j)' = EdgeIn(d, j)
<1>1. /\ IInv /\ IInv' /\ Lists /\ Places /\ Uniqueness BY DEF Safe
<1>2. CASE SameLists
  <2>1. d \in Listed BY <1>2 DEF SameLists
  <2>2. CASE Occupied(d, j) /\ eb'[d].edges[j].nbr = eb[d].edges[j].nbr
    BY <2>1, <2>2, SameEdge
  <2>3. CASE Shows(t, d, j)
    <3>1. Mine(d, Op(t)) /\ eb'[d].edges[j].nbr = Op(t).to
          BY <1>1, <2>1, <2>3, Revealed DEF Shows
    <3>2. eb'[d].vertex = eb[d].vertex /\ eb'[d].type = eb[d].type BY <1>1, <2>1, ListedStay
    <3>3. EdgeIn(d, j)' = Abstract!EdgeOf(Op(t))
          BY <3>1, <3>2 DEF EdgeIn, Abstract!EdgeOf, Mine
    <3>4. Abstract!EdgeOf(Op(t)) \notin Edges BY <2>1, <2>3, EdgeShown
    <3>. QED BY <3>3, <3>4
  <2>. QED BY <1>1, <2>1, <2>2, <2>3, Seen
<1>3. CASE LinkBlock(t) /\ Enlists(t)
  <2>1. eb' = eb /\ th[t].pc = "link" BY <1>3, Zenon DEF LinkBlock, At
  <2>2. Occupied(d, j) /\ EdgeIn(d, j)' = EdgeIn(d, j) BY <2>1 DEF Occupied, EdgeIn
  <2>3. CASE d = th[t].tmp
    <3>1. d \in Blocks /\ d < tail BY <1>1, <2>1, <2>3, Working, AtBlock DEF Fits, BlockPcs
    <3>2. d + 1 < PoolSize /\ d \notin Listed
          BY <1>1, <1>3, <2>1, <2>3 DEF Lists, InList, CreatingPcs, Enlists
    <3>. QED BY <2>2, <3>1, <3>2, NotYet
  <2>. QED BY <1>3, <2>2, <2>3 DEF Enlists
<1>. QED BY <1>1, <1>2, <1>3, ThreadLists

(* What a traversal is after.                                              *)
LEMMA WantedEdge ==
  ASSUME NEW S, NEW d, NEW j
  PROVE  EdgeIn(d, j) \in Wanted(S) <=>
           /\ EdgeIn(d, j) \in S
           /\ rd.kind \in {"vertex", "modify"} \/ eb[d].type = rd.e
           /\ rd.kind = "array" \/ eb[d].vertex = rd.v
BY DEF Wanted, EdgeIn

LEMMA HereIs ==
  ASSUME Store, Reading, rd.pc \in HerePcs
  PROVE  /\ rd.b \in Blocks /\ rd.b < tail /\ rd.b + 1 < PoolSize
         /\ rd.kind = "array" => rd.p \in 0..PoolSize-1 /\ eb[rd.b].type = rd.e
<1>1. CASE rd.kind # "array" BY <1>1 DEF Reading, Whereabouts, Listed
<1>2. CASE rd.kind = "array"
  <2>1. rd.e \in Types /\ rd.p \in Nat BY DEF Reading, ReaderOK, HerePcs, ReaderLocals
  <2>2. rd.p < eta[rd.e].high /\ eta[rd.e].blocks[rd.p] = rd.b /\ rd.b # 0
        BY <1>2 DEF Reading, Whereabouts
  <2>3. /\ eta[rd.e].high \in Nat
        /\ \A q \in 0..PoolSize-1 : eta[rd.e].blocks[q] \in 0..PoolSize-1
    <3>1. eta[rd.e] \in [high : Nat, blocks : [0..PoolSize-1 -> 0..PoolSize-1]]
          BY <2>1 DEF Store, Safe, IInv, TypeOK
    <3>. QED BY <3>1
  <2>4. tail \in 1..PoolSize /\ eta[rd.e].high < tail
        BY <2>1 DEF Store, Safe, IInv, TypeOK, Arrays, Claims
  <2>5. rd.p \in 0..PoolSize-1 BY <2>1, <2>2, <2>3, <2>4, SizesPositive
  <2>6. rd.b \in Blocks BY <2>1, <2>2, <2>3, <2>5, SizesPositive DEF Blocks
  <2>. QED BY <1>2, <2>1, <2>2, <2>5, <2>6 DEF Store, Filled
<1>. QED BY <1>1, <1>2

LEMMA WriteReading ==
  ASSUME Store, Store', Reading, NEW t \in Threads, Write(t)
  PROVE  Reading'
<1>1. Step(t) /\ Observe BY DEF Write
<1>2. /\ Safe /\ Safe' /\ IInv /\ IInv' /\ Lists /\ Places /\ Ordered /\ Arrays /\ Arrays'
      BY DEF Store, Safe, Uniqueness
<1>3. CASE ~Running
  <2>1. UNCHANGED <<rd, seen, stable, ever>> BY <1>1, <1>3 DEF Observe, Running, reader
  <2>2. ReaderOK' /\ ReadsStored' /\ SeesStable'
        BY <2>1 DEF Reading, ReaderOK, ReadsStored, SeesStable, Wanted
  <2>3. Whereabouts' BY <1>3, <2>1 DEF Whereabouts, Running, HerePcs
  <2>. QED BY <1>3, <2>1, <2>2, <2>3 DEF Reading, Running
<1>4. CASE Running
  <2>1. /\ rd' = rd /\ seen' = seen
        /\ stable' = stable \cap Edges' /\ ever' = ever \cup Stored'
        BY <1>1, <1>4 DEF Observe, Running
  <2>2. ReaderOK' BY <2>1 DEF Reading, ReaderOK
  <2>3. ReadsStored' BY <2>1 DEF Reading, ReadsStored, Wanted
  <2>4. SeesStable' BY <1>4, <2>1 DEF SeesStable, Running
  <2>5. Histories' BY <2>1 DEF Histories
  <2>6. Whereabouts'
    <3>1. ListsGrow BY <1>1, <1>2, ListsOnlyGrow
    <3>2. rd.kind # "array" /\ rd.pc \in HerePcs \cup {"next"} =>
            rd.b \in Listed' /\ eb'[rd.b].vertex = rd.v /\ eb'[rd.b].type = eb[rd.b].type
          BY <3>1 DEF Reading, Whereabouts, ListsGrow
    <3>3. ASSUME rd.kind = "array", rd.pc \in HerePcs
          PROVE  /\ rd.p < eta'[rd.e].high /\ eta'[rd.e].blocks[rd.p] = rd.b
                 /\ eb'[rd.b].type = rd.e
      <4>1. rd.e \in Types /\ rd.p \in Nat BY <3>3 DEF Reading, ReaderOK, HerePcs, ReaderLocals
      <4>2. rd.p < eta[rd.e].high /\ eta[rd.e].blocks[rd.p] = rd.b /\ rd.b # 0
            BY <3>3 DEF Reading, Whereabouts
      <4>3. rd.b \in Blocks /\ rd.p \in 0..PoolSize-1 BY <3>3, HereIs
      <4>4. eta'[rd.e].blocks[rd.p] = rd.b /\ rd.p < eta'[rd.e].high
            BY <1>1, <1>2, <4>1, <4>2, <4>3, ArrayStep
      <4>. QED BY <4>1, <4>3, <4>4 DEF Store, Filled
    <3>4. ASSUME rd.pc \in {"slot", "copy"} PROVE rd.i < eb'[rd.b].high
      <4>1. rd.b \in Blocks BY <3>4, HereIs DEF HerePcs
      <4>2. 0 \in Slots BY SizesPositive DEF Slots
      <4>3. eb[rd.b].high <= eb'[rd.b].high BY <1>1, <1>2, <4>1, <4>2, ThreadKeeps DEF KeepsEdges
      <4>4. eb[rd.b].high \in Nat /\ eb'[rd.b].high \in Nat
            BY <1>2, <4>1, BlockTypes DEF IInv, TypeOK, EdgeBlock
      <4>5. rd.i < eb[rd.b].high /\ rd.i \in Nat BY <3>4 DEF Reading, Whereabouts, ReaderOK,
                                                         ReaderLocals
      <4>. QED BY <4>3, <4>4, <4>5
    <3>. QED BY <2>1, <3>2, <3>3, <3>4 DEF Reading, Whereabouts, HerePcs
  <2>7. Accounts'
    <3>. SUFFICES ASSUME NEW d \in Listed', NEW j \in Slots, Occupied(d, j)',
                         EdgeIn(d, j)' \in Wanted(stable)'
                  PROVE  IF Behind(d, j)' THEN Met(EdgeIn(d, j))' ELSE Unmet(EdgeIn(d, j))'
         BY DEF Accounts
    <3>1. EdgeIn(d, j)' \in stable /\ EdgeIn(d, j)' \in Wanted(stable)
          BY <2>1 DEF Wanted
    <3>2. EdgeIn(d, j)' \in Edges BY <1>4, <3>1 DEF Reading, Histories
    <3>3. d \in Listed /\ Occupied(d, j) /\ EdgeIn(d, j)' = EdgeIn(d, j)
          BY <1>1, <1>2, <3>2, StaysThere
    <3>4. rd.e \in Types BY <1>4 DEF Reading, ReaderOK, Running
    <3>5. \A q : InPlace(d, q)' <=> InPlace(d, q)
          BY <1>1, <1>2, <2>1, <3>3, <3>4, PlacesStay DEF InPlace
    <3>6. Behind(d, j)' <=> Behind(d, j) BY <2>1, <3>5 DEF Behind
    <3>7. IF Behind(d, j) THEN Met(EdgeIn(d, j)) ELSE Unmet(EdgeIn(d, j))
          BY <1>4, <3>1, <3>3 DEF Reading, Accounts
    <3>8. Met(EdgeIn(d, j))' <=> Met(EdgeIn(d, j)) BY <2>1, <3>3 DEF Met
    <3>9. Unmet(EdgeIn(d, j))' <=> Unmet(EdgeIn(d, j)) BY <2>1, <3>3 DEF Unmet
    <3>. QED BY <3>6, <3>7, <3>8, <3>9
  <2>. QED BY <2>2, <2>3, <2>4, <2>5, <2>6, <2>7 DEF Reading
<1>. QED BY <1>3, <1>4

------------------------------------------------------------------------------
(* The steps of a reader.                                                  *)
LEMMA SameStore ==
  ASSUME UNCHANGED vars
  PROVE  /\ Listed' = Listed /\ Edges' = Edges /\ Stored' = Stored
         /\ \A d, j : (Occupied(d, j)' <=> Occupied(d, j)) /\ EdgeIn(d, j)' = EdgeIn(d, j)
<1>. USE DEF vars, Occupied, EdgeIn
<1>1. Listed' = Listed BY DEF Listed, Private
<1>2. EdgeSlots' = EdgeSlots BY <1>1 DEF EdgeSlots
<1>3. Edges' = Edges BY <1>2 DEF Edges
<1>4. Stored' = Stored BY DEF Stored
<1>. QED BY <1>1, <1>3, <1>4

(* A step that looks at nothing and comes past no edge that is wanted.     *)
LEMMA GoesOn ==
  ASSUME Reading, Running, Running', UNCHANGED <<vars, seen, stable, ever>>,
         rd'.kind = rd.kind, rd'.v = rd.v, rd'.e = rd.e,
         \A d \in Listed : \A j \in Slots : Occupied(d, j) /\ EdgeIn(d, j) \in Wanted(stable) =>
           (Behind(d, j)' <=> Behind(d, j))
  PROVE  Histories' /\ Accounts' /\ ReadsStored' /\ SeesStable'
<1>1. /\ Listed' = Listed /\ Edges' = Edges /\ Stored' = Stored
      /\ \A d, j : (Occupied(d, j)' <=> Occupied(d, j)) /\ EdgeIn(d, j)' = EdgeIn(d, j)
      BY SameStore
<1>2. /\ Wanted(stable)' = Wanted(stable) /\ Wanted(ever)' = Wanted(ever)
      /\ \A x : (Met(x)' <=> Met(x)) /\ (Unmet(x)' <=> Unmet(x))
      BY DEF Wanted, Met, Unmet
<1>3. Histories' BY <1>1 DEF Reading, Histories
<1>4. ReadsStored' BY <1>2 DEF Reading, ReadsStored
<1>5. Accounts' BY <1>1, <1>2 DEF Reading, Accounts
<1>6. SeesStable' BY DEF SeesStable, Running
<1>. QED BY <1>3, <1>4, <1>5, <1>6

(* A traversal ends when it has come past everything that is wanted.       *)
LEMMA Finishes ==
  ASSUME Store, Reading, Running, rd'.pc = "done", UNCHANGED <<vars, seen, stable, ever>>,
         rd'.kind = rd.kind, rd'.v = rd.v, rd'.e = rd.e,
         \A d \in Listed : \A j \in Slots : Occupied(d, j) /\ EdgeIn(d, j) \in Wanted(stable) =>
           Behind(d, j)
  PROVE  ReadsStored' /\ SeesStable'
<1>1. Wanted(stable)' = Wanted(stable) /\ Wanted(ever)' = Wanted(ever) BY DEF Wanted
<1>2. ReadsStored' BY <1>1 DEF Reading, ReadsStored
<1>3. ASSUME NEW x \in Wanted(stable) PROVE Met(x)
  <2>1. x \in Edges BY <1>3 DEF Wanted, Reading, Histories
  <2>2. PICK d \in Listed, j \in Slots : Occupied(d, j) /\ x = EdgeIn(d, j) BY <2>1, AnEdge
  <2>. QED BY <2>2 DEF Reading, Accounts
<1>4. SeesStable' BY <1>1, <1>3 DEF SeesStable, Met
<1>. QED BY <1>2, <1>4

(* The pieces of a copy of the reader's locals.                            *)
LEMMA ReaderFields ==
  ASSUME ReaderOK
  PROVE  /\ rd.pc \in ReaderPcs /\ rd.kind \in Kinds /\ rd.v \in Vertices
         /\ rd.e \in Nat /\ rd.p \in Nat /\ rd.b \in Int /\ rd.i \in Nat /\ rd.in \in BOOLEAN
BY DEF ReaderOK, ReaderLocals

LEMMA BeginReading ==
  ASSUME Store, Reading, Begin
  PROVE  Reading'
<1>1. PICK q \in Traversals :
        rd' = [NoReader EXCEPT !.kind = q.kind, !.v = q.v, !.e = q.e,
                               !.pc = IF q.kind = "array" THEN "place" ELSE "head"]
      BY DEF Begin
<1>2. /\ q.kind \in Kinds /\ q.v \in Vertices /\ q.e \in Types
      /\ Types \subseteq Nat
      BY TraversalsOK, SizesPositive DEF Kinds
<1>3. rd.pc = "none" /\ seen' = seen /\ stable' = Edges /\ ever' = Stored /\ UNCHANGED vars
      BY DEF Begin
<1>4. /\ rd'.pc = IF q.kind = "array" THEN "place" ELSE "head"
      /\ rd'.kind = q.kind /\ rd'.v = q.v /\ rd'.e = q.e /\ rd'.p = 0 /\ rd'.b = 0 /\ rd'.i = 0
      BY <1>1 DEF NoReader
<1>5. seen = <<>> BY <1>3 DEF Reading, ReaderOK
<1>6. ReaderOK'
  <2>1. 0 \in Vertices BY SizesPositive DEF Vertices
  <2>2. [pc |-> IF q.kind = "array" THEN "place" ELSE "head", kind |-> q.kind,
         v |-> q.v, e |-> q.e, p |-> 0, b |-> 0, i |-> 0, in |-> FALSE] \in ReaderLocals
    <3>1. q.e \in Nat BY <1>2
    <3>2. (IF q.kind = "array" THEN "place" ELSE "head") \in ReaderPcs BY DEF ReaderPcs
    <3>. QED BY <1>2, <2>1, <3>1, <3>2 DEF ReaderLocals
  <2>4. rd' \in ReaderLocals BY <1>1, <2>2 DEF NoReader
  <2>3. rd'.e \in Types /\ rd'.pc # "none" BY <1>2, <1>4
  <2>. QED BY <1>3, <2>3, <2>4 DEF Reading, ReaderOK
<1>7. Whereabouts' BY <1>4 DEF Whereabouts, HerePcs
<1>8. ReadsStored' /\ SeesStable' BY <1>3, <1>4, <1>5 DEF ReadsStored, SeesStable
<1>9. Histories' BY <1>3, SameStore DEF Histories
<1>10. \A d, j : ~Behind(d, j)' BY <1>4 DEF Behind, HerePcs
<1>11. \A x : Unmet(x)' BY <1>3, <1>5 DEF Unmet
<1>12. Accounts' BY <1>10, <1>11 DEF Accounts
<1>. QED BY <1>6, <1>7, <1>8, <1>9, <1>12 DEF Reading

(* A traversal ends before that: by type, or outside the pool.             *)
LEMMA StopReading ==
  ASSUME Reading, ReaderOK', rd'.pc \in {"done", "wild"}, rd'.pc = "done" => rd.kind = "typed",
         UNCHANGED <<vars, seen, stable, ever>>,
         rd'.kind = rd.kind, rd'.v = rd.v, rd'.e = rd.e
  PROVE  Reading'
<1>1. Wanted(ever)' = Wanted(ever) BY DEF Wanted
<1>2. ReadsStored' BY <1>1 DEF Reading, ReadsStored
<1>3. Whereabouts' /\ ~Running' /\ SeesStable' BY DEF Whereabouts, HerePcs, Running, SeesStable
<1>. QED BY <1>2, <1>3 DEF Reading

(* Along a list, from cell c: what the cell is before is still to come.    *)
LEMMA FollowReading ==
  ASSUME Store, Reading, Running, NEW c \in Cells, Follow(c), rd.kind # "array",
         Inside(c, rd.v),
         \A d \in Listed : \A j : eb[d].vertex = rd.v => (Behind(d, j) <=> ~Before(c, d, rd.v))
  PROVE  Reading'
<1>1. /\ IInv /\ Lists /\ Ordered /\ Chained /\ ReaderOK
      BY DEF Store, Safe, Uniqueness, Lists, Reading
<1>2. link[c] \in {MARKER} \cup 0..PoolSize-1 BY <1>1 DEF IInv, TypeOK
<1>3. /\ rd' = [rd EXCEPT !.b = link[c], !.i = 0,
                  !.pc = CASE link[c] = 0 -> "done"
                           [] link[c] = MARKER -> "wild" [] OTHER -> "block"]
      /\ UNCHANGED <<seen, stable, ever, vars>>
      BY DEF Follow, Go
<1>4. rd.v \in Vertices /\ rd.pc # "none" BY <1>1, ReaderFields DEF Running
<1>5. ASSUME NEW d \in Listed, eb[d].vertex = rd.v, Before(c, d, rd.v), link[c] # MARKER
      PROVE  link[c] # 0 /\ link[c] <= d
      BY <1>1, <1>4, <1>5, NextInList
<1>. SUFFICES ASSUME NEW n, n = link[c] PROVE Reading'
     OBVIOUS
<1>6. n \in Int /\ MARKER # 0 BY <1>2, SizesPositive DEF MARKER
<1>7. ASSUME NEW pc \in ReaderPcs \ {"none"}, rd' = [rd EXCEPT !.b = n, !.i = 0, !.pc = pc]
      PROVE  /\ ReaderOK' /\ rd'.pc = pc /\ rd'.b = n /\ rd'.i = 0 /\ rd'.p = rd.p
             /\ rd'.kind = rd.kind /\ rd'.v = rd.v /\ rd'.e = rd.e
  <2>1. rd \in ReaderLocals /\ rd.e \in Types /\ seen \in Seq(Triples)
        BY <1>1, <1>4 DEF ReaderOK
  <2>2. rd' \in ReaderLocals BY <1>6, <1>7, <2>1 DEF ReaderLocals
  <2>3. /\ rd'.pc = pc /\ rd'.b = n /\ rd'.i = 0 /\ rd'.p = rd.p
        /\ rd'.kind = rd.kind /\ rd'.v = rd.v /\ rd'.e = rd.e
        BY <1>7, <2>1 DEF ReaderLocals
  <2>. QED BY <1>3, <2>1, <2>2, <2>3 DEF ReaderOK
<1>8. CASE n = 0
  <2>1. rd' = [rd EXCEPT !.b = n, !.i = 0, !.pc = "done"] BY <1>3, <1>6, <1>8
  <2>2. /\ ReaderOK' /\ rd'.pc = "done"
        /\ rd'.kind = rd.kind /\ rd'.v = rd.v /\ rd'.e = rd.e
        BY <1>7, <2>1 DEF ReaderPcs
  <2>3. \A d \in Listed : \A j \in Slots : EdgeIn(d, j) \in Wanted(stable) => Behind(d, j)
        BY <1>5, <1>6, <1>8, WantedEdge
  <2>4. ReadsStored' /\ SeesStable' BY <1>3, <2>2, <2>3, Finishes
  <2>5. Whereabouts' /\ ~Running' BY <2>2 DEF Whereabouts, HerePcs, Running
  <2>. QED BY <2>2, <2>4, <2>5 DEF Reading
<1>9. CASE n = MARKER
  <2>1. rd' = [rd EXCEPT !.b = n, !.i = 0, !.pc = "wild"] BY <1>3, <1>6, <1>9
  <2>2. /\ ReaderOK' /\ rd'.pc = "wild"
        /\ rd'.kind = rd.kind /\ rd'.v = rd.v /\ rd'.e = rd.e
        BY <1>7, <2>1 DEF ReaderPcs
  <2>. QED BY <1>3, <2>2, StopReading
<1>10. CASE n # 0 /\ n # MARKER
  <2>1. rd' = [rd EXCEPT !.b = n, !.i = 0, !.pc = "block"] BY <1>3, <1>10
  <2>2. /\ ReaderOK' /\ rd'.pc = "block" /\ rd'.b = n /\ rd'.i = 0
        /\ rd'.kind = rd.kind /\ rd'.v = rd.v /\ rd'.e = rd.e
        BY <1>7, <2>1 DEF ReaderPcs
  <2>3. n \in Blocks /\ LeadsTo(c, n) BY <1>2, <1>10, SizesPositive DEF Blocks, LeadsTo
  <2>4. n \in Listed /\ eb[n].vertex = rd.v BY <1>1, <2>3, Follows
  <2>5. Before(c, n, rd.v) BY <1>1, <2>3, <2>4 DEF Chained
  <2>6. ASSUME NEW d \in Listed, eb[d].vertex = rd.v
        PROVE  d < n <=> ~Before(c, d, rd.v)
    <3>1. d \in Nat /\ n \in Nat BY <2>3, Numbers
    <3>2. CASE Before(c, d, rd.v) BY <1>5, <1>10, <2>6, <3>1, <3>2
    <3>3. CASE ~Before(c, d, rd.v)
      <4>1. c # HeadOf(rd.v) BY <3>3 DEF Before
      <4>2. PICK a \in Listed : c = NextOf(a) /\ a < n /\ eb[a].vertex = rd.v
            BY <2>5, <4>1 DEF Before
      <4>3. ~(a < d) BY <3>3, <4>2 DEF Before
      <4>4. a \in Nat BY Numbers
      <4>5. d <= a BY <3>1, <4>3, <4>4
      <4>6. d < n BY <3>1, <4>2, <4>4, <4>5
      <4>. QED BY <3>3, <4>6
    <3>. QED BY <3>2, <3>3
  <2>7. ASSUME NEW d \in Listed, NEW j \in Slots, EdgeIn(d, j) \in Wanted(stable)
        PROVE  Behind(d, j)' <=> Behind(d, j)
    <3>1. eb[d].vertex = rd.v BY <2>7, WantedEdge
    <3>2. Behind(d, j)' <=> d < n BY <2>2, Numbers DEF Behind, HerePcs
    <3>. QED BY <2>6, <3>1, <3>2
  <2>8. Running' BY <2>2 DEF Running
  <2>9. Histories' /\ Accounts' /\ ReadsStored' /\ SeesStable' BY <1>3, <2>2, <2>7, <2>8, GoesOn
  <2>10. Whereabouts'
    <3>1. Listed' = Listed /\ eb' = eb BY <1>3, SameStore DEF vars
    <3>. QED BY <2>2, <2>4, <3>1 DEF Whereabouts, HerePcs
  <2>. QED BY <2>2, <2>9, <2>10 DEF Reading
<1>. QED BY <1>8, <1>9, <1>10

LEMMA HeadReading ==
  ASSUME Store, Reading, ReadHead
  PROVE  Reading'
<1>1. rd.pc = "head" /\ Follow(HeadOf(rd.v)) BY DEF ReadHead, Reads
<1>2. Running /\ rd.kind # "array" BY <1>1 DEF Running, Reading, Whereabouts
<1>3. rd.v \in Vertices BY ReaderFields DEF Reading
<1>4. HeadOf(rd.v) \in Cells BY <1>3, CellNames
<1>5. Inside(HeadOf(rd.v), rd.v) /\ \A d : Before(HeadOf(rd.v), d, rd.v) BY DEF Inside, Before
<1>6. \A d, j : ~Behind(d, j) BY <1>1, <1>2 DEF Behind, HerePcs
<1>. QED BY <1>1, <1>2, <1>4, <1>5, <1>6, FollowReading

LEMMA NextReading ==
  ASSUME Store, Reading, ReadNext
  PROVE  Reading'
<1>1. rd.pc = "next" /\ Running /\ ReaderOK BY DEF ReadNext, Reads, Running, Reading
<1>2. CASE rd.kind # "array"
  <2>1. Follow(NextOf(rd.b)) BY <1>2 DEF ReadNext
  <2>2. rd.b \in Listed /\ eb[rd.b].vertex = rd.v BY <1>1, <1>2 DEF Reading, Whereabouts
  <2>3. NextOf(rd.b) \in Cells /\ Inside(NextOf(rd.b), rd.v)
        BY <2>2, CellNames, Numbers DEF Inside
  <2>4. ASSUME NEW d \in Listed, NEW j PROVE Behind(d, j) <=> ~Before(NextOf(rd.b), d, rd.v)
    <3>1. Before(NextOf(rd.b), d, rd.v) <=> rd.b < d BY <2>2, CellNames DEF Before
    <3>2. Behind(d, j) <=> d <= rd.b BY <1>1, <1>2 DEF Behind, HerePcs
    <3>. QED BY <2>2, <3>1, <3>2, Numbers
  <2>. QED BY <1>1, <1>2, <2>1, <2>3, <2>4, FollowReading
<1>3. CASE rd.kind = "array"
  <2>1. rd' = [rd EXCEPT !.p = rd.p + 1, !.pc = "place"] /\ UNCHANGED <<seen, stable, ever, vars>>
        BY <1>3 DEF ReadNext, Go
  <2>2. /\ ReaderOK' /\ rd'.pc = "place" /\ rd'.p = rd.p + 1
        /\ rd'.kind = rd.kind /\ rd'.v = rd.v /\ rd'.e = rd.e
    <3>1. rd \in ReaderLocals /\ rd.p + 1 \in Nat BY <1>1, ReaderFields DEF ReaderOK
    <3>2. rd' \in ReaderLocals BY <2>1, <3>1 DEF ReaderLocals, ReaderPcs
    <3>3. /\ rd'.pc = "place" /\ rd'.p = rd.p + 1
          /\ rd'.kind = rd.kind /\ rd'.v = rd.v /\ rd'.e = rd.e
          BY <2>1, <3>1 DEF ReaderLocals
    <3>. QED BY <1>1, <2>1, <3>2, <3>3 DEF ReaderOK
  <2>3. eta' = eta BY <2>1 DEF vars
  <2>4. ASSUME NEW d, NEW j PROVE Behind(d, j)' <=> Behind(d, j)
    <3>1. \A q : InPlace(d, q)' <=> InPlace(d, q) BY <2>2, <2>3 DEF InPlace
    <3>2. Behind(d, j) <=> \E q \in Nat : InPlace(d, q) /\ q <= rd.p
          BY <1>1, <1>3, ReaderFields DEF Behind
    <3>3. Behind(d, j)' <=> \E q \in Nat : InPlace(d, q) /\ q < rd.p + 1
          BY <1>3, <2>2, <3>1 DEF Behind, HerePcs
    <3>4. rd.p \in Nat BY <1>1, ReaderFields
    <3>. QED BY <3>2, <3>3, <3>4
  <2>5. Running' /\ Whereabouts' BY <1>3, <2>2 DEF Running, Whereabouts, HerePcs
  <2>6. Histories' /\ Accounts' /\ ReadsStored' /\ SeesStable'
        BY <1>1, <2>1, <2>2, <2>4, <2>5, GoesOn
  <2>. QED BY <2>2, <2>5, <2>6 DEF Reading
<1>. QED BY <1>2, <1>3

(* A move of the program counter alone, or to the first block of a type.   *)
LEMMA PcMoves ==
  ASSUME ReaderOK, rd.pc # "none", NEW pc \in ReaderPcs \ {"none"},
         Go([rd EXCEPT !.pc = pc]) \/ Go([rd EXCEPT !.pc = pc, !.in = TRUE])
  PROVE  /\ ReaderOK' /\ rd'.pc = pc /\ UNCHANGED <<vars, seen, stable, ever>>
         /\ rd'.p = rd.p /\ rd'.b = rd.b /\ rd'.i = rd.i
         /\ rd'.kind = rd.kind /\ rd'.v = rd.v /\ rd'.e = rd.e
<1>1. /\ rd' \in {[rd EXCEPT !.pc = pc], [rd EXCEPT !.pc = pc, !.in = TRUE]}
      /\ UNCHANGED <<vars, seen, stable, ever>>
      BY DEF Go
<1>2. rd \in ReaderLocals BY DEF ReaderOK
<1>3. rd' \in ReaderLocals BY <1>1, <1>2 DEF ReaderLocals
<1>4. /\ rd'.pc = pc /\ rd'.p = rd.p /\ rd'.b = rd.b /\ rd'.i = rd.i
      /\ rd'.kind = rd.kind /\ rd'.v = rd.v /\ rd'.e = rd.e
      BY <1>1, <1>2 DEF ReaderLocals
<1>. QED BY <1>1, <1>3, <1>4 DEF ReaderOK

(* A reader in a block turns to one of its slots, or leaves it when there  *)
(* is nothing to read for it.                                              *)
LEMMA TurnReading ==
  ASSUME Store, Reading, rd.pc \in HerePcs, NEW pc \in {"high", "slot", "copy", "next"},
         Go([rd EXCEPT !.pc = pc]) \/ Go([rd EXCEPT !.pc = pc, !.in = TRUE]),
         pc # "next" /\ rd.kind \in {"typed", "array"} => eb[rd.b].type = rd.e,
         pc \in {"slot", "copy"} => rd.i < eb[rd.b].high,
         pc = "next" => \A j \in Slots : Occupied(rd.b, j) =>
                          j < rd.i \/ EdgeIn(rd.b, j) \notin Wanted(stable)
  PROVE  Reading'
<1>1. ReaderOK /\ rd.pc # "none" /\ Running BY DEF Reading, HerePcs, Running
<1>2. /\ ReaderOK' /\ rd'.pc = pc /\ UNCHANGED <<vars, seen, stable, ever>>
      /\ rd'.p = rd.p /\ rd'.b = rd.b /\ rd'.i = rd.i
      /\ rd'.kind = rd.kind /\ rd'.v = rd.v /\ rd'.e = rd.e
      BY <1>1, PcMoves DEF ReaderPcs
<1>3. /\ eta' = eta /\ eb' = eb /\ Listed' = Listed BY <1>2, SameStore DEF vars
<1>4. Running' BY <1>2 DEF Running
<1>5. Whereabouts' BY <1>2, <1>3 DEF Reading, Whereabouts, HerePcs
<1>6. ASSUME NEW d \in Listed, NEW j \in Slots, Occupied(d, j), EdgeIn(d, j) \in Wanted(stable)
      PROVE  Behind(d, j)' <=> Behind(d, j)
  <2>1. pc = "next" /\ d = rd.b => j < rd.i BY <1>6
  <2>2. CASE rd.kind = "array"
    <3>1. \A q : InPlace(d, q)' <=> InPlace(d, q) BY <1>2, <1>3 DEF InPlace
    <3>2. \A q : InPlace(d, q) /\ q = rd.p => d = rd.b BY <2>2 DEF InPlace, Reading, Whereabouts
    <3>. QED BY <1>2, <2>1, <2>2, <3>1, <3>2 DEF Behind, HerePcs
  <2>3. CASE rd.kind # "array"
    <3>1. rd.b \in Nat /\ d \in Nat BY HereIs, Numbers
    <3>. QED BY <1>2, <2>1, <2>3, <3>1 DEF Behind, HerePcs
  <2>. QED BY <2>2, <2>3
<1>7. Histories' /\ Accounts' /\ ReadsStored' /\ SeesStable' BY <1>1, <1>2, <1>4, <1>6, GoesOn
<1>. QED BY <1>2, <1>5, <1>7 DEF Reading

LEMMA EnterReading ==
  ASSUME Store, Reading, EnterBlock
  PROVE  Reading'
<1>1. rd.pc = "block" /\ rd.pc \in HerePcs /\ rd.pc # "none" BY DEF EnterBlock, Reads, HerePcs
<1>2. CASE rd.kind # "typed"
  <2>1. Go([rd EXCEPT !.pc = "high"]) BY <1>2 DEF EnterBlock
  <2>2. rd.kind \in {"typed", "array"} => eb[rd.b].type = rd.e BY <1>1, <1>2, HereIs
  <2>. QED BY <1>1, <2>1, <2>2, TurnReading
<1>3. CASE rd.kind = "typed" /\ eb[rd.b].type = rd.e
  <2>1. Go([rd EXCEPT !.pc = "high", !.in = TRUE]) BY <1>3 DEF EnterBlock
  <2>. QED BY <1>1, <1>3, <2>1, TurnReading
<1>4. CASE rd.kind = "typed" /\ eb[rd.b].type # rd.e
  <2>1. Go([rd EXCEPT !.pc = IF rd.in THEN "done" ELSE "next"]) BY <1>4 DEF EnterBlock
  <2>2. CASE rd.in
    <3>1. Go([rd EXCEPT !.pc = "done"]) BY <2>1, <2>2
    <3>2. ReaderOK BY DEF Reading
    <3>3. /\ ReaderOK' /\ rd'.pc = "done" /\ UNCHANGED <<vars, seen, stable, ever>>
          /\ rd'.kind = rd.kind /\ rd'.v = rd.v /\ rd'.e = rd.e
          BY <1>1, <3>1, <3>2, PcMoves DEF ReaderPcs
    <3>. QED BY <1>4, <3>3, StopReading
  <2>3. CASE ~rd.in
    <3>1. Go([rd EXCEPT !.pc = "next"]) BY <2>1, <2>3
    <3>2. \A j \in Slots : EdgeIn(rd.b, j) \notin Wanted(stable) BY <1>4, WantedEdge
    <3>. QED BY <1>1, <3>1, <3>2, TurnReading
  <2>. QED BY <2>2, <2>3
<1>. QED BY <1>2, <1>3, <1>4

LEMMA HighReading ==
  ASSUME Store, Reading, CheckHigh
  PROVE  Reading'
<1>1. /\ rd.pc = "high" /\ rd.pc \in HerePcs
      /\ Go([rd EXCEPT !.pc = IF rd.i < eb[rd.b].high THEN "slot" ELSE "next"])
      BY DEF CheckHigh, Reads, HerePcs
<1>2. rd.kind \in {"typed", "array"} => eb[rd.b].type = rd.e BY <1>1 DEF Reading, Whereabouts
<1>3. CASE rd.i < eb[rd.b].high
  <2>1. Go([rd EXCEPT !.pc = "slot"]) BY <1>1, <1>3
  <2>. QED BY <1>1, <1>2, <1>3, <2>1, TurnReading
<1>4. CASE ~(rd.i < eb[rd.b].high)
  <2>1. Go([rd EXCEPT !.pc = "next"]) BY <1>1, <1>4
  <2>2. /\ rd.i \in Nat /\ eb[rd.b].high \in Nat
        BY <1>1, HereIs, ReaderFields, BlockTypes DEF Reading, Store, Safe, IInv, TypeOK
  <2>3. \A j \in Slots : Occupied(rd.b, j) => j < rd.i BY <1>4, <2>2, Numbers DEF Occupied
  <2>. QED BY <1>1, <2>1, <2>3, TurnReading
<1>. QED BY <1>3, <1>4

(* What is behind a reader that is at a place of an array.                 *)
LEMMA PlaceFacts ==
  ASSUME Store, Reading, Reads("place")
  PROVE  /\ rd.pc = "place" /\ Running /\ ReaderOK /\ rd.kind = "array" /\ rd.pc # "none"
         /\ rd.e \in Types /\ rd.p \in Nat
         /\ eta[rd.e].high \in Nat /\ eta[rd.e].high <= PoolSize - 1
         /\ \A q \in 0..PoolSize-1 : eta[rd.e].blocks[q] \in 0..PoolSize-1
         /\ \A d, j : Behind(d, j) <=> \E q \in Nat : InPlace(d, q) /\ q < rd.p
<1>1. /\ rd.pc = "place" /\ Running /\ ReaderOK /\ rd.kind = "array" /\ rd.pc # "none"
      BY DEF Reads, Running, Reading, Whereabouts
<1>2. rd.e \in Types /\ rd.p \in Nat /\ IInv /\ Arrays
      BY <1>1, ReaderFields DEF ReaderOK, Store, Safe
<1>3. \A d, j : Behind(d, j) <=> \E q \in Nat : InPlace(d, q) /\ q < rd.p
      BY <1>1 DEF Behind, HerePcs
<1>4. eta[rd.e] \in [high : Nat, blocks : [0..PoolSize-1 -> 0..PoolSize-1]]
      BY <1>2 DEF IInv, TypeOK
<1>5. /\ eta[rd.e].high \in Nat
      /\ \A q \in 0..PoolSize-1 : eta[rd.e].blocks[q] \in 0..PoolSize-1
      BY <1>4
<1>6. eta[rd.e].high < tail /\ tail \in 1..PoolSize BY <1>2 DEF Arrays, Claims, IInv, TypeOK
<1>7. eta[rd.e].high <= PoolSize - 1 BY <1>5, <1>6, SizesPositive
<1>. QED BY <1>1, <1>2, <1>3, <1>5, <1>7

LEMMA EndReading ==
  ASSUME Store, Reading, EndOfArray
  PROVE  Reading'
<1>1. Reads("place") /\ Go([rd EXCEPT !.pc = "done"]) /\ rd.p >= eta[rd.e].high BY DEF EndOfArray
<1>2. Running /\ ReaderOK /\ rd.kind = "array" /\ rd.pc # "none" BY <1>1, PlaceFacts
<1>3. /\ ReaderOK' /\ rd'.pc = "done" /\ UNCHANGED <<vars, seen, stable, ever>>
      /\ rd'.kind = rd.kind /\ rd'.v = rd.v /\ rd'.e = rd.e
      BY <1>1, <1>2, PcMoves DEF ReaderPcs
<1>4. ASSUME NEW d \in Listed, NEW j \in Slots, EdgeIn(d, j) \in Wanted(stable)
      PROVE  Behind(d, j)
  <2>1. eb[d].type = rd.e BY <1>2, <1>4, WantedEdge
  <2>2. PICK q \in 0..eta[rd.e].high-1 : eta[rd.e].blocks[q] = d
        BY <2>1, HasPlace DEF Store, Safe
  <2>3. eta[rd.e].high \in Nat /\ rd.p \in Nat BY <1>1, PlaceFacts
  <2>4. q \in Nat /\ InPlace(d, q) /\ q < rd.p BY <1>1, <2>2, <2>3 DEF InPlace
  <2>. QED BY <1>1, <2>4, PlaceFacts
<1>5. ReadsStored' /\ SeesStable' BY <1>2, <1>3, <1>4, Finishes
<1>6. Whereabouts' /\ ~Running' BY <1>3 DEF Whereabouts, HerePcs, Running
<1>. QED BY <1>3, <1>5, <1>6 DEF Reading

(* The reader turns to block b, or passes a place with no block in it.     *)
LEMMA PlaceTurns ==
  ASSUME Store, Reading, Reads("place"), rd.p < eta[rd.e].high, NEW b,
         eta[rd.e].blocks[rd.p] = b, NEW pc \in {"next", "block"}, pc = "next" <=> b = 0,
         Go([rd EXCEPT !.b = b, !.i = 0, !.pc = pc])
  PROVE  Reading'
<1>1. /\ rd.pc = "place" /\ Running /\ ReaderOK /\ rd.kind = "array" /\ rd.pc # "none"
      /\ rd.e \in Types /\ rd.p \in Nat
      /\ \A d, j : Behind(d, j) <=> \E q \in Nat : InPlace(d, q) /\ q < rd.p
      BY PlaceFacts
<1>2. rd.p \in 0..eta[rd.e].high-1 /\ b \in Int
  <2>1. /\ eta[rd.e].high \in Nat /\ eta[rd.e].high <= PoolSize - 1
        /\ \A q \in 0..PoolSize-1 : eta[rd.e].blocks[q] \in 0..PoolSize-1
        BY PlaceFacts
  <2>2. rd.p \in 0..PoolSize-1 /\ rd.p \in 0..eta[rd.e].high-1 BY <1>1, <2>1, SizesPositive
  <2>3. b \in 0..PoolSize-1 BY <2>1, <2>2
  <2>. QED BY <2>2, <2>3, SizesPositive
<1>3. rd' = [rd EXCEPT !.b = b, !.i = 0, !.pc = pc] /\ UNCHANGED <<vars, seen, stable, ever>>
      BY DEF Go
<1>4. /\ ReaderOK' /\ rd'.pc = pc /\ rd'.p = rd.p /\ rd'.b = b /\ rd'.i = 0
      /\ rd'.kind = rd.kind /\ rd'.v = rd.v /\ rd'.e = rd.e
  <2>1. rd \in ReaderLocals /\ pc \in ReaderPcs BY <1>1 DEF ReaderOK, ReaderPcs
  <2>2. rd' \in ReaderLocals BY <1>2, <1>3, <2>1 DEF ReaderLocals
  <2>3. /\ rd'.pc = pc /\ rd'.p = rd.p /\ rd'.b = b /\ rd'.i = 0
        /\ rd'.kind = rd.kind /\ rd'.v = rd.v /\ rd'.e = rd.e
        BY <1>3, <2>1 DEF ReaderLocals
  <2>. QED BY <1>1, <1>3, <2>2, <2>3 DEF ReaderOK
<1>5. eta' = eta BY <1>3 DEF vars
<1>6. ASSUME NEW d \in Listed, NEW j \in Slots PROVE Behind(d, j)' <=> Behind(d, j)
  <2>1. \A q : InPlace(d, q)' <=> InPlace(d, q) BY <1>4, <1>5 DEF InPlace
  <2>2. InPlace(d, rd.p) => b # 0 BY Numbers DEF InPlace
  <2>3. ~(j < 0) BY Numbers
  <2>4. CASE b = 0
    <3>1. Behind(d, j)' <=> \E q \in Nat : InPlace(d, q) /\ (q < rd.p \/ q = rd.p)
          BY <1>1, <1>4, <2>1, <2>4 DEF Behind, HerePcs
    <3>. QED BY <1>1, <2>2, <2>4, <3>1
  <2>5. CASE b # 0
    <3>1. Behind(d, j)' <=> \E q \in Nat : InPlace(d, q) /\ q < rd.p
          BY <1>1, <1>4, <2>1, <2>3, <2>5 DEF Behind, HerePcs
    <3>. QED BY <1>1, <3>1
  <2>. QED BY <2>4, <2>5
<1>7. Running' BY <1>4 DEF Running
<1>8. Histories' /\ Accounts' /\ ReadsStored' /\ SeesStable'
      BY <1>1, <1>3, <1>4, <1>6, <1>7, GoesOn
<1>9. Whereabouts' BY <1>1, <1>2, <1>4, <1>5 DEF Whereabouts, HerePcs
<1>. QED BY <1>4, <1>8, <1>9 DEF Reading

LEMMA LeavesList ==
  ASSUME NEW r \in ReaderLocals, NEW c \in ReaderPcs
  PROVE  /\ [r EXCEPT !.b = 0, !.i = 0, !.pc = c] \in ReaderLocals
         /\ \A s : s = [r EXCEPT !.b = 0, !.i = 0, !.pc = c] =>
              s.pc = c /\ s.kind = r.kind /\ s.v = r.v /\ s.e = r.e
<1>1. 0 \in Nat /\ 0 \in Int OBVIOUS
<1>2. [r EXCEPT !.b = 0, !.i = 0, !.pc = c] \in ReaderLocals BY <1>1 DEF ReaderLocals
<1>3. \A s : s = [r EXCEPT !.b = 0, !.i = 0, !.pc = c] =>
        s.pc = c /\ s.kind = r.kind /\ s.v = r.v /\ s.e = r.e
      BY DEF ReaderLocals
<1>. QED BY <1>2, <1>3

LEMMA PlaceReading ==
  ASSUME Store, Reading, ReadPlace \/ ReadUnwritten
  PROVE  Reading'
<1>. USE DEF Unwritten
<1>1. CASE ReadPlace BY <1>1, PlaceTurns DEF ReadPlace
<1>2. CASE ReadUnwritten
  <2>1. PICK to \in {"next", "wild"} : Go([rd EXCEPT !.b = 0, !.i = 0, !.pc = to])
        BY <1>2 DEF ReadUnwritten
  <2>2. CASE to = "next" BY <1>2, <2>1, <2>2, PlaceTurns DEF ReadUnwritten
  <2>3. CASE to = "wild"
    <3>1. rd' = [rd EXCEPT !.b = 0, !.i = 0, !.pc = "wild"] /\ UNCHANGED <<vars, seen, stable, ever>>
          BY <2>1, <2>3 DEF Go
    <3>0. ReaderOK /\ rd.e \in Types BY <1>2, PlaceFacts DEF ReadUnwritten
    <3>2. rd \in ReaderLocals /\ rd.e \in Types /\ ReaderOK BY <3>0 DEF ReaderOK
    <3>3. rd' \in ReaderLocals /\ rd'.pc = "wild" /\ rd'.kind = rd.kind /\ rd'.v = rd.v /\ rd'.e = rd.e
      <4>1. "wild" \in ReaderPcs BY DEF ReaderPcs
      <4>. DEFINE to_wild == [rd EXCEPT !.b = 0, !.i = 0, !.pc = "wild"]
      <4>2. /\ to_wild \in ReaderLocals
            /\ \A s : s = to_wild =>
                 s.pc = "wild" /\ s.kind = rd.kind /\ s.v = rd.v /\ s.e = rd.e
            BY <3>2, <4>1, LeavesList
      <4>3. rd' = to_wild BY <3>1
      <4>. HIDE DEF to_wild
      <4>. QED BY <4>2, <4>3
    <3>4. rd'.pc = "wild" /\ rd'.kind = rd.kind /\ rd'.v = rd.v /\ rd'.e = rd.e BY <3>3
    <3>5. ReaderOK' BY <3>1, <3>2, <3>3, <3>4 DEF ReaderOK
    <3>. QED BY <3>1, <3>4, <3>5, StopReading
  <2>. QED BY <2>1, <2>2, <2>3
<1>. QED BY <1>1, <1>2

(* A slot is read: an edge is stored, and nowhere else in a list.          *)
LEMMA OneSlot ==
  ASSUME Single, NEW d \in Listed, NEW b \in Listed, NEW j \in Slots, NEW i \in Slots,
         Occupied(d, j), Occupied(b, i), EdgeIn(d, j) = EdgeIn(b, i)
  PROVE  d = b /\ j = i
<1>. SUFFICES ASSUME NEW o, o = [from |-> eb[d].vertex, type |-> eb[d].type,
                                 to |-> eb[d].edges[j].nbr]
              PROVE  d = b /\ j = i
     OBVIOUS
<1>1. /\ eb[d].type = eb[b].type /\ eb[d].vertex = eb[b].vertex
      /\ eb[d].edges[j].nbr = eb[b].edges[i].nbr
      BY DEF EdgeIn
<1>2. Has(d, j, o) /\ Has(b, i, o) BY <1>1 DEF Has, Mine
<1>. QED BY <1>2 DEF Single

LEMMA IsStored ==
  ASSUME NEW b \in Blocks, b < tail, NEW i \in Slots, Occupied(b, i)
  PROVE  EdgeIn(b, i) \in Stored
<1>1. <<b, i>> \in {q \in {c \in Blocks : c < tail} \X Slots : Occupied(q[1], q[2])} OBVIOUS
<1>. QED BY <1>1 DEF Stored

LEMMA Appended ==
  ASSUME NEW S, NEW s \in Seq(S), NEW x \in S, NEW r, r = Append(s, x)
  PROVE  /\ Len(s) \in Nat /\ DOMAIN s = 1..Len(s) /\ DOMAIN r = 1..Len(s)+1
         /\ r[Len(s) + 1] = x /\ \A m \in 1..Len(s) : r[m] = s[m]
OBVIOUS

(* What appending one triple does to what has been met.                    *)
LEMMA OthersMet ==
  ASSUME NEW x, NEW y, y # x,
         \A m \in DOMAIN seen : m \in DOMAIN seen' /\ seen'[m] = seen[m],
         \A m \in DOMAIN seen' : m \in DOMAIN seen \/ seen'[m] = x
  PROVE  (Met(y)' <=> Met(y)) /\ (Unmet(y)' <=> Unmet(y))
<1>1. Unmet(y)' <=> Unmet(y) BY DEF Unmet
<1>2. ASSUME Met(y) PROVE Met(y)'
  <2>1. PICK n \in DOMAIN seen : \A m \in DOMAIN seen : seen[m] = y <=> m = n BY <1>2 DEF Met
  <2>2. n \in DOMAIN seen' /\ \A m \in DOMAIN seen' : seen'[m] = y <=> m = n BY <2>1
  <2>. QED BY <2>2 DEF Met
<1>3. ASSUME Met(y)' PROVE Met(y)
  <2>1. PICK n \in DOMAIN seen' : \A m \in DOMAIN seen' : seen'[m] = y <=> m = n BY <1>3 DEF Met
  <2>2. n \in DOMAIN seen /\ \A m \in DOMAIN seen : seen[m] = y <=> m = n BY <2>1
  <2>. QED BY <2>2 DEF Met
<1>. QED BY <1>1, <1>2, <1>3

LEMMA OnceMet ==
  ASSUME NEW x, Unmet(x), Len(seen) \in Nat, DOMAIN seen = 1..Len(seen),
         DOMAIN seen' = 1..Len(seen)+1, seen'[Len(seen) + 1] = x,
         \A m \in 1..Len(seen) : seen'[m] = seen[m]
  PROVE  Met(x)'
<1>. SUFFICES ASSUME NEW n \in Nat, n = Len(seen) PROVE Met(x)' OBVIOUS
<1>1. n + 1 \in DOMAIN seen' OBVIOUS
<1>2. ASSUME NEW m \in DOMAIN seen' PROVE seen'[m] = x <=> m = n + 1
  <2>1. CASE m = n + 1 BY <2>1
  <2>2. CASE m \in 1..n BY <2>2 DEF Unmet
  <2>. QED BY <2>1, <2>2
<1>. QED BY <1>1, <1>2 DEF Met

LEMMA PassReading ==
  ASSUME Store, Reading, rd.pc \in {"slot", "copy"},
         rd' = [rd EXCEPT !.i = @ + 1, !.pc = "high"], UNCHANGED <<stable, ever, vars>>,
         NEW skip \in BOOLEAN, skip => eb[rd.b].edges[rd.i].nbr < 0,
         ~skip /\ eb[rd.b].edges[rd.i].nbr < 0 => rd.kind = "modify",
         seen' = IF skip THEN seen
                 ELSE Append(seen, <<eb[rd.b].type, eb[rd.b].vertex, eb[rd.b].edges[rd.i].nbr>>)
  PROVE  Reading'
<1>. SUFFICES ASSUME NEW b, NEW i, NEW n, NEW x, b = rd.b, i = rd.i, n = eb[b].edges[i].nbr,
                     x = <<eb[b].type, eb[b].vertex, n>>, skip => n < 0,
                     ~skip /\ n < 0 => rd.kind = "modify",
                     seen' = IF skip THEN seen ELSE Append(seen, x)
              PROVE  Reading'
     OBVIOUS
<1>1. /\ rd.pc \in {"slot", "copy"} /\ rd.pc \in HerePcs /\ Running /\ ReaderOK
      /\ rd' = [rd EXCEPT !.i = @ + 1, !.pc = "high"]
      /\ seen' = (IF skip THEN seen ELSE Append(seen, x))
      /\ UNCHANGED <<stable, ever, vars>>
      BY DEF HerePcs, Running, Reading
<1>2. /\ IInv /\ Safe /\ Arrays /\ eb \in [Blocks -> EdgeBlock] BY DEF Store, Safe, IInv, TypeOK
<1>3. /\ b \in Blocks /\ b < tail /\ b + 1 < PoolSize /\ b \in Nat /\ i \in Nat
      /\ rd.kind = "array" => rd.p \in 0..PoolSize-1 /\ eb[b].type = rd.e
      BY <1>1, HereIs, ReaderFields, Numbers
<1>4. i \in Slots /\ i < eb[b].high
  <2>1. i < eb[b].high BY <1>1 DEF Reading, Whereabouts
  <2>2. eb[b].high \in 0..BlockSize BY <1>2, <1>3, BlockTypes
  <2>. QED BY <1>3, <2>1, <2>2, SizesPositive DEF Slots
<1>5. n \in Int /\ eb[b].type \in Int /\ eb[b].vertex \in Int
  <2>1. eb[b] \in EdgeBlock /\ n \in Int BY <1>2, <1>3, <1>4, BlockTypes
  <2>. QED BY <2>1, SMT DEF EdgeBlock
<1>6. x \in Triples BY <1>5 DEF Triples
<1>7. seen \in Seq(Triples) /\ seen' \in Seq(Triples)
      BY <1>1, <1>6 DEF ReaderOK
<1>8. /\ ReaderOK' /\ rd'.pc = "high" /\ rd'.p = rd.p /\ rd'.b = b /\ rd'.i = i + 1
      /\ rd'.kind = rd.kind /\ rd'.v = rd.v /\ rd'.e = rd.e
  <2>1. rd \in ReaderLocals /\ rd.i + 1 \in Nat /\ rd.e \in Types
        BY <1>1, <1>3 DEF ReaderOK
  <2>2. rd' \in ReaderLocals BY <1>1, <2>1 DEF ReaderLocals, ReaderPcs
  <2>3. /\ rd'.pc = "high" /\ rd'.p = rd.p /\ rd'.b = rd.b /\ rd'.i = rd.i + 1
        /\ rd'.kind = rd.kind /\ rd'.v = rd.v /\ rd'.e = rd.e
        BY <1>1, <2>1 DEF ReaderLocals
  <2>. QED BY <1>7, <2>1, <2>2, <2>3 DEF ReaderOK
<1>9. Running' BY <1>8 DEF Running
<1>10. eta' = eta /\ eb' = eb /\ Listed' = Listed BY <1>1, SameStore DEF vars
<1>11. Whereabouts' BY <1>1, <1>8, <1>10 DEF Reading, Whereabouts, HerePcs
<1>12. rd.kind = "array" => \A d, q : InPlace(d, q) /\ q = rd.p => d = b
       BY <1>1 DEF Reading, Whereabouts, InPlace
<1>13. \A d, q : InPlace(d, q)' <=> InPlace(d, q) BY <1>8, <1>10 DEF InPlace
<1>14. ASSUME NEW d \in Listed, NEW j \in Slots, ~(d = b /\ j = i)
       PROVE  Behind(d, j)' <=> Behind(d, j)
  <2>1. j \in Nat /\ d \in Nat BY Numbers
  <2>2. d = b => (j < i + 1 <=> j < i) BY <1>3, <1>14, <2>1
  <2>3. CASE rd.kind = "array"
    <3>1. \A q \in Nat : InPlace(d, q) /\ q = rd.p => (j < i + 1 <=> j < i)
          BY <1>12, <2>2, <2>3
    <3>2. Behind(d, j)' <=> \E q \in Nat : InPlace(d, q) /\ (q < rd.p \/ (q = rd.p /\ j < i + 1))
          BY <1>8, <1>13, <2>3 DEF Behind, HerePcs
    <3>3. Behind(d, j) <=> \E q \in Nat : InPlace(d, q) /\ (q < rd.p \/ (q = rd.p /\ j < i))
          BY <1>1, <2>3 DEF Behind, HerePcs
    <3>. QED BY <3>1, <3>2, <3>3
  <2>4. CASE rd.kind # "array"
    <3>1. Behind(d, j)' <=> d < b \/ (d = b /\ j < i + 1) BY <1>8, <2>4 DEF Behind, HerePcs
    <3>2. Behind(d, j) <=> d < b \/ (d = b /\ j < i) BY <1>1, <2>4 DEF Behind, HerePcs
    <3>. QED BY <2>2, <3>1, <3>2
  <2>. QED BY <2>3, <2>4
<1>15. CASE skip
  <2>1. seen' = seen BY <1>1, <1>15
  <2>2. ~Occupied(b, i) BY <1>5, <1>15 DEF Occupied
  <2>3. Histories' /\ Accounts' /\ ReadsStored' /\ SeesStable'
        BY <1>1, <1>8, <1>9, <1>14, <2>1, <2>2, GoesOn
  <2>. QED BY <1>8, <1>11, <2>3 DEF Reading
<1>16. CASE ~skip
  <2>1. /\ Len(seen) \in Nat /\ DOMAIN seen = 1..Len(seen)
        /\ DOMAIN seen' = 1..Len(seen)+1 /\ seen'[Len(seen) + 1] = x
        /\ \A m \in 1..Len(seen) : seen'[m] = seen[m]
    <3>1. seen' = Append(seen, x) BY <1>1, <1>16
    <3>. QED BY <1>6, <1>7, <3>1, Appended
  <2>2. x = EdgeIn(b, i) /\ (rd.kind # "modify" \/ n >= 0 => Occupied(b, i))
        BY <1>4, <1>5, <1>16 DEF Occupied, EdgeIn
  <2>3. /\ Wanted(ever)' = Wanted(ever) /\ Wanted(stable)' = Wanted(stable)
        BY <1>1, <1>8 DEF Wanted
  <2>4. Histories' BY <1>1, SameStore DEF Reading, Histories
  <2>5. ReadsStored'
    <3>. SUFFICES ASSUME rd.kind # "modify" PROVE ReadsStored'
         BY <1>8 DEF ReadsStored
    <3>1. x \in Wanted(ever)
      <4>1. x \in ever BY <1>1, <1>3, <1>4, <2>2, IsStored DEF Reading, Histories
      <4>2. rd.kind \in {"typed", "array"} => eb[b].type = rd.e BY <1>1 DEF Reading, Whereabouts
      <4>3. rd.kind # "array" => eb[b].vertex = rd.v BY <1>1 DEF Reading, Whereabouts
      <4>4. rd.kind \in Kinds BY <1>1, ReaderFields
      <4>. QED BY <2>2, <4>1, <4>2, <4>3, <4>4, WantedEdge DEF Kinds
    <3>2. \A m \in 1..Len(seen) : seen[m] \in Wanted(ever) BY <2>1 DEF Reading, ReadsStored
    <3>. QED BY <2>1, <2>3, <3>1, <3>2 DEF ReadsStored
  <2>6. ASSUME NEW y, y # x PROVE (Met(y)' <=> Met(y)) /\ (Unmet(y)' <=> Unmet(y))
    <3>1. \A m \in DOMAIN seen : m \in DOMAIN seen' /\ seen'[m] = seen[m] BY <2>1
    <3>2. \A m \in DOMAIN seen' : m \in DOMAIN seen \/ seen'[m] = x BY <2>1
    <3>. QED BY <2>6, <3>1, <3>2, OthersMet, Zenon
  <2>7. Unmet(x) => Met(x)' BY <2>1, OnceMet, Zenon
  <2>8. Accounts'
    <3>. SUFFICES ASSUME NEW d \in Listed, NEW j \in Slots, NEW e, e = EdgeIn(d, j),
                         Occupied(d, j), e \in Wanted(stable)
                  PROVE  IF Behind(d, j)' THEN Met(e)' ELSE Unmet(e)'
      <4>1. \A d, j : (Occupied(d, j)' <=> Occupied(d, j)) /\ EdgeIn(d, j)' = EdgeIn(d, j)
            BY <1>1, SameStore
      <4>. QED BY <1>10, <2>3, <4>1 DEF Accounts, Met, Unmet
    <3>1. IF Behind(d, j) THEN Met(e) ELSE Unmet(e)
          BY <1>1 DEF Reading, Accounts
    <3>2. CASE d = b /\ j = i
      <4>1. \A q : rd.kind = "array" => (InPlace(d, q) <=> q = rd.p)
        <5>. SUFFICES ASSUME rd.kind = "array" PROVE \A q : InPlace(d, q) <=> q = rd.p
             OBVIOUS
        <5>1. rd.e \in Types /\ rd.p \in Nat BY <1>1, ReaderFields DEF ReaderOK
        <5>2. rd.p < eta[rd.e].high /\ eta[rd.e].blocks[rd.p] = b
              BY <1>1 DEF Reading, Whereabouts
        <5>3. eta[rd.e].high \in Nat
          <6>1. eta[rd.e] \in [high : Nat, blocks : [0..PoolSize-1 -> 0..PoolSize-1]]
                BY <1>2, <5>1 DEF IInv, TypeOK
          <6>. QED BY <6>1
        <5>4. InPlace(d, rd.p) BY <3>2, <5>1, <5>2, <5>3 DEF InPlace
        <5>5. \A q : InPlace(d, q) => q = rd.p BY <1>2, <5>1, <5>4, HasPlace DEF InPlace
        <5>. QED BY <5>4, <5>5
      <4>2. rd.p \in Nat /\ ~(rd.p < rd.p) /\ ~(i < i) /\ ~(b < b) /\ i < i + 1
            BY <1>1, <1>3, ReaderFields
      <4>4. ~Behind(d, j)
        <5>1. CASE rd.kind = "array" BY <1>1, <3>2, <4>1, <4>2, <5>1 DEF Behind
        <5>2. CASE rd.kind # "array" BY <1>1, <3>2, <4>2, <5>2 DEF Behind
        <5>. QED BY <5>1, <5>2
      <4>5. Behind(d, j)'
        <5>1. CASE rd.kind = "array"
          <6>1. \A q : InPlace(d, q)' <=> q = rd.p BY <1>13, <4>1, <5>1
          <6>. QED BY <1>8, <3>2, <4>2, <5>1, <6>1 DEF Behind, HerePcs
        <5>2. CASE rd.kind # "array" BY <1>8, <3>2, <4>2, <5>2 DEF Behind, HerePcs
        <5>. QED BY <5>1, <5>2
      <4>3. e = x BY <2>2, <3>2
      <4>. QED BY <2>7, <3>1, <4>3, <4>4, <4>5
    <3>3. CASE ~(d = b /\ j = i)
      <4>1. e # x
        <5>3. CASE n < 0
          <6>1. eb[d].edges[j].nbr >= 0 BY DEF Occupied
          <6>2. eb[d].edges[j].nbr # n BY <1>5, <5>3, <6>1
          <6>. QED BY <6>2 DEF EdgeIn
        <5>4. n >= 0 => Occupied(b, i) BY <2>2
        <5>1. CASE n >= 0 /\ b \in Listed
              BY <1>2, <1>4, <2>2, <3>3, <5>1, <5>4, OneSlot DEF Safe, Uniqueness
        <5>2. CASE n >= 0 /\ b \notin Listed
          <6>1. x \notin Edges BY <1>2, <1>3, <1>4, <2>2, <5>2, <5>4, NotYet
          <6>2. e \in Edges BY <1>1 DEF Wanted, Reading, Histories
          <6>. QED BY <6>1, <6>2
        <5>. QED BY <1>5, <5>1, <5>2, <5>3
      <4>. QED BY <1>14, <2>6, <3>1, <3>3, <4>1
    <3>. QED BY <3>2, <3>3
  <2>9. SeesStable' BY <1>8 DEF SeesStable
  <2>. QED BY <1>8, <1>11, <2>4, <2>5, <2>8, <2>9 DEF Reading
<1>. QED BY <1>15, <1>16

LEMMA SlotReading ==
  ASSUME Store, Reading, ReadSlot
  PROVE  Reading'
<1>1. rd.pc = "slot" /\ rd.pc \in HerePcs BY DEF ReadSlot, Reads, HerePcs
<1>2. CASE eb[rd.b].edges[rd.i].nbr < 0
  <2>1. /\ rd' = [rd EXCEPT !.i = @ + 1, !.pc = "high"] /\ seen' = seen
        /\ UNCHANGED <<stable, ever, vars>>
        BY <1>2 DEF ReadSlot, Go
  <2>. QED BY <1>1, <1>2, <2>1, PassReading
<1>3. CASE ~(eb[rd.b].edges[rd.i].nbr < 0)
  <2>1. Go([rd EXCEPT !.pc = "copy"]) BY <1>3 DEF ReadSlot
  <2>2. /\ rd.kind \in {"typed", "array"} => eb[rd.b].type = rd.e
        /\ rd.i < eb[rd.b].high
        BY <1>1 DEF Reading, Whereabouts
  <2>. QED BY <1>1, <2>1, <2>2, TurnReading
<1>. QED BY <1>2, <1>3

LEMMA CopyReading ==
  ASSUME Store, Reading, CopySlot
  PROVE  Reading'
<1>. SUFFICES ASSUME NEW n, n = eb[rd.b].edges[rd.i].nbr PROVE Reading'
     OBVIOUS
<1>1. /\ rd.pc = "copy" /\ rd' = [rd EXCEPT !.i = @ + 1, !.pc = "high"]
      /\ UNCHANGED <<stable, ever, vars>>
      /\ seen' = IF n < 0 /\ rd.kind # "modify" THEN seen
                 ELSE Append(seen, <<eb[rd.b].type, eb[rd.b].vertex, n>>)
      BY DEF CopySlot, Reads
<1>2. CASE n < 0 /\ rd.kind # "modify"
  <2>1. seen' = seen BY <1>1, <1>2
  <2>. QED BY <1>1, <1>2, <2>1, PassReading
<1>3. CASE ~(n < 0 /\ rd.kind # "modify")
  <2>1. seen' = Append(seen, <<eb[rd.b].type, eb[rd.b].vertex, n>>) BY <1>1, <1>3
  <2>. QED BY <1>1, <1>3, <2>1, PassReading
<1>. QED BY <1>2, <1>3

------------------------------------------------------------------------------
(* A reader changes nothing of the store, so all that is proved of the     *)
(* threads alone holds of them beside one.                                 *)
LEMMA ReaderSteps ==
  /\ ReadersNext => Next \/ UNCHANGED vars
  /\ UNCHANGED allVars => UNCHANGED vars
<1>1. ASSUME Begin \/ Read PROVE UNCHANGED vars
  <2>. USE DEF Go
  <2>1. CASE Begin BY <2>1 DEF Begin
  <2>2. CASE ReadHead BY <2>2 DEF ReadHead, Follow
  <2>3. CASE EnterBlock BY <2>3 DEF EnterBlock
  <2>4. CASE CheckHigh BY <2>4 DEF CheckHigh
  <2>5. CASE ReadSlot BY <2>5 DEF ReadSlot
  <2>6. CASE ReadNext BY <2>6 DEF ReadNext, Follow
  <2>7. CASE ReadPlace BY <2>7 DEF ReadPlace
  <2>8. CASE ReadUnwritten BY <2>8 DEF ReadUnwritten
  <2>9. CASE EndOfArray BY <2>9 DEF EndOfArray
  <2>10. CASE CopySlot BY <2>10 DEF CopySlot
  <2>. QED BY <1>1, <2>1, <2>2, <2>3, <2>4, <2>5, <2>6, <2>7, <2>8, <2>9, <2>10 DEF Read
<1>2. ReadersNext => Next \/ UNCHANGED vars
      BY <1>1 DEF ReadersNext, Join, Write, Rest, Next
<1>3. UNCHANGED allVars => UNCHANGED vars BY DEF allVars
<1>. QED BY <1>2, <1>3

LEMMA StoreHolds == ReadersSpec => []Store
<1>1. ReadersSpec => Spec
  <2>1. ReadersInit => Init BY DEF ReadersInit
  <2>2. [ReadersNext]_allVars => [Next]_vars BY ReaderSteps
  <2>. QED BY <2>1, <2>2, PTL DEF ReadersSpec, Spec
<1>2. IInv /\ Places /\ Lists /\ Uniqueness /\ Arrays /\ Filled => Store BY DEF Store, Safe
<1>. QED BY <1>1, <1>2, Invariance, PlacesHold, ListsHold, UniqueHold, ArraysHold, FilledHold, PTL

LEMMA InitReading == ReadersInit => Reading
<1>. SUFFICES ASSUME ReadersInit PROVE Reading
     OBVIOUS
<1>1. rd = NoReader /\ seen = <<>> BY DEF ReadersInit, ReaderInit
<1>2. rd \in ReaderLocals /\ rd.pc = "none"
  <2>1. 0 \in Vertices BY SizesPositive DEF Vertices
  <2>. QED BY <1>1, <2>1 DEF NoReader, ReaderLocals, ReaderPcs, Kinds
<1>3. ReaderOK BY <1>1, <1>2 DEF ReaderOK
<1>4. Whereabouts /\ ReadsStored /\ SeesStable /\ ~Running
      BY <1>1, <1>2 DEF Whereabouts, ReadsStored, SeesStable, Running, HerePcs
<1>. QED BY <1>3, <1>4 DEF Reading

(* The barrier, the end and what else leaves the store as it is.           *)
LEMMA JoinReading ==
  ASSUME Store, Reading, UNCHANGED <<eb, eta, tail, th>>, Observe \/ UNCHANGED reader
  PROVE  Reading'
<1>1. /\ Listed' = Listed
      /\ \A d, j : (Occupied(d, j)' <=> Occupied(d, j)) /\ EdgeIn(d, j)' = EdgeIn(d, j)
  <2>. USE DEF Occupied, EdgeIn
  <2>1. Listed' = Listed BY DEF Listed, Private
  <2>. QED BY <2>1
<1>2. Edges' = Edges /\ Stored' = Stored
  <2>1. EdgeSlots' = EdgeSlots BY <1>1 DEF EdgeSlots
  <2>. QED BY <1>1, <2>1 DEF Edges, Stored
<1>3. /\ rd' = rd /\ seen' = seen
      /\ \/ UNCHANGED <<stable, ever>>
         \/ Running /\ stable' = stable \cap Edges /\ ever' = ever \cup Stored
      BY <1>2 DEF Observe, reader, Running
<1>4. UNCHANGED <<stable, ever>> \/ (Running /\ stable' = stable /\ ever' = ever)
      BY <1>3 DEF Reading, Histories
<1>5. UNCHANGED <<rd, seen, stable, ever>> BY <1>3, <1>4
<1>6. ReaderOK' /\ ReadsStored' /\ SeesStable'
      BY <1>5 DEF Reading, ReaderOK, ReadsStored, SeesStable, Wanted
<1>7. Whereabouts' BY <1>1, <1>5 DEF Reading, Whereabouts
<1>8. ASSUME Running PROVE Histories' /\ Accounts'
  <2>1. Wanted(stable)' = Wanted(stable) BY <1>5 DEF Wanted
  <2>2. \A d, j : Behind(d, j)' <=> Behind(d, j) BY <1>5 DEF Behind, InPlace
  <2>3. \A x : (Met(x)' <=> Met(x)) /\ (Unmet(x)' <=> Unmet(x)) BY <1>5 DEF Met, Unmet
  <2>4. Histories' BY <1>2, <1>5, <1>8 DEF Reading, Histories
  <2>5. Accounts
        BY <1>8 DEF Reading
  <2>. SUFFICES ASSUME NEW d \in Listed, NEW j \in Slots, NEW e, e = EdgeIn(d, j),
                       Occupied(d, j), e \in Wanted(stable)
                PROVE  IF Behind(d, j)' THEN Met(e)' ELSE Unmet(e)'
       BY <1>1, <2>1, <2>4 DEF Accounts, Met, Unmet
  <2>6. IF Behind(d, j) THEN Met(e) ELSE Unmet(e) BY <2>5 DEF Accounts
  <2>. QED BY <2>2, <2>3, <2>6
<1>9. Running' <=> Running BY <1>5 DEF Running
<1>. QED BY <1>6, <1>7, <1>8, <1>9 DEF Reading

LEMMA NextReads == Store /\ Store' /\ Reading /\ [ReadersNext]_allVars => Reading'
<1>. SUFFICES ASSUME Store, Store', Reading, [ReadersNext]_allVars PROVE Reading'
     OBVIOUS
<1>1. CASE Join BY <1>1, JoinReading DEF Join, Barrier, edgeVars, poolVars
<1>2. CASE Rest BY <1>2, JoinReading DEF Rest, Over, vars
<1>3. CASE UNCHANGED allVars BY <1>3, JoinReading DEF allVars, vars
<1>4. CASE Read
      BY <1>4, HeadReading, EnterReading, HighReading, SlotReading, CopyReading,
         NextReading, EndReading, PlaceReading
         DEF Read
<1>5. CASE \E t \in Threads : Write(t) BY <1>5, WriteReading
<1>6. CASE Begin BY <1>6, BeginReading
<1>. QED BY <1>1, <1>2, <1>3, <1>4, <1>5, <1>6 DEF ReadersNext

LEMMA ReadingHolds == ReadersSpec => []Reading
BY InitReading, NextReads, StoreHolds, PTL DEF ReadersSpec

(* Nothing is made up: what the body of a traversal that only reads is run *)
(* on, copied after its slot was found to hold an edge and then looked at  *)
(* again, was stored at some time since the traversal began, of the type   *)
(* and the source asked for (the STINGER_READ_ONLY loops beside            *)
(* stinger_insert_edge and stinger_remove_edge).                           *)
THEOREM OnlyStoredRead == ReadersSpec => []ReadsStored
<1>1. Reading => ReadsStored BY DEF Reading
<1>. QED BY <1>1, ReadingHolds, PTL

(* Nothing is missed and nothing is met twice by a traversal of all edges  *)
(* of a vertex or of a type that ends inside the pool: an edge that is     *)
(* there from the beginning to the end of it is met once, though the list  *)
(* or the array grows, slots are emptied and used again, and no lock is    *)
(* taken (the loops of stinger-traversal.h beside stinger_insert_edge and  *)
(* stinger_remove_edge).                                                   *)
THEOREM StableSeen == ReadersSpec => []SeesStable
<1>1. Reading => SeesStable BY DEF Reading
<1>. QED BY <1>1, ReadingHolds, PTL
==============================================================================

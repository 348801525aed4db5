-------------------------- MODULE StingerEdgesProofs ---------------------------
(***************************************************************************)
(* Proofs about the edge store of StingerEdges, for every number of        *)
(* threads, vertices, types, blocks and slots and for every workload.      *)
(*                                                                         *)
(* First part: its types, which bound every index into the pool and into a *)
(* block, and the mutual exclusion of its slot locks.  The inductive       *)
(* invariant IInv says of each thread what its program counter implies for *)
(* its locals (Fits), and the argument about a step has two halves: what   *)
(* the step does to the store (Frame: high-water marks rise, edges stay    *)
(* unless the step removes one, and the timeFirst that changes is that of  *)
(* a slot the thread holds or finds unlocked), and where it leaves the     *)
(* thread (Moves).  StoreStep puts them together.                          *)
(*                                                                         *)
(* Second part, on top of IInv:                                            *)
(*                                                                         *)
(* Slots: an edge that a scan can see is never overwritten by another.  A  *)
(* thread fills a slot only when it holds its lock and the slot is free    *)
(* (Places), and it stays free until then because a high-water mark only   *)
(* rises to include the very next slot, which takes the lock of that slot. *)
(*                                                                         *)
(* Lists: a thread follows links from the head of the vertex it adds to or *)
(* removes from, so every block it comes to is in that vertex's list; a    *)
(* link is changed only by the thread that has locked it, and the block it *)
(* then leads to is younger than the one that leads to it.                 *)
(*                                                                         *)
(* Arrays: a place of an array is claimed before it is filled (push_ebs),  *)
(* so the argument is about who owns a place: the block that is in it, or  *)
(* the one that the thread which claimed it is about to put there.         *)
(***************************************************************************)
EXTENDS StingerEdges, FiniteSetTheorems, TLAPS

(* The program counters at which a thread is at a slot, at a block, in the *)
(* scans whose end was read from the block; at which it updates an edge    *)
(* that is there, removes one, adds one; at which it holds a slot's lock.  *)
SlotPcs ==
  {"findslot", "slot", "lockslot", "recheck", "release", "setnbr", "count",
   "onlyedge", "onlylarge", "degrees", "high", "unlockslot", "readweight", "change",
   "weight", "stamps", "checklarge", "lockstamp", "widen", "raise", "unlockstamp",
   "recent", "restore", "lockweight", "reremove", "uncount", "clear"}
BlockPcs == SlotPcs \cup {"etype", "findnext", "scan", "scannext", "claim", "push", "link"}
ScanPcs  == {"findslot", "slot", "lockslot", "recheck", "release"}
UpdatePcs ==
  {"readweight", "change", "weight", "stamps", "checklarge", "lockstamp", "widen",
   "raise", "unlockstamp", "recent", "restore"}
RemovalPcs == {"lockweight", "reremove", "uncount", "clear"}
InsertPcs  ==
  {"activate", "cas", "rescan", "scan", "slot", "scannext", "lockslot", "recheck",
   "release", "append", "newblock", "unlink", "claim", "push", "link", "setnbr",
   "count", "onlyedge", "onlylarge", "degrees", "high", "unlockslot"} \cup UpdatePcs
HoldingPcs ==
  {"recheck", "release", "setnbr", "count", "onlyedge", "onlylarge", "degrees", "high",
   "unlockslot", "restore"}

(* What holds of a thread at p: the kind of its operation, its block b and *)
(* slot i, the end e of its scan, the value s it saved, and held.          *)
Fits(p, kind, b, i, e, s, h) ==
  /\ p \in BlockPcs => b # 0
  /\ p # "claim" => b < tail
  /\ p = "unlink" => s \in 0..tail-1
  /\ p \in SlotPcs => i < BlockSize
  /\ p \in ScanPcs => e <= eb[b].high
  /\ p = "findslot" => i < e
  /\ p \in {"readweight", "change"} => Occupied(b, i)
  /\ h => p \in UpdatePcs
  /\ p \in RemovalPcs => kind = "remove"
  /\ p \in InsertPcs => kind # "remove"

LocalOK(x) ==
  /\ x.tmp < tail
  /\ Fits(x.pc, work[phase][x.op].kind, x.tmp, x.k, x.endk, x.sv, x.held)

(* Every busy thread has an operation of its own.                          *)
Assigned ==
  \A t \in Threads : th[t].pc # "idle" =>
    /\ phase \in DOMAIN work
    /\ th[t].op \in DOMAIN work[phase]
    /\ res[th[t].op] = Taken
    /\ \A u \in Threads : th[u].pc # "idle" /\ th[u].op = th[t].op => u = t

(* No link leads to a block that has not been handed out.                  *)
LinksInPool ==
  /\ ~aborted => tail < PoolSize
  /\ \A c \in Cells : link[c] # MARKER => link[c] < tail

IInv ==
  /\ TypeOK /\ Assigned /\ LinksInPool /\ SlotLockExclusive
  /\ \A t \in Threads : LocalOK(th[t])

------------------------------------------------------------------------------
(* The types of a thread's locals.                                         *)
LEMMA FieldTypes ==
  ASSUME NEW x \in Locals
  PROVE  /\ x.pc \in ProgramCounters /\ x.op \in Nat /\ x.loc \in Cells /\ x.ptr \in Cells
         /\ x.tmp \in 0..PoolSize-1 /\ x.k \in Nat /\ x.endk \in Nat /\ x.sv \in Int
         /\ x.sm \in Int /\ x.nw \in Int /\ x.rv \in {0, 1} /\ x.held \in BOOLEAN
BY SMT DEF Locals

(* The types of a block and of its edges.                                  *)
LEMMA BlockTypes ==
  ASSUME eb \in [Blocks -> EdgeBlock], NEW b \in Blocks
  PROVE  /\ eb[b] \in EdgeBlock /\ eb[b].edges \in [Slots -> Edge]
         /\ eb[b].high \in 0..BlockSize /\ eb[b].high \in Nat /\ eb[b].num \in Int
         /\ eb[b].small \in Int /\ eb[b].large \in Int
         /\ \A j \in Slots : /\ eb[b].edges[j] \in Edge
                             /\ eb[b].edges[j].nbr \in Int /\ eb[b].edges[j].weight \in Int
                             /\ eb[b].edges[j].first \in Int /\ eb[b].edges[j].recent \in Int
BY SizesPositive, SMT DEF EdgeBlock, Edge

(* A busy thread: its locals, what they fit, and its operation.            *)
LEMMA Working ==
  ASSUME IInv, NEW t \in Threads, th[t].pc # "idle"
  PROVE  /\ th[t] \in Locals /\ th \in [Threads -> Locals]
         /\ Fits(th[t].pc, Op(t).kind, th[t].tmp, th[t].k, th[t].endk, th[t].sv, th[t].held)
         /\ th[t].pc \in ProgramCounters /\ th[t].loc \in Cells /\ th[t].ptr \in Cells
         /\ th[t].tmp \in 0..PoolSize-1 /\ th[t].k \in Nat /\ th[t].endk \in Nat
         /\ th[t].sv \in Int /\ th[t].sm \in Int /\ th[t].nw \in Int /\ th[t].held \in BOOLEAN
         /\ th[t].rv \in {0, 1}
         /\ tail \in 1..PoolSize /\ th[t].tmp < tail
<1>1. /\ th[t] \in Locals /\ th \in [Threads -> Locals] /\ tail \in 1..PoolSize
      /\ LocalOK(th[t])
      BY DEF IInv, TypeOK
<1>2. /\ Fits(th[t].pc, Op(t).kind, th[t].tmp, th[t].k, th[t].endk, th[t].sv, th[t].held)
      /\ th[t].tmp < tail
      BY <1>1, Zenon DEF LocalOK, Op
<1>. QED BY <1>1, <1>2, FieldTypes

(* Its operation is one of the workload's.                                 *)
LEMMA OpFields ==
  ASSUME IInv, NEW t \in Threads, th[t].pc # "idle"
  PROVE  /\ Op(t) \in Operations
         /\ Op(t).kind \in {"insert", "incr", "remove"} /\ Op(t).type \in Types
         /\ Op(t).from \in Vertices /\ Op(t).to \in Vertices
         /\ Op(t).weight \in Int /\ Op(t).ts \in Nat
<1>1. /\ work \in Seq(Seq(Operations))
      /\ phase \in DOMAIN work /\ th[t].op \in DOMAIN work[phase]
      BY WorkloadsOK DEF IInv, TypeOK, Assigned
<1>2. work[phase] \in Seq(Operations) BY <1>1
<1>3. Op(t) \in Operations BY <1>1, <1>2 DEF Op
<1>. QED BY <1>3 DEF Operations

(* The block a thread is in, when it is in one.                            *)
LEMMA AtBlock ==
  ASSUME IInv, NEW t \in Threads, th[t].pc # "idle", th[t].tmp # 0
  PROVE  /\ th[t].tmp \in Blocks /\ NextOf(th[t].tmp) \in Cells
         /\ eb \in [Blocks -> EdgeBlock]
         /\ eb[th[t].tmp].high \in 0..BlockSize /\ eb[th[t].tmp].high \in Nat
<1>1. th[t].tmp \in Blocks BY Working, SizesPositive DEF Blocks
<1>2. NextOf(th[t].tmp) \in Cells BY <1>1 DEF NextOf, Cells
<1>3. eb \in [Blocks -> EdgeBlock] BY DEF IInv, TypeOK
<1>. QED BY <1>1, <1>2, <1>3, BlockTypes

(* The slot a thread is at, when it is at one.                             *)
LEMMA AtSlot ==
  ASSUME IInv, NEW t \in Threads, th[t].pc \in SlotPcs
  PROVE  /\ th[t].pc # "idle" /\ th[t].tmp # 0 /\ th[t].tmp \in Blocks /\ th[t].k \in Slots
         /\ th[t].k < BlockSize /\ BlockSize \in Nat /\ eb \in [Blocks -> EdgeBlock]
         /\ eb[th[t].tmp].high \in 0..BlockSize /\ eb[th[t].tmp].high \in Nat
         /\ Slot(t) \in Edge
         /\ Slot(t).nbr \in Int /\ Slot(t).weight \in Int /\ Slot(t).first \in Int
<1>1. th[t].pc # "idle" BY DEF SlotPcs
<1>2. th[t].tmp # 0 /\ th[t].k < BlockSize /\ th[t].k \in Nat
      BY <1>1, Working DEF Fits, BlockPcs
<1>3. th[t].k \in Slots BY <1>2, SizesPositive DEF Slots
<1>4. th[t].tmp \in Blocks /\ eb \in [Blocks -> EdgeBlock] BY <1>1, <1>2, AtBlock
<1>. QED BY <1>1, <1>2, <1>3, <1>4, BlockTypes, SizesPositive DEF Slot

(* A thread that holds a slot is at one.                                   *)
LEMMA HoldsAtSlot ==
  ASSUME IInv, NEW t \in Threads, HoldsSlot(t)
  PROVE  /\ th[t].pc \in SlotPcs /\ th[t].tmp \in Blocks /\ th[t].k \in Slots
         /\ th[t].tmp < tail
<1>1. LocalOK(th[t]) BY DEF IInv
<1>2. th[t].pc \in SlotPcs BY <1>1 DEF HoldsSlot, LocalOK, Fits, SlotPcs, UpdatePcs
<1>. QED BY <1>1, <1>2, AtSlot DEF LocalOK

------------------------------------------------------------------------------
(* What a step of t may do to the blocks below the tail of the pool.       *)
Frame(t) ==
  /\ tail <= tail'
  /\ \A b \in Blocks : b < tail =>
       /\ eb[b].high <= eb'[b].high
       /\ \A j \in Slots :
            /\ Op(t).kind # "remove" /\ eb[b].edges[j].nbr >= 0 => eb'[b].edges[j].nbr >= 0
            /\ eb'[b].edges[j].first # eb[b].edges[j].first =>
                 /\ b = th[t].tmp /\ j = th[t].k
                 /\ HoldsSlot(t) \/ eb[b].edges[j].first # MARKER

(* What fits before such a step fits after it.                             *)
LEMMA FitsLater ==
  ASSUME eb \in [Blocks -> EdgeBlock], eb' \in [Blocks -> EdgeBlock],
         tail \in 1..PoolSize, tail' \in 1..PoolSize, NEW t \in Threads, Frame(t),
         NEW p, NEW kind, NEW b \in 0..PoolSize-1, NEW i \in Nat, NEW e \in Nat, NEW s, NEW h,
         p \in InsertPcs => Op(t).kind # "remove", Fits(p, kind, b, i, e, s, h)
  PROVE  /\ p # "claim" => b < tail'
         /\ p = "unlink" => s \in 0..tail'-1
         /\ p \in ScanPcs => e <= eb'[b].high
         /\ p \in {"readweight", "change"} => i < eb'[b].high /\ eb'[b].edges[i].nbr >= 0
<1>1. tail <= tail' BY DEF Frame
<1>2. ASSUME p \in SlotPcs
      PROVE  /\ b \in Blocks /\ b < tail /\ i \in Slots
             /\ eb[b].high \in Nat /\ eb'[b].high \in Nat /\ eb[b].high <= eb'[b].high
  <2>1. b \in Blocks /\ b < tail /\ i \in Slots
        BY <1>2, SizesPositive DEF Fits, SlotPcs, BlockPcs, Blocks, Slots
  <2>2. eb[b].high \in 0..BlockSize /\ eb'[b].high \in 0..BlockSize
        BY <2>1 DEF EdgeBlock
  <2>. QED BY <2>1, <2>2, SizesPositive DEF Frame
<1>3. ASSUME p \in ScanPcs PROVE e <= eb'[b].high
  <2>1. p \in SlotPcs /\ e <= eb[b].high BY <1>3 DEF Fits, ScanPcs, SlotPcs
  <2>. QED BY <1>2, <2>1
<1>4. ASSUME p \in {"readweight", "change"}
      PROVE  i < eb'[b].high /\ eb'[b].edges[i].nbr >= 0
  <2>1. /\ p \in SlotPcs /\ i < eb[b].high /\ eb[b].edges[i].nbr >= 0
        /\ Op(t).kind # "remove"
        BY <1>4 DEF Fits, SlotPcs, InsertPcs, UpdatePcs, Occupied
  <2>. QED BY <1>2, <2>1 DEF Frame
<1>. QED BY <1>1, <1>3, <1>4 DEF Fits

(* A step keeps the slot locks exclusive if the slot that its thread then  *)
(* holds is locked, and the thread held it before or found it unlocked.    *)
Held(t) ==
  HoldsSlot(t)' =>
    /\ eb'[th'[t].tmp].edges[th'[t].k].first = MARKER
    /\ \/ HoldsSlot(t) /\ th'[t].tmp = th[t].tmp /\ th'[t].k = th[t].k
       \/ eb[th'[t].tmp].edges[th'[t].k].first # MARKER

LEMMA ExclusionStays ==
  ASSUME IInv, NEW t \in Threads, \A u \in Threads \ {t} : th'[u] = th[u],
         Frame(t), Held(t)
  PROVE  SlotLockExclusive'
<1>1. ASSUME NEW u \in Threads, u # t, HoldsSlot(u)'
      PROVE  /\ HoldsSlot(u)
             /\ eb[th[u].tmp].edges[th[u].k].first = MARKER
             /\ eb'[th[u].tmp].edges[th[u].k].first = MARKER
  <2>1. HoldsSlot(u) BY <1>1 DEF HoldsSlot
  <2>2. eb[th[u].tmp].edges[th[u].k].first = MARKER
        BY <2>1 DEF IInv, SlotLockExclusive, Slot
  <2>3. ~(HoldsSlot(t) /\ th[t].tmp = th[u].tmp /\ th[t].k = th[u].k)
        BY <1>1, <2>1 DEF IInv, SlotLockExclusive
  <2>4. eb'[th[u].tmp].edges[th[u].k].first = eb[th[u].tmp].edges[th[u].k].first
        BY <2>1, <2>2, <2>3, HoldsAtSlot DEF Frame
  <2>. QED BY <2>1, <2>2, <2>4
<1>2. ASSUME NEW u \in Threads, u # t, HoldsSlot(u)', HoldsSlot(t)'
      PROVE  ~(th'[t].tmp = th[u].tmp /\ th'[t].k = th[u].k)
  <2>1. HoldsSlot(u) /\ eb[th[u].tmp].edges[th[u].k].first = MARKER BY <1>1, <1>2
  <2>2. CASE HoldsSlot(t) /\ th'[t].tmp = th[t].tmp /\ th'[t].k = th[t].k
        BY <1>2, <2>1, <2>2 DEF IInv, SlotLockExclusive
  <2>3. CASE eb[th'[t].tmp].edges[th'[t].k].first # MARKER
        BY <2>1, <2>3
  <2>. QED BY <1>2, <2>2, <2>3 DEF Held
<1>3. ASSUME NEW u \in Threads, NEW w \in Threads, u # w, HoldsSlot(u)', HoldsSlot(w)'
      PROVE  <<th'[u].tmp, th'[u].k>> # <<th'[w].tmp, th'[w].k>>
  <2>1. CASE u = t BY <1>2, <1>3, <2>1
  <2>2. CASE w = t BY <1>2, <1>3, <2>2
  <2>3. CASE u # t /\ w # t
    <3>1. HoldsSlot(u) /\ HoldsSlot(w) /\ th'[u] = th[u] /\ th'[w] = th[w]
          BY <1>1, <1>3, <2>3
    <3>. QED BY <1>3, <3>1 DEF IInv, SlotLockExclusive
  <2>. QED BY <2>1, <2>2, <2>3
<1>4. ASSUME NEW u \in Threads, HoldsSlot(u)' PROVE Slot(u)'.first = MARKER
  <2>1. CASE u = t BY <1>4, <2>1 DEF Held, Slot
  <2>2. CASE u # t BY <1>1, <1>4, <2>2 DEF Slot
  <2>. QED BY <2>1, <2>2
<1>. QED BY <1>3, <1>4 DEF SlotLockExclusive

------------------------------------------------------------------------------
(* The part of the types that is the store's.                              *)
StoreOK ==
  /\ eb \in [Blocks -> EdgeBlock]
  /\ link \in [Cells -> {MARKER} \cup 0..PoolSize-1]
  /\ tail \in 1..PoolSize
  /\ eta \in [Types -> [high : Nat, blocks : [0..PoolSize-1 -> 0..PoolSize-1]]]
  /\ deg \in [Vertices -> [in : Int, out : Int]]
  /\ total \in Int
  /\ active \in {-1} \cup Vertices

(* Where a step of t leaves its locals.                                    *)
Moves(t, p, b, i, e, s, h) ==
  /\ th' \in [Threads -> Locals]
  /\ \A u \in Threads \ {t} : th'[u] = th[u]
  /\ th'[t].pc = p /\ th'[t].op = th[t].op /\ th'[t].tmp = b /\ th'[t].k = i
  /\ th'[t].endk = e /\ th'[t].sv = s /\ th'[t].held = h

(* The threads that a step of t does not move still fit.                   *)
LEMMA OthersStay ==
  ASSUME IInv, NEW t \in Threads, NEW u \in Threads, u # t, th[t].pc # "idle",
         th'[u] = th[u], UNCHANGED <<work, phase>>, StoreOK', Frame(t)
  PROVE  LocalOK(th[u])'
<1>. DEFINE x == th[u]
<1>1. x \in Locals /\ LocalOK(x) /\ tail \in 1..PoolSize /\ eb \in [Blocks -> EdgeBlock]
      BY DEF IInv, TypeOK
<1>2. x.tmp \in 0..PoolSize-1 /\ x.k \in Nat /\ x.endk \in Nat BY <1>1, FieldTypes
<1>3. Fits(x.pc, work[phase][x.op].kind, x.tmp, x.k, x.endk, x.sv, x.held) /\ x.tmp < tail
      BY <1>1 DEF LocalOK
<1>4. x.pc \in InsertPcs => Op(t).kind # "remove"
  <2>. SUFFICES ASSUME x.pc \in InsertPcs PROVE Op(t).kind # "remove"
       OBVIOUS
  <2>1. work[phase][x.op].kind # "remove" /\ x.pc # "idle"
        BY <1>3 DEF Fits, InsertPcs, UpdatePcs
  <2>2. /\ phase \in DOMAIN work /\ work \in Workloads
        /\ x.op \in DOMAIN work[phase] /\ th[t].op \in DOMAIN work[phase]
        BY <2>1 DEF IInv, TypeOK, Assigned
  <2>. QED BY <2>1, <2>2, WorkloadsOK DEF Op
<1>5. eb' \in [Blocks -> EdgeBlock] /\ tail' \in 1..PoolSize BY DEF StoreOK
<1>. HIDE DEF x
<1>6. /\ x.pc = "unlink" => x.sv \in 0..tail'-1
      /\ x.pc \in ScanPcs => x.endk <= eb'[x.tmp].high
      /\ x.pc \in {"readweight", "change"} =>
           x.k < eb'[x.tmp].high /\ eb'[x.tmp].edges[x.k].nbr >= 0
      BY <1>1, <1>2, <1>3, <1>4, <1>5, FitsLater
<1>7. x.tmp < tail' BY <1>1, <1>2, <1>3, <1>5 DEF Frame
<1>8. Fits(x.pc, work[phase][x.op].kind, x.tmp, x.k, x.endk, x.sv, x.held)'
      BY <1>3, <1>6, <1>7 DEF Fits, Occupied, x
<1>. QED BY <1>7, <1>8 DEF LocalOK, x

(* A thread that goes on: a step of its operation that is not the last.    *)
LEMMA StoreStep ==
  ASSUME IInv, NEW t \in Threads, th[t].pc # "idle",
         NEW p, NEW b, NEW i, NEW e, NEW s, NEW h, p # "idle",
         Moves(t, p, b, i, e, s, h), Fits(p, Op(t).kind, b, i, e, s, h), b < tail',
         UNCHANGED <<work, phase, aborted, res>>, StoreOK', LinksInPool', Frame(t),
         p \in HoldingPcs \/ h =>
           /\ eb'[b].edges[i].first = MARKER
           /\ \/ HoldsSlot(t) /\ b = th[t].tmp /\ i = th[t].k
              \/ eb[b].edges[i].first # MARKER
  PROVE  IInv'
<1>1. TypeOK' BY DEF IInv, TypeOK, StoreOK, OpsOf, Moves
<1>2. Assigned' BY DEF IInv, Assigned, Moves
<1>3. SlotLockExclusive'
  <2>1. Held(t) BY DEF Held, Moves, HoldsSlot, HoldingPcs
  <2>. QED BY <2>1, ExclusionStays DEF Moves
<1>4. LocalOK(th[t])'
  <2>1. /\ tail \in 1..PoolSize /\ tail' \in 1..PoolSize
        /\ eb \in [Blocks -> EdgeBlock] /\ eb' \in [Blocks -> EdgeBlock]
        BY DEF IInv, TypeOK, StoreOK
  <2>2. b \in 0..PoolSize-1 /\ i \in Nat /\ e \in Nat BY FieldTypes DEF Moves
  <2>3. p \in InsertPcs => Op(t).kind # "remove" BY DEF Fits
  <2>4. /\ p = "unlink" => s \in 0..tail'-1
        /\ p \in ScanPcs => e <= eb'[b].high
        /\ p \in {"readweight", "change"} => i < eb'[b].high /\ eb'[b].edges[i].nbr >= 0
        BY <2>1, <2>2, <2>3, FitsLater
  <2>5. Fits(p, Op(t).kind, b, i, e, s, h)' BY <2>4 DEF Fits, Occupied, Op, Moves
  <2>. QED BY <2>5 DEF LocalOK, Moves, Op
<1>5. ASSUME NEW u \in Threads PROVE LocalOK(th[u])'
  <2>1. CASE u = t BY <1>4, <2>1
  <2>2. CASE u # t BY <2>2, OthersStay DEF Moves
  <2>. QED BY <2>1, <2>2
<1>. QED BY <1>1, <1>2, <1>3, <1>5 DEF IInv

(* The last step of an operation, which returns r.                         *)
LEMMA FinishStep ==
  ASSUME IInv, NEW t \in Threads, th[t].pc # "idle", NEW r \in {-1, 0, 1}, Finish(t, r),
         UNCHANGED <<work, phase, aborted>>, StoreOK', LinksInPool', Frame(t)
  PROVE  IInv'
<1>1. th' = [th EXCEPT ![t] = Idle] /\ res' = [res EXCEPT ![th[t].op] = r]
      BY Zenon DEF Finish, Goto
<1>2. Idle \in Locals
      BY SizesPositive DEF IInv, TypeOK, Idle, Locals, ProgramCounters, HeadOf, Cells, Vertices
<1>3. Idle.pc = "idle" /\ Idle.tmp = 0 /\ Idle.held = FALSE BY DEF Idle
<1>4. th \in [Threads -> Locals] /\ res \in [OpsOf(work, phase) -> {ToDo, Taken, -1, 0, 1}]
      BY DEF IInv, TypeOK
<1>. HIDE DEF Idle
<1>5. th'[t] = Idle /\ th' \in [Threads -> Locals] /\ \A u \in Threads \ {t} : th'[u] = th[u]
      BY <1>1, <1>2, <1>4
<1>6. TypeOK' BY <1>1, <1>4, <1>5 DEF IInv, TypeOK, StoreOK, OpsOf
<1>7. ASSUME NEW u \in Threads, th'[u].pc # "idle"
      PROVE  /\ th[u].pc # "idle" /\ th'[u] = th[u] /\ th[u].op # th[t].op
             /\ res'[th[u].op] = Taken
  <2>1. u # t /\ th'[u] = th[u] BY <1>3, <1>5, <1>7
  <2>2. th[u].op # th[t].op /\ res[th[u].op] = Taken
        BY <2>1, <1>7 DEF IInv, Assigned
  <2>. QED BY <1>1, <1>4, <1>7, <2>1, <2>2
<1>8. Assigned' BY <1>7 DEF IInv, Assigned
<1>9. Held(t) BY <1>3, <1>5 DEF Held, HoldsSlot
<1>10. SlotLockExclusive' BY <1>5, <1>9, ExclusionStays
<1>11. ASSUME NEW u \in Threads PROVE LocalOK(th[u])'
  <2>1. CASE u = t
    <3>1. tail' \in 1..PoolSize BY DEF StoreOK
    <3>. QED BY <1>3, <1>5, <2>1, <3>1, SizesPositive
         DEF LocalOK, Fits, SlotPcs, BlockPcs, ScanPcs, RemovalPcs, InsertPcs, UpdatePcs
  <2>2. CASE u # t BY <1>5, <2>2, OthersStay
  <2>. QED BY <2>1, <2>2
<1>. QED BY <1>6, <1>8, <1>10, <1>11 DEF IInv

(* The same for steps that leave blocks, links and the pool's tail alone.  *)
Calm == UNCHANGED <<work, phase, aborted, eb, link, tail>>

LEMMA CalmFrame ==
  ASSUME IInv, NEW t \in Threads, Calm
  PROVE  Frame(t) /\ LinksInPool'
BY DEF Frame, IInv, TypeOK, EdgeBlock, Calm, LinksInPool

LEMMA CalmStep ==
  ASSUME IInv, NEW t \in Threads, th[t].pc # "idle",
         NEW p, NEW b, NEW i, NEW e, NEW s, NEW h, p # "idle", p # "claim",
         Moves(t, p, b, i, e, s, h), Fits(p, Op(t).kind, b, i, e, s, h),
         Calm, UNCHANGED res, StoreOK',
         p \in HoldingPcs \/ h => HoldsSlot(t) /\ b = th[t].tmp /\ i = th[t].k
  PROVE  IInv'
<1>1. b < tail' BY DEF Fits, Calm
<1>2. HoldsSlot(t) => eb'[th[t].tmp].edges[th[t].k].first = MARKER
      BY DEF IInv, SlotLockExclusive, Slot, Calm
<1>3. UNCHANGED <<work, phase, aborted, res>> BY DEF Calm
<1>4. p \in HoldingPcs \/ h => /\ eb'[b].edges[i].first = MARKER
                               /\ HoldsSlot(t) /\ b = th[t].tmp /\ i = th[t].k
      BY <1>2
<1>. QED BY <1>1, <1>3, <1>4, CalmFrame, StoreStep

Quiet == Calm /\ UNCHANGED <<res, eta, deg, total, active>>

LEMMA QuietStep ==
  ASSUME IInv, NEW t \in Threads, th[t].pc # "idle",
         NEW p, NEW b, NEW i, NEW e, NEW s, NEW h, p # "idle", p # "claim",
         Moves(t, p, b, i, e, s, h), Fits(p, Op(t).kind, b, i, e, s, h), Quiet,
         p \in HoldingPcs \/ h => HoldsSlot(t) /\ b = th[t].tmp /\ i = th[t].k
  PROVE  IInv'
<1>1. StoreOK' BY DEF IInv, TypeOK, StoreOK, Quiet, Calm
<1>. QED BY <1>1, CalmStep DEF Quiet

LEMMA QuietFinish ==
  ASSUME IInv, NEW t \in Threads, th[t].pc # "idle", NEW r \in {-1, 0, 1}, Finish(t, r),
         Calm, UNCHANGED <<eta, deg, total, active>>
  PROVE  IInv'
<1>1. StoreOK' BY DEF IInv, TypeOK, StoreOK, Calm
<1>. QED BY <1>1, CalmFrame, FinishStep DEF Calm

------------------------------------------------------------------------------
(* Where a Goto leaves the thread, by the locals it sets beside pc.        *)
LEMMA Moved ==
  ASSUME th \in [Threads -> Locals], NEW t \in Threads, NEW y \in Locals, Goto(t, y),
         y.op = th[t].op
  PROVE  Moves(t, y.pc, y.tmp, y.k, y.endk, y.sv, y.held)
BY DEF Goto, Moves

LEMMA MovePc ==
  ASSUME th \in [Threads -> Locals], NEW t \in Threads,
         NEW p \in ProgramCounters,
         Move(t, p)
  PROVE  Moves(t, p, th[t].tmp, th[t].k, th[t].endk, th[t].sv, th[t].held)
<1>. DEFINE y == [th[t] EXCEPT !.pc = p]
<1>1. /\ y \in Locals /\ y.pc = p /\ y.op = th[t].op /\ y.tmp = th[t].tmp /\ y.k = th[t].k
      /\ y.endk = th[t].endk /\ y.sv = th[t].sv /\ y.held = th[t].held
  <2>1. th[t] \in Locals OBVIOUS
  <2>. QED BY <2>1, FieldTypes, Zenon DEF Locals
<1>2. Goto(t, y) BY Zenon DEF Move
<1>. HIDE DEF y
<1>. QED BY <1>1, <1>2, Moved

LEMMA MoveSv ==
  ASSUME th \in [Threads -> Locals], NEW t \in Threads,
         NEW p \in ProgramCounters, NEW v \in Int,
         Goto(t, [th[t] EXCEPT !.sv = v, !.pc = p])
  PROVE  Moves(t, p, th[t].tmp, th[t].k, th[t].endk, v, th[t].held)
<1>. DEFINE y == [th[t] EXCEPT !.sv = v, !.pc = p]
<1>1. /\ y \in Locals /\ y.pc = p /\ y.op = th[t].op /\ y.tmp = th[t].tmp /\ y.k = th[t].k
      /\ y.endk = th[t].endk /\ y.sv = v /\ y.held = th[t].held
  <2>1. th[t] \in Locals OBVIOUS
  <2>. QED BY <2>1, FieldTypes, Zenon DEF Locals
<1>2. Goto(t, y) BY Zenon
<1>. HIDE DEF y
<1>. QED BY <1>1, <1>2, Moved

LEMMA MoveSm ==
  ASSUME th \in [Threads -> Locals], NEW t \in Threads,
         NEW p \in ProgramCounters, NEW v \in Int,
         Goto(t, [th[t] EXCEPT !.sm = v, !.pc = p])
  PROVE  Moves(t, p, th[t].tmp, th[t].k, th[t].endk, th[t].sv, th[t].held)
<1>. DEFINE y == [th[t] EXCEPT !.sm = v, !.pc = p]
<1>1. /\ y \in Locals /\ y.pc = p /\ y.op = th[t].op /\ y.tmp = th[t].tmp /\ y.k = th[t].k
      /\ y.endk = th[t].endk /\ y.sv = th[t].sv /\ y.held = th[t].held
  <2>1. th[t] \in Locals OBVIOUS
  <2>. QED BY <2>1, FieldTypes, Zenon DEF Locals
<1>2. Goto(t, y) BY Zenon
<1>. HIDE DEF y
<1>. QED BY <1>1, <1>2, Moved

LEMMA MoveNw ==
  ASSUME th \in [Threads -> Locals], NEW t \in Threads,
         NEW p \in ProgramCounters, NEW v \in Int,
         Goto(t, [th[t] EXCEPT !.nw = v, !.pc = p])
  PROVE  Moves(t, p, th[t].tmp, th[t].k, th[t].endk, th[t].sv, th[t].held)
<1>. DEFINE y == [th[t] EXCEPT !.nw = v, !.pc = p]
<1>1. /\ y \in Locals /\ y.pc = p /\ y.op = th[t].op /\ y.tmp = th[t].tmp /\ y.k = th[t].k
      /\ y.endk = th[t].endk /\ y.sv = th[t].sv /\ y.held = th[t].held
  <2>1. th[t] \in Locals OBVIOUS
  <2>. QED BY <2>1, FieldTypes, Zenon DEF Locals
<1>2. Goto(t, y) BY Zenon
<1>. HIDE DEF y
<1>. QED BY <1>1, <1>2, Moved

LEMMA MoveLoc ==
  ASSUME th \in [Threads -> Locals], NEW t \in Threads,
         NEW p \in ProgramCounters, NEW l \in Cells, NEW c \in 0..PoolSize-1,
         Goto(t, [th[t] EXCEPT !.loc = l, !.tmp = c, !.pc = p])
  PROVE  Moves(t, p, c, th[t].k, th[t].endk, th[t].sv, th[t].held)
<1>. DEFINE y == [th[t] EXCEPT !.loc = l, !.tmp = c, !.pc = p]
<1>1. /\ y \in Locals /\ y.pc = p /\ y.op = th[t].op /\ y.tmp = c /\ y.k = th[t].k
      /\ y.endk = th[t].endk /\ y.sv = th[t].sv /\ y.held = th[t].held
  <2>1. th[t] \in Locals OBVIOUS
  <2>. QED BY <2>1, FieldTypes, Zenon DEF Locals
<1>2. Goto(t, y) BY Zenon
<1>. HIDE DEF y
<1>. QED BY <1>1, <1>2, Moved

LEMMA MovePtr ==
  ASSUME th \in [Threads -> Locals], NEW t \in Threads,
         NEW p \in ProgramCounters, NEW l \in Cells, NEW c \in 0..PoolSize-1,
         Goto(t, [th[t] EXCEPT !.ptr = l, !.tmp = c, !.pc = p])
  PROVE  Moves(t, p, c, th[t].k, th[t].endk, th[t].sv, th[t].held)
<1>. DEFINE y == [th[t] EXCEPT !.ptr = l, !.tmp = c, !.pc = p]
<1>1. /\ y \in Locals /\ y.pc = p /\ y.op = th[t].op /\ y.tmp = c /\ y.k = th[t].k
      /\ y.endk = th[t].endk /\ y.sv = th[t].sv /\ y.held = th[t].held
  <2>1. th[t] \in Locals OBVIOUS
  <2>. QED BY <2>1, FieldTypes, Zenon DEF Locals
<1>2. Goto(t, y) BY Zenon
<1>. HIDE DEF y
<1>. QED BY <1>1, <1>2, Moved

LEMMA MoveTmp ==
  ASSUME th \in [Threads -> Locals], NEW t \in Threads,
         NEW p \in ProgramCounters, NEW c \in 0..PoolSize-1,
         Goto(t, [th[t] EXCEPT !.tmp = c, !.pc = p])
  PROVE  Moves(t, p, c, th[t].k, th[t].endk, th[t].sv, th[t].held)
<1>. DEFINE y == [th[t] EXCEPT !.tmp = c, !.pc = p]
<1>1. /\ y \in Locals /\ y.pc = p /\ y.op = th[t].op /\ y.tmp = c /\ y.k = th[t].k
      /\ y.endk = th[t].endk /\ y.sv = th[t].sv /\ y.held = th[t].held
  <2>1. th[t] \in Locals OBVIOUS
  <2>. QED BY <2>1, FieldTypes, Zenon DEF Locals
<1>2. Goto(t, y) BY Zenon
<1>. HIDE DEF y
<1>. QED BY <1>1, <1>2, Moved

LEMMA MoveScan ==
  ASSUME th \in [Threads -> Locals], NEW t \in Threads,
         NEW p \in ProgramCounters, NEW j \in Nat, NEW f \in Nat,
         Goto(t, [th[t] EXCEPT !.k = j, !.endk = f, !.pc = p])
  PROVE  Moves(t, p, th[t].tmp, j, f, th[t].sv, th[t].held)
<1>. DEFINE y == [th[t] EXCEPT !.k = j, !.endk = f, !.pc = p]
<1>1. /\ y \in Locals /\ y.pc = p /\ y.op = th[t].op /\ y.tmp = th[t].tmp /\ y.k = j
      /\ y.endk = f /\ y.sv = th[t].sv /\ y.held = th[t].held
  <2>1. th[t] \in Locals OBVIOUS
  <2>. QED BY <2>1, FieldTypes, Zenon DEF Locals
<1>2. Goto(t, y) BY Zenon
<1>. HIDE DEF y
<1>. QED BY <1>1, <1>2, Moved

LEMMA MoveK ==
  ASSUME th \in [Threads -> Locals], NEW t \in Threads,
         NEW p \in ProgramCounters, NEW j \in Nat,
         Goto(t, [th[t] EXCEPT !.k = j, !.pc = p])
  PROVE  Moves(t, p, th[t].tmp, j, th[t].endk, th[t].sv, th[t].held)
<1>. DEFINE y == [th[t] EXCEPT !.k = j, !.pc = p]
<1>1. /\ y \in Locals /\ y.pc = p /\ y.op = th[t].op /\ y.tmp = th[t].tmp /\ y.k = j
      /\ y.endk = th[t].endk /\ y.sv = th[t].sv /\ y.held = th[t].held
  <2>1. th[t] \in Locals OBVIOUS
  <2>. QED BY <2>1, FieldTypes, Zenon DEF Locals
<1>2. Goto(t, y) BY Zenon
<1>. HIDE DEF y
<1>. QED BY <1>1, <1>2, Moved

LEMMA MoveOnlyK ==
  ASSUME th \in [Threads -> Locals], NEW t \in Threads, NEW j \in Nat,
         Goto(t, [th[t] EXCEPT !.k = j])
  PROVE  Moves(t, th[t].pc, th[t].tmp, j, th[t].endk, th[t].sv, th[t].held)
<1>. DEFINE y == [th[t] EXCEPT !.k = j]
<1>1. /\ y \in Locals /\ y.pc = th[t].pc /\ y.op = th[t].op /\ y.tmp = th[t].tmp /\ y.k = j
      /\ y.endk = th[t].endk /\ y.sv = th[t].sv /\ y.held = th[t].held
  <2>1. th[t] \in Locals OBVIOUS
  <2>. QED BY <2>1, FieldTypes, Zenon DEF Locals
<1>2. Goto(t, y) BY Zenon
<1>. HIDE DEF y
<1>. QED BY <1>1, <1>2, Moved

LEMMA MoveEndk ==
  ASSUME th \in [Threads -> Locals], NEW t \in Threads,
         NEW p \in ProgramCounters, NEW f \in Nat,
         Goto(t, [th[t] EXCEPT !.endk = f, !.pc = p])
  PROVE  Moves(t, p, th[t].tmp, th[t].k, f, th[t].sv, th[t].held)
<1>. DEFINE y == [th[t] EXCEPT !.endk = f, !.pc = p]
<1>1. /\ y \in Locals /\ y.pc = p /\ y.op = th[t].op /\ y.tmp = th[t].tmp /\ y.k = th[t].k
      /\ y.endk = f /\ y.sv = th[t].sv /\ y.held = th[t].held
  <2>1. th[t] \in Locals OBVIOUS
  <2>. QED BY <2>1, FieldTypes, Zenon DEF Locals
<1>2. Goto(t, y) BY Zenon
<1>. HIDE DEF y
<1>. QED BY <1>1, <1>2, Moved

LEMMA MoveRv ==
  ASSUME th \in [Threads -> Locals], NEW t \in Threads,
         NEW p \in ProgramCounters, NEW f \in Nat, NEW r \in {0, 1},
         Goto(t, [th[t] EXCEPT !.endk = f, !.rv = r, !.pc = p])
  PROVE  Moves(t, p, th[t].tmp, th[t].k, f, th[t].sv, th[t].held)
<1>. DEFINE y == [th[t] EXCEPT !.endk = f, !.rv = r, !.pc = p]
<1>1. /\ y \in Locals /\ y.pc = p /\ y.op = th[t].op /\ y.tmp = th[t].tmp /\ y.k = th[t].k
      /\ y.endk = f /\ y.sv = th[t].sv /\ y.held = th[t].held
  <2>1. th[t] \in Locals OBVIOUS
  <2>. QED BY <2>1, FieldTypes, Zenon DEF Locals
<1>2. Goto(t, y) BY Zenon
<1>. HIDE DEF y
<1>. QED BY <1>1, <1>2, Moved

LEMMA MoveHeld ==
  ASSUME th \in [Threads -> Locals], NEW t \in Threads,
         NEW p \in ProgramCounters, NEW f \in Nat, NEW g \in BOOLEAN,
         Goto(t, [th[t] EXCEPT !.endk = f, !.held = g, !.pc = p])
  PROVE  Moves(t, p, th[t].tmp, th[t].k, f, th[t].sv, g)
<1>. DEFINE y == [th[t] EXCEPT !.endk = f, !.held = g, !.pc = p]
<1>1. /\ y \in Locals /\ y.pc = p /\ y.op = th[t].op /\ y.tmp = th[t].tmp /\ y.k = th[t].k
      /\ y.endk = f /\ y.sv = th[t].sv /\ y.held = g
  <2>1. th[t] \in Locals OBVIOUS
  <2>. QED BY <2>1, FieldTypes, Zenon DEF Locals
<1>2. Goto(t, y) BY Zenon
<1>. HIDE DEF y
<1>. QED BY <1>1, <1>2, Moved

------------------------------------------------------------------------------
(* The steps that store nothing in a block or a link.                      *)
LEMMA ReadActiveStep ==
  ASSUME IInv, NEW t \in Threads, ReadActive(t)
  PROVE  IInv'
<1>1. th[t].pc = "activate" /\ Quiet
      BY Zenon DEF ReadActive, At, Quiet, Calm, batchVars, edgeVars, poolVars, countVars
<1>2. active \in Int /\ "cas" \in ProgramCounters /\ "begin" \in ProgramCounters
      BY DEF IInv, TypeOK, Vertices, ProgramCounters
<1>3. CASE Bigger(t) > active
  <2>1. Moves(t, "cas", th[t].tmp, th[t].k, th[t].endk, active, th[t].held)
        BY <1>1, <1>2, <1>3, Working, MoveSv, Zenon DEF ReadActive
  <2>2. Fits("cas", Op(t).kind, th[t].tmp, th[t].k, th[t].endk, active, th[t].held)
        BY <1>1, Working
           DEF Fits, SlotPcs, BlockPcs, ScanPcs, RemovalPcs, InsertPcs, UpdatePcs,
              HoldingPcs
  <2>. QED BY <1>1, <2>1, <2>2, Working, QuietStep
       DEF Fits, SlotPcs, BlockPcs, ScanPcs, RemovalPcs, InsertPcs, UpdatePcs,
          HoldingPcs
<1>4. CASE ~(Bigger(t) > active)
  <2>1. Moves(t, "begin", th[t].tmp, th[t].k, th[t].endk, th[t].sv, th[t].held)
        BY <1>1, <1>2, <1>4, Working, MovePc, Zenon DEF ReadActive
  <2>2. Fits("begin", Op(t).kind, th[t].tmp, th[t].k, th[t].endk, th[t].sv, th[t].held)
        BY <1>1, Working
           DEF Fits, SlotPcs, BlockPcs, ScanPcs, RemovalPcs, InsertPcs, UpdatePcs,
              HoldingPcs
  <2>. QED BY <1>1, <2>1, <2>2, Working, QuietStep
       DEF Fits, SlotPcs, BlockPcs, ScanPcs, RemovalPcs, InsertPcs, UpdatePcs,
          HoldingPcs
<1>. QED BY <1>3, <1>4

LEMMA CasActiveStep ==
  ASSUME IInv, NEW t \in Threads, CasActive(t)
  PROVE  IInv'
<1>. DEFINE p == IF active = th[t].sv THEN "activate" ELSE "begin"
<1>1. /\ th[t].pc = "cas" /\ Calm /\ UNCHANGED <<res, eta, deg, total>>
      /\ active' = active \/ active' = Bigger(t)
      BY Zenon DEF CasActive, At, Quiet, Calm, batchVars, edgeVars, poolVars, countVars
<1>2. StoreOK' BY <1>1, OpFields DEF Bigger, IInv, TypeOK, StoreOK, Calm
<1>3. p \in ProgramCounters BY DEF ProgramCounters
<1>4. Move(t, p) BY Zenon DEF CasActive
<1>5. Moves(t, p, th[t].tmp, th[t].k, th[t].endk, th[t].sv, th[t].held)
      BY <1>1, <1>3, <1>4, Working, MovePc, Zenon
<1>6. Fits(p, Op(t).kind, th[t].tmp, th[t].k, th[t].endk, th[t].sv, th[t].held)
      BY <1>1, Working
         DEF Fits, SlotPcs, BlockPcs, ScanPcs, RemovalPcs, InsertPcs, UpdatePcs,
            HoldingPcs
<1>. QED BY <1>1, <1>2, <1>5, <1>6, Working, CalmStep
     DEF Fits, SlotPcs, BlockPcs, ScanPcs, RemovalPcs, InsertPcs, UpdatePcs, HoldingPcs

LEMMA RefuseLoopStep ==
  ASSUME IInv, NEW t \in Threads, RefuseLoop(t)
  PROVE  IInv'
<1>1. /\ th[t].pc = "begin" /\ Finish(t, -1)
      /\ Calm /\ UNCHANGED <<eta, deg, total, active>>
      BY Zenon DEF RefuseLoop, At, Quiet, Calm, batchVars, edgeVars, poolVars, countVars
<1>. QED BY <1>1, QuietFinish

(* A link that is not locked leads below the tail of the pool.             *)
LEMMA LinkLeads ==
  ASSUME IInv, NEW c \in Cells, link[c] # MARKER
  PROVE  link[c] \in 0..PoolSize-1 /\ link[c] < tail
BY DEF IInv, TypeOK, LinksInPool

LEMMA EtypeStepOK ==
  ASSUME IInv, NEW t \in Threads, th[t].pc \in {"begin", "etype"}, NEW c \in Cells,
         EtypeStep(t, c)
  PROVE  IInv'
<1>. DEFINE p == IF OtherType(t, link[c]) THEN "etype" ELSE "find"
<1>1. link[c] # MARKER /\ Quiet
      BY Zenon DEF EtypeStep, Quiet, Calm, batchVars, edgeVars, poolVars, countVars
<1>2. link[c] \in 0..PoolSize-1 /\ link[c] < tail BY <1>1, LinkLeads
<1>3. p \in ProgramCounters BY DEF ProgramCounters
<1>4. th[t].pc # "idle" OBVIOUS
<1>5. Moves(t, p, link[c], th[t].k, th[t].endk, th[t].sv, th[t].held)
      BY <1>2, <1>3, <1>4, Working, MoveLoc, Zenon DEF EtypeStep
<1>6. Fits(p, Op(t).kind, link[c], th[t].k, th[t].endk, th[t].sv, th[t].held)
      BY <1>2, <1>4, Working
         DEF OtherType, Fits, SlotPcs, BlockPcs, ScanPcs, RemovalPcs, InsertPcs,
            UpdatePcs, HoldingPcs
<1>. QED BY <1>1, <1>4, <1>5, <1>6, Working, QuietStep
     DEF Fits, SlotPcs, BlockPcs, ScanPcs, RemovalPcs, InsertPcs, UpdatePcs, HoldingPcs

LEMMA EtypeBeginStep ==
  ASSUME IInv, NEW t \in Threads, EtypeBegin(t)
  PROVE  IInv'
<1>1. th[t].pc = "begin" /\ EtypeStep(t, HeadOf(Op(t).from)) BY DEF EtypeBegin, At
<1>2. HeadOf(Op(t).from) \in Cells BY <1>1, OpFields DEF HeadOf, Cells
<1>. QED BY <1>1, <1>2, EtypeStepOK

LEMMA EtypeWalkStep ==
  ASSUME IInv, NEW t \in Threads, EtypeWalk(t)
  PROVE  IInv'
<1>1. th[t].pc = "etype" /\ EtypeStep(t, NextOf(th[t].tmp)) BY DEF EtypeWalk, At
<1>2. NextOf(th[t].tmp) \in Cells BY <1>1, Working, AtBlock DEF Fits, BlockPcs
<1>. QED BY <1>1, <1>2, EtypeStepOK

LEMMA FindBlockStep ==
  ASSUME IInv, NEW t \in Threads, FindBlock(t)
  PROVE  IInv'
<1>. DEFINE b == th[t].tmp
            p == IF OtherType(t, b) \/ eb[b].high = 0 THEN "findnext" ELSE "findslot"
<1>1. th[t].pc = "find" /\ b # 0 /\ Quiet
      BY Zenon DEF FindBlock, At, Quiet, Calm, batchVars, edgeVars, poolVars, countVars
<1>2. eb[b].high \in Nat /\ 0 \in Nat BY <1>1, AtBlock
<1>3. p \in ProgramCounters BY DEF ProgramCounters
<1>4. Moves(t, p, b, 0, eb[b].high, th[t].sv, th[t].held)
      BY <1>1, <1>2, <1>3, Working, MoveScan, Zenon DEF FindBlock
<1>5. Fits(p, Op(t).kind, b, 0, eb[b].high, th[t].sv, th[t].held)
      BY <1>1, <1>2, Working, SizesPositive
         DEF Fits, SlotPcs, BlockPcs, ScanPcs, RemovalPcs, InsertPcs, UpdatePcs,
            HoldingPcs
<1>. QED BY <1>1, <1>4, <1>5, Working, QuietStep
     DEF Fits, SlotPcs, BlockPcs, ScanPcs, RemovalPcs, InsertPcs, UpdatePcs, HoldingPcs

(* Where an edge that was found leads, by the operation.                   *)
LEMMA ExistingPc ==
  ASSUME IInv, NEW t \in Threads, th[t].pc # "idle"
  PROVE  /\ Existing(t) \in {"lockweight", "readweight", "change"}
         /\ Existing(t) = "lockweight" <=> Op(t).kind = "remove"
         /\ Existing(t) \in ProgramCounters
<1>1. /\ Existing(t) \in {"lockweight", "readweight", "change"}
      /\ Existing(t) = "lockweight" <=> Op(t).kind = "remove"
      BY OpFields DEF Existing
<1>. QED BY <1>1 DEF ProgramCounters

LEMMA FindSlotStep ==
  ASSUME IInv, NEW t \in Threads, FindSlot(t)
  PROVE  IInv'
<1>1. th[t].pc = "findslot" /\ Quiet
      BY Zenon DEF FindSlot, At, Quiet, Calm, batchVars, edgeVars, poolVars, countVars
<1>2. th[t].pc \in SlotPcs BY <1>1 DEF SlotPcs
<1>3. CASE Slot(t).nbr = Op(t).to
  <2>1. Moves(t, Existing(t), th[t].tmp, th[t].k, th[t].endk, th[t].sv, th[t].held)
        BY <1>1, <1>3, Working, ExistingPc, MovePc, Zenon DEF FindSlot
  <2>2. Op(t).to \in Nat BY <1>1, OpFields DEF Vertices
  <2>3. Occupied(th[t].tmp, th[t].k)
    <3>1. th[t].k < th[t].endk /\ th[t].endk <= eb[th[t].tmp].high
          BY <1>1, Working DEF Fits, ScanPcs
    <3>2. th[t].k < eb[th[t].tmp].high BY <1>1, <1>2, <3>1, Working, AtSlot
    <3>. QED BY <1>3, <2>2, <3>2 DEF Occupied, Slot
  <2>4. Fits(Existing(t), Op(t).kind, th[t].tmp, th[t].k, th[t].endk, th[t].sv,
        th[t].held)
        BY <1>1, <2>3, Working, ExistingPc
           DEF Fits, SlotPcs, BlockPcs, ScanPcs, RemovalPcs, InsertPcs, UpdatePcs,
              HoldingPcs
  <2>. QED BY <1>1, <2>1, <2>4, Working, ExistingPc, QuietStep
       DEF Fits, SlotPcs, BlockPcs, ScanPcs, RemovalPcs, InsertPcs, UpdatePcs,
          HoldingPcs
<1>4. CASE Slot(t).nbr # Op(t).to /\ th[t].k + 1 < th[t].endk
  <2>1. th[t].k + 1 \in Nat BY <1>1, Working
  <2>2. Moves(t, "findslot", th[t].tmp, th[t].k + 1, th[t].endk, th[t].sv, th[t].held)
        BY <1>1, <1>4, <2>1, Working, MoveOnlyK, Zenon DEF FindSlot
  <2>3. Fits("findslot", Op(t).kind, th[t].tmp, th[t].k + 1, th[t].endk, th[t].sv,
        th[t].held)
        BY <1>1, <1>2, <1>4, Working, AtSlot
           DEF Fits, SlotPcs, BlockPcs, ScanPcs, RemovalPcs, InsertPcs, UpdatePcs,
              HoldingPcs
  <2>. QED BY <1>1, <2>2, <2>3, Working, QuietStep
       DEF Fits, SlotPcs, BlockPcs, ScanPcs, RemovalPcs, InsertPcs, UpdatePcs,
          HoldingPcs
<1>5. CASE Slot(t).nbr # Op(t).to /\ ~(th[t].k + 1 < th[t].endk)
  <2>1. "findnext" \in ProgramCounters BY DEF ProgramCounters
  <2>2. Moves(t, "findnext", th[t].tmp, th[t].k, th[t].endk, th[t].sv, th[t].held)
        BY <1>1, <1>5, <2>1, Working, MovePc, Zenon DEF FindSlot
  <2>3. Fits("findnext", Op(t).kind, th[t].tmp, th[t].k, th[t].endk, th[t].sv,
        th[t].held)
        BY <1>1, Working
           DEF Fits, SlotPcs, BlockPcs, ScanPcs, RemovalPcs, InsertPcs, UpdatePcs,
              HoldingPcs
  <2>. QED BY <1>1, <2>2, <2>3, Working, QuietStep
       DEF Fits, SlotPcs, BlockPcs, ScanPcs, RemovalPcs, InsertPcs, UpdatePcs,
          HoldingPcs
<1>. QED BY <1>3, <1>4, <1>5

LEMMA FindNextStep ==
  ASSUME IInv, NEW t \in Threads, FindNext(t)
  PROVE  IInv'
<1>. DEFINE b == link[NextOf(th[t].tmp)]
<1>1. th[t].pc = "findnext" /\ b # MARKER /\ Quiet
      BY Zenon DEF FindNext, At, Quiet, Calm, batchVars, edgeVars, poolVars, countVars
<1>2. th[t].tmp # 0 BY <1>1, Working DEF Fits, BlockPcs
<1>3. b \in 0..PoolSize-1 /\ b < tail BY <1>1, <1>2, AtBlock, LinkLeads
<1>4. "find" \in ProgramCounters BY DEF ProgramCounters
<1>5. Moves(t, "find", b, th[t].k, th[t].endk, th[t].sv, th[t].held)
      BY <1>1, <1>3, <1>4, Working, MoveTmp, Zenon DEF FindNext
<1>6. Fits("find", Op(t).kind, b, th[t].k, th[t].endk, th[t].sv, th[t].held)
      BY <1>1, <1>3, Working
         DEF Fits, SlotPcs, BlockPcs, ScanPcs, RemovalPcs, InsertPcs, UpdatePcs,
            HoldingPcs
<1>. QED BY <1>1, <1>5, <1>6, Working, QuietStep
     DEF Fits, SlotPcs, BlockPcs, ScanPcs, RemovalPcs, InsertPcs, UpdatePcs, HoldingPcs

LEMMA FindEndStep ==
  ASSUME IInv, NEW t \in Threads, FindEnd(t)
  PROVE  IInv'
<1>1. /\ th[t].pc = "find" /\ Calm /\ UNCHANGED <<eta, deg, total, active>>
      BY Zenon DEF FindEnd, At, Quiet, Calm, batchVars, edgeVars, poolVars, countVars
<1>2. CASE Op(t).kind = "remove"
  <2>1. Finish(t, -1) BY <1>2, Zenon DEF FindEnd
  <2>. QED BY <1>1, <2>1, QuietFinish
<1>3. CASE Op(t).kind # "remove"
  <2>1. "rescan" \in ProgramCounters BY DEF ProgramCounters
  <2>2. Quiet BY <1>1, <1>3, Zenon DEF FindEnd, Quiet
  <2>3. Moves(t, "rescan", th[t].tmp, th[t].k, th[t].endk, th[t].sv, th[t].held)
        BY <1>1, <1>3, <2>1, Working, MovePc, Zenon DEF FindEnd
  <2>4. Fits("rescan", Op(t).kind, th[t].tmp, th[t].k, th[t].endk, th[t].sv, th[t].held)
        BY <1>1, <1>3, Working
           DEF Fits, SlotPcs, BlockPcs, ScanPcs, RemovalPcs, InsertPcs, UpdatePcs,
              HoldingPcs
  <2>. QED BY <1>1, <2>2, <2>3, <2>4, Working, QuietStep
       DEF Fits, SlotPcs, BlockPcs, ScanPcs, RemovalPcs, InsertPcs, UpdatePcs,
          HoldingPcs
<1>. QED BY <1>2, <1>3

LEMMA ScanFromOK ==
  ASSUME IInv, NEW t \in Threads, th[t].pc \in {"rescan", "scannext"}, NEW c \in Cells,
         ScanFrom(t, c)
  PROVE  IInv'
<1>. DEFINE p == IF link[c] = 0 THEN "append" ELSE "scan"
<1>1. link[c] # MARKER /\ Quiet
      BY Zenon DEF ScanFrom, Quiet, Calm, batchVars, edgeVars, poolVars, countVars
<1>2. link[c] \in 0..PoolSize-1 /\ link[c] < tail BY <1>1, LinkLeads
<1>3. p \in ProgramCounters BY DEF ProgramCounters
<1>4. th[t].pc # "idle" OBVIOUS
<1>5. Moves(t, p, link[c], th[t].k, th[t].endk, th[t].sv, th[t].held)
      BY <1>2, <1>3, <1>4, Working, MovePtr, Zenon DEF ScanFrom
<1>6. Fits(p, Op(t).kind, link[c], th[t].k, th[t].endk, th[t].sv, th[t].held)
      BY <1>2, <1>4, Working
         DEF Fits, SlotPcs, BlockPcs, ScanPcs, RemovalPcs, InsertPcs, UpdatePcs,
            HoldingPcs
<1>. QED BY <1>1, <1>4, <1>5, <1>6, Working, QuietStep
     DEF Fits, SlotPcs, BlockPcs, ScanPcs, RemovalPcs, InsertPcs, UpdatePcs, HoldingPcs

LEMMA RescanStep ==
  ASSUME IInv, NEW t \in Threads, Rescan(t)
  PROVE  IInv'
<1>1. th[t].pc = "rescan" /\ ScanFrom(t, th[t].loc) BY DEF Rescan, At
<1>. QED BY <1>1, Working, ScanFromOK

LEMMA ScanNextStep ==
  ASSUME IInv, NEW t \in Threads, ScanNext(t)
  PROVE  IInv'
<1>1. th[t].pc = "scannext" /\ ScanFrom(t, NextOf(th[t].tmp)) BY DEF ScanNext, At
<1>2. NextOf(th[t].tmp) \in Cells BY <1>1, Working, AtBlock DEF Fits, BlockPcs
<1>. QED BY <1>1, <1>2, ScanFromOK

LEMMA ScanBlockStep ==
  ASSUME IInv, NEW t \in Threads, ScanBlock(t)
  PROVE  IInv'
<1>. DEFINE b == th[t].tmp
            p == IF OtherType(t, b) THEN "scannext" ELSE "slot"
<1>1. th[t].pc = "scan" /\ Quiet
      BY Zenon DEF ScanBlock, At, Quiet, Calm, batchVars, edgeVars, poolVars, countVars
<1>2. b # 0 BY <1>1, Working DEF Fits, BlockPcs
<1>3. eb[b].high \in Nat /\ 0 \in Nat BY <1>1, <1>2, AtBlock
<1>4. p \in ProgramCounters BY DEF ProgramCounters
<1>5. Moves(t, p, b, 0, eb[b].high, th[t].sv, th[t].held)
      BY <1>1, <1>3, <1>4, Working, MoveScan, Zenon DEF ScanBlock
<1>6. Fits(p, Op(t).kind, b, 0, eb[b].high, th[t].sv, th[t].held)
      BY <1>1, <1>2, <1>3, Working, SizesPositive
         DEF Fits, SlotPcs, BlockPcs, ScanPcs, RemovalPcs, InsertPcs, UpdatePcs,
            HoldingPcs
<1>. QED BY <1>1, <1>5, <1>6, Working, QuietStep
     DEF Fits, SlotPcs, BlockPcs, ScanPcs, RemovalPcs, InsertPcs, UpdatePcs, HoldingPcs

LEMMA ScanSlotStep ==
  ASSUME IInv, NEW t \in Threads, ScanSlot(t)
  PROVE  IInv'
<1>. DEFINE found == Slot(t).nbr = Op(t).to /\ th[t].k < th[t].endk
            free  == Slot(t).nbr < 0 \/ ~(th[t].k < th[t].endk)
<1>1. th[t].pc = "slot" /\ Quiet
      BY Zenon DEF ScanSlot, At, Quiet, Calm, batchVars, edgeVars, poolVars, countVars
<1>2. th[t].pc \in SlotPcs BY <1>1 DEF SlotPcs
<1>3. /\ "lockslot" \in ProgramCounters /\ "slot" \in ProgramCounters
      /\ "scannext" \in ProgramCounters
      BY DEF ProgramCounters
<1>4. CASE found
  <2>1. Moves(t, Existing(t), th[t].tmp, th[t].k, th[t].endk, th[t].sv, th[t].held)
        BY <1>1, <1>4, Working, ExistingPc, MovePc, Zenon DEF ScanSlot
  <2>2. Op(t).to \in Nat BY <1>1, OpFields DEF Vertices
  <2>3. th[t].endk <= eb[th[t].tmp].high BY <1>1, Working DEF Fits, ScanPcs
  <2>4. th[t].k < eb[th[t].tmp].high BY <1>1, <1>2, <1>4, <2>3, Working, AtSlot
  <2>5. Occupied(th[t].tmp, th[t].k) BY <1>4, <2>2, <2>4 DEF Occupied, Slot
  <2>6. Fits(Existing(t), Op(t).kind, th[t].tmp, th[t].k, th[t].endk, th[t].sv,
        th[t].held)
        BY <1>1, <2>5, Working, ExistingPc
           DEF Fits, SlotPcs, BlockPcs, ScanPcs, RemovalPcs, InsertPcs, UpdatePcs,
              HoldingPcs
  <2>. QED BY <1>1, <2>1, <2>6, Working, ExistingPc, QuietStep
       DEF Fits, SlotPcs, BlockPcs, ScanPcs, RemovalPcs, InsertPcs, UpdatePcs,
          HoldingPcs
<1>5. CASE ~found /\ free
  <2>1. Moves(t, "lockslot", th[t].tmp, th[t].k, th[t].endk, th[t].sv, th[t].held)
        BY <1>1, <1>3, <1>5, Working, MovePc, Zenon DEF ScanSlot
  <2>2. Fits("lockslot", Op(t).kind, th[t].tmp, th[t].k, th[t].endk, th[t].sv,
        th[t].held)
        BY <1>1, Working
           DEF Fits, SlotPcs, BlockPcs, ScanPcs, RemovalPcs, InsertPcs, UpdatePcs,
              HoldingPcs
  <2>. QED BY <1>1, <2>1, <2>2, Working, QuietStep
       DEF Fits, SlotPcs, BlockPcs, ScanPcs, RemovalPcs, InsertPcs, UpdatePcs,
          HoldingPcs
<1>6. CASE ~found /\ ~free /\ th[t].k + 1 < BlockSize
  <2>1. th[t].k + 1 \in Nat BY <1>1, Working
  <2>2. Moves(t, "slot", th[t].tmp, th[t].k + 1, th[t].endk, th[t].sv, th[t].held)
        BY <1>1, <1>3, <1>6, <2>1, Working, MoveK, Zenon DEF ScanSlot, NextSlot
  <2>3. Fits("slot", Op(t).kind, th[t].tmp, th[t].k + 1, th[t].endk, th[t].sv,
        th[t].held)
        BY <1>1, <1>6, Working
           DEF Fits, SlotPcs, BlockPcs, ScanPcs, RemovalPcs, InsertPcs, UpdatePcs,
              HoldingPcs
  <2>. QED BY <1>1, <2>2, <2>3, Working, QuietStep
       DEF Fits, SlotPcs, BlockPcs, ScanPcs, RemovalPcs, InsertPcs, UpdatePcs,
          HoldingPcs
<1>7. CASE ~found /\ ~free /\ ~(th[t].k + 1 < BlockSize)
  <2>1. Moves(t, "scannext", th[t].tmp, th[t].k, th[t].endk, th[t].sv, th[t].held)
        BY <1>1, <1>3, <1>7, Working, MovePc, Zenon DEF ScanSlot, NextSlot, Move
  <2>2. Fits("scannext", Op(t).kind, th[t].tmp, th[t].k, th[t].endk, th[t].sv,
        th[t].held)
        BY <1>1, Working
           DEF Fits, SlotPcs, BlockPcs, ScanPcs, RemovalPcs, InsertPcs, UpdatePcs,
              HoldingPcs
  <2>. QED BY <1>1, <2>1, <2>2, Working, QuietStep
       DEF Fits, SlotPcs, BlockPcs, ScanPcs, RemovalPcs, InsertPcs, UpdatePcs,
          HoldingPcs
<1>. QED BY <1>4, <1>5, <1>6, <1>7

LEMMA RecheckStep ==
  ASSUME IInv, NEW t \in Threads, Recheck(t)
  PROVE  IInv'
<1>. DEFINE high == eb[th[t].tmp].high
            free == Slot(t).nbr < 0 \/ th[t].k >= high
<1>1. th[t].pc = "recheck" /\ Quiet
      BY Zenon DEF Recheck, At, Quiet, Calm, batchVars, edgeVars, poolVars, countVars
<1>2. th[t].pc \in SlotPcs /\ HoldsSlot(t) BY <1>1 DEF SlotPcs, HoldsSlot
<1>3. /\ "setnbr" \in ProgramCounters /\ "release" \in ProgramCounters
      /\ 1 \in {0, 1} /\ TRUE \in BOOLEAN
      BY DEF ProgramCounters
<1>4. high \in Nat BY <1>2, AtSlot
<1>5. CASE free
  <2>1. Moves(t, "setnbr", th[t].tmp, th[t].k, high, th[t].sv, th[t].held)
        BY <1>1, <1>3, <1>4, <1>5, Working, MoveRv, Zenon DEF Recheck
  <2>2. Fits("setnbr", Op(t).kind, th[t].tmp, th[t].k, high, th[t].sv, th[t].held)
        BY <1>1, Working
           DEF Fits, SlotPcs, BlockPcs, ScanPcs, RemovalPcs, InsertPcs, UpdatePcs,
              HoldingPcs
  <2>. QED BY <1>1, <1>2, <2>1, <2>2, Working, QuietStep
<1>6. CASE ~free /\ Slot(t).nbr = Op(t).to
  <2>1. Moves(t, Existing(t), th[t].tmp, th[t].k, high, th[t].sv, TRUE)
        BY <1>1, <1>3, <1>4, <1>6, Working, ExistingPc, MoveHeld, Zenon DEF Recheck
  <2>2. Slot(t).nbr >= 0 /\ th[t].k < high BY <1>1, <1>2, <1>4, <1>6, Working, AtSlot
  <2>3. Occupied(th[t].tmp, th[t].k) BY <2>2 DEF Occupied, Slot
  <2>4. Existing(t) \in {"readweight", "change"}
        BY <1>1, Working, ExistingPc DEF Fits, InsertPcs
  <2>5. Fits(Existing(t), Op(t).kind, th[t].tmp, th[t].k, high, th[t].sv, TRUE)
        BY <1>1, <2>3, <2>4, Working
           DEF Fits, SlotPcs, BlockPcs, ScanPcs, RemovalPcs, InsertPcs, UpdatePcs,
              HoldingPcs
  <2>. QED BY <1>1, <1>2, <2>1, <2>4, <2>5, Working, QuietStep
<1>7. CASE ~free /\ Slot(t).nbr # Op(t).to
  <2>1. Moves(t, "release", th[t].tmp, th[t].k, high, th[t].sv, th[t].held)
        BY <1>1, <1>3, <1>4, <1>7, Working, MoveEndk, Zenon DEF Recheck
  <2>2. Fits("release", Op(t).kind, th[t].tmp, th[t].k, high, th[t].sv, th[t].held)
        BY <1>1, <1>4, Working
           DEF Fits, SlotPcs, BlockPcs, ScanPcs, RemovalPcs, InsertPcs, UpdatePcs,
              HoldingPcs
  <2>. QED BY <1>1, <1>2, <2>1, <2>2, Working, QuietStep
<1>. QED BY <1>5, <1>6, <1>7

LEMMA ReadWeightStep ==
  ASSUME IInv, NEW t \in Threads, ReadWeight(t)
  PROVE  IInv'
<1>1. th[t].pc = "readweight" /\ Quiet
      BY Zenon DEF ReadWeight, At, Quiet, Calm, batchVars, edgeVars, poolVars, countVars
<1>2. th[t].pc \in SlotPcs BY <1>1 DEF SlotPcs
<1>3. Slot(t).weight + Op(t).weight \in Int BY <1>2, AtSlot, OpFields
<1>4. "change" \in ProgramCounters BY DEF ProgramCounters
<1>5. Moves(t, "change", th[t].tmp, th[t].k, th[t].endk, th[t].sv, th[t].held)
      BY <1>1, <1>3, <1>4, Working, MoveNw, Zenon DEF ReadWeight
<1>6. Fits("change", Op(t).kind, th[t].tmp, th[t].k, th[t].endk, th[t].sv, th[t].held)
      BY <1>1, Working
         DEF Fits, SlotPcs, BlockPcs, ScanPcs, RemovalPcs, InsertPcs, UpdatePcs,
            HoldingPcs
<1>. QED BY <1>1, <1>5, <1>6, Working, QuietStep DEF HoldsSlot, HoldingPcs

LEMMA ChangeTotalStep ==
  ASSUME IInv, NEW t \in Threads, ChangeTotal(t)
  PROVE  IInv'
<1>1. th[t].pc = "change" /\ Calm /\ UNCHANGED <<res, eta, deg, active>>
      BY Zenon DEF ChangeTotal, At, Quiet, Calm, batchVars, edgeVars, poolVars,
         countVars
<1>2. th[t].pc \in SlotPcs BY <1>1 DEF SlotPcs
<1>3. Slot(t).nbr >= 0 /\ th[t].k < eb[th[t].tmp].high
      BY <1>1, Working DEF Fits, Occupied, Slot
<1>4. ~(Slot(t).nbr < 0 \/ th[t].k >= eb[th[t].tmp].high)
      BY <1>1, <1>2, <1>3, AtSlot, Working
<1>5. total' = total + (th[t].nw - Slot(t).weight) /\ Move(t, "weight")
      BY <1>4, Zenon DEF ChangeTotal
<1>6. total' \in Int BY <1>1, <1>2, <1>5, AtSlot, Working DEF IInv, TypeOK
<1>7. StoreOK' BY <1>1, <1>6 DEF IInv, TypeOK, StoreOK, Calm
<1>8. "weight" \in ProgramCounters BY DEF ProgramCounters
<1>9. Moves(t, "weight", th[t].tmp, th[t].k, th[t].endk, th[t].sv, th[t].held)
      BY <1>1, <1>5, <1>8, Working, MovePc, Zenon
<1>10. Fits("weight", Op(t).kind, th[t].tmp, th[t].k, th[t].endk, th[t].sv, th[t].held)
      BY <1>1, Working
         DEF Fits, SlotPcs, BlockPcs, ScanPcs, RemovalPcs, InsertPcs, UpdatePcs,
            HoldingPcs
<1>. QED BY <1>1, <1>7, <1>9, <1>10, Working, CalmStep DEF HoldsSlot, HoldingPcs

LEMMA CheckSmallStep ==
  ASSUME IInv, NEW t \in Threads, CheckSmall(t)
  PROVE  IInv'
<1>. DEFINE p == IF Op(t).ts < eb[th[t].tmp].small
                 THEN "lockstamp" ELSE "checklarge"
<1>1. th[t].pc = "stamps" /\ Quiet
      BY Zenon DEF CheckSmall, At, Quiet, Calm, batchVars, edgeVars, poolVars,
         countVars
<1>2. p \in ProgramCounters BY DEF ProgramCounters
<1>3. Move(t, p) BY Zenon DEF CheckSmall
<1>4. Moves(t, p, th[t].tmp, th[t].k, th[t].endk, th[t].sv, th[t].held)
      BY <1>1, <1>2, <1>3, Working, MovePc, Zenon
<1>5. Fits(p, Op(t).kind, th[t].tmp, th[t].k, th[t].endk, th[t].sv, th[t].held)
      BY <1>1, Working
         DEF Fits, SlotPcs, BlockPcs, ScanPcs, RemovalPcs, InsertPcs, UpdatePcs,
            HoldingPcs
<1>. QED BY <1>1, <1>4, <1>5, Working, QuietStep DEF HoldsSlot, HoldingPcs

LEMMA CheckLargeStep ==
  ASSUME IInv, NEW t \in Threads, CheckLarge(t)
  PROVE  IInv'
<1>. DEFINE p == IF Op(t).ts > eb[th[t].tmp].large
                 THEN "lockstamp" ELSE "recent"
<1>1. th[t].pc = "checklarge" /\ Quiet
      BY Zenon DEF CheckLarge, At, Quiet, Calm, batchVars, edgeVars, poolVars,
         countVars
<1>2. p \in ProgramCounters BY DEF ProgramCounters
<1>3. Move(t, p) BY Zenon DEF CheckLarge
<1>4. Moves(t, p, th[t].tmp, th[t].k, th[t].endk, th[t].sv, th[t].held)
      BY <1>1, <1>2, <1>3, Working, MovePc, Zenon
<1>5. Fits(p, Op(t).kind, th[t].tmp, th[t].k, th[t].endk, th[t].sv, th[t].held)
      BY <1>1, Working
         DEF Fits, SlotPcs, BlockPcs, ScanPcs, RemovalPcs, InsertPcs, UpdatePcs,
            HoldingPcs
<1>. QED BY <1>1, <1>4, <1>5, Working, QuietStep DEF HoldsSlot, HoldingPcs

LEMMA CompareLargeStep ==
  ASSUME IInv, NEW t \in Threads, CompareLarge(t)
  PROVE  IInv'
<1>. DEFINE p == IF Op(t).ts > eb[th[t].tmp].large
                 THEN "raise" ELSE "unlockstamp"
<1>1. th[t].pc = "widen" /\ Quiet
      BY Zenon DEF CompareLarge, At, Quiet, Calm, batchVars, edgeVars, poolVars,
         countVars
<1>2. p \in ProgramCounters BY DEF ProgramCounters
<1>3. Move(t, p) BY Zenon DEF CompareLarge
<1>4. Moves(t, p, th[t].tmp, th[t].k, th[t].endk, th[t].sv, th[t].held)
      BY <1>1, <1>2, <1>3, Working, MovePc, Zenon
<1>5. Fits(p, Op(t).kind, th[t].tmp, th[t].k, th[t].endk, th[t].sv, th[t].held)
      BY <1>1, Working
         DEF Fits, SlotPcs, BlockPcs, ScanPcs, RemovalPcs, InsertPcs, UpdatePcs,
            HoldingPcs
<1>. QED BY <1>1, <1>4, <1>5, Working, QuietStep DEF HoldsSlot, HoldingPcs

(* Degrees stay integers when an edge is counted, or no longer counted.    *)
LEMMA DegreePut ==
  ASSUME NEW f \in [Vertices -> [in : Int, out : Int]], NEW v, NEW n,
         v \in Vertices => n \in Int
  PROVE  /\ [f EXCEPT ![v].out = n] \in [Vertices -> [in : Int, out : Int]]
         /\ [f EXCEPT ![v].in = n] \in [Vertices -> [in : Int, out : Int]]
<1>1. CASE v \in Vertices BY <1>1
<1>2. CASE v \notin Vertices BY <1>2
<1>. QED BY <1>1, <1>2

LEMMA DegreesCounted ==
  ASSUME deg \in [Vertices -> [in : Int, out : Int]], NEW u, NEW v,
         \/ deg' = [deg EXCEPT ![u].out = @ + 1, ![v].in = @ + 1]
         \/ deg' = [deg EXCEPT ![u].out = @ - 1, ![v].in = @ - 1]
  PROVE  deg' \in [Vertices -> [in : Int, out : Int]]
<1>1. u \in Vertices => deg[u].out + 1 \in Int /\ deg[u].out - 1 \in Int OBVIOUS
<1>2. CASE deg' = [deg EXCEPT ![u].out = @ + 1, ![v].in = @ + 1]
  <2>. DEFINE d == [deg EXCEPT ![u].out = deg[u].out + 1]
  <2>1. d \in [Vertices -> [in : Int, out : Int]] BY <1>1, DegreePut, Zenon
  <2>2. deg' = [d EXCEPT ![v].in = deg[v].in + 1] BY <1>2, Zenon
  <2>3. v \in Vertices => deg[v].in + 1 \in Int OBVIOUS
  <2>. QED BY <2>1, <2>2, <2>3, DegreePut, Zenon
<1>3. CASE deg' = [deg EXCEPT ![u].out = @ - 1, ![v].in = @ - 1]
  <2>. DEFINE d == [deg EXCEPT ![u].out = deg[u].out - 1]
  <2>1. d \in [Vertices -> [in : Int, out : Int]] BY <1>1, DegreePut, Zenon
  <2>2. deg' = [d EXCEPT ![v].in = deg[v].in - 1] BY <1>3, Zenon
  <2>3. v \in Vertices => deg[v].in - 1 \in Int OBVIOUS
  <2>. QED BY <2>1, <2>2, <2>3, DegreePut, Zenon
<1>. QED BY <1>2, <1>3

LEMMA CountDegreesStep ==
  ASSUME IInv, NEW t \in Threads, CountDegrees(t)
  PROVE  IInv'
<1>1. /\ th[t].pc = "degrees" /\ Calm /\ UNCHANGED <<res, eta, active>>
      /\ deg' = [deg EXCEPT ![eb[th[t].tmp].vertex].out = @ + 1, ![Op(t).to].in = @ + 1]
      /\ total' = total + th[t].nw /\ Move(t, "high")
      BY Zenon DEF CountDegrees, At, Quiet, Calm, batchVars, edgeVars, poolVars,
         countVars
<1>2. deg' \in [Vertices -> [in : Int, out : Int]]
      BY <1>1, DegreesCounted, Zenon DEF IInv, TypeOK
<1>3. total' \in Int BY <1>1, Working DEF IInv, TypeOK
<1>4. StoreOK' BY <1>1, <1>2, <1>3 DEF IInv, TypeOK, StoreOK, Calm
<1>5. "high" \in ProgramCounters BY DEF ProgramCounters
<1>6. Moves(t, "high", th[t].tmp, th[t].k, th[t].endk, th[t].sv, th[t].held)
      BY <1>1, <1>5, Working, MovePc, Zenon
<1>7. Fits("high", Op(t).kind, th[t].tmp, th[t].k, th[t].endk, th[t].sv, th[t].held)
      BY <1>1, Working
         DEF Fits, SlotPcs, BlockPcs, ScanPcs, RemovalPcs, InsertPcs, UpdatePcs,
            HoldingPcs
<1>. QED BY <1>1, <1>4, <1>6, <1>7, Working, CalmStep DEF HoldsSlot, HoldingPcs

LEMMA ClaimPlaceStep ==
  ASSUME IInv, NEW t \in Threads, ClaimPlace(t)
  PROVE  IInv'
<1>. DEFINE n == eta[Op(t).type].high
<1>1. /\ th[t].pc = "claim" /\ Calm /\ UNCHANGED <<res, deg, total, active>>
      /\ eta' = [eta EXCEPT ![Op(t).type].high = @ + 1]
      BY Zenon DEF ClaimPlace, At, Quiet, Calm, batchVars, edgeVars, poolVars, countVars
<1>2. Op(t).type \in Types /\ eta \in [Types -> [high : Nat,
      blocks : [0..PoolSize-1 -> 0..PoolSize-1]]]
      BY <1>1, OpFields DEF IInv, TypeOK
<1>3. n \in Nat BY <1>2
<1>4. eta' \in [Types -> [high : Nat, blocks : [0..PoolSize-1 -> 0..PoolSize-1]]]
      BY <1>1, <1>2
<1>5. StoreOK' BY <1>1, <1>4 DEF IInv, TypeOK, StoreOK, Calm
<1>6. "push" \in ProgramCounters BY DEF ProgramCounters
<1>7. Moves(t, "push", th[t].tmp, n, th[t].endk, th[t].sv, th[t].held)
      BY <1>1, <1>3, <1>6, Working, MoveK, Zenon DEF ClaimPlace
<1>8. Fits("push", Op(t).kind, th[t].tmp, n, th[t].endk, th[t].sv, th[t].held)
      BY <1>1, Working
         DEF Fits, SlotPcs, BlockPcs, ScanPcs, RemovalPcs, InsertPcs, UpdatePcs,
            HoldingPcs
<1>. QED BY <1>1, <1>5, <1>7, <1>8, Working, CalmStep
     DEF Fits, SlotPcs, BlockPcs, ScanPcs, RemovalPcs, InsertPcs, UpdatePcs, HoldingPcs

(* A place of an edge type array is filled with the index of a block.      *)
LEMMA EtaFill ==
  ASSUME eta \in [Types -> [high : Nat, blocks : [0..PoolSize-1 -> 0..PoolSize-1]]],
         NEW a \in Types, NEW i, NEW b \in 0..PoolSize-1,
         eta' = [eta EXCEPT ![a].blocks[i] = b]
  PROVE  eta' \in [Types -> [high : Nat, blocks : [0..PoolSize-1 -> 0..PoolSize-1]]]
<1>. DEFINE bs == [eta[a].blocks EXCEPT ![i] = b]
            r == [eta[a] EXCEPT !.blocks = bs]
<1>1. bs \in [0..PoolSize-1 -> 0..PoolSize-1] OBVIOUS
<1>2. r \in [high : Nat, blocks : [0..PoolSize-1 -> 0..PoolSize-1]]
  <2>. HIDE DEF bs
  <2>. QED BY <1>1
<1>3. eta' = [eta EXCEPT ![a] = r] BY Zenon
<1>. HIDE DEF r
<1>. QED BY <1>2, <1>3

LEMMA FillPlaceStep ==
  ASSUME IInv, NEW t \in Threads, FillPlace(t)
  PROVE  IInv'
<1>1. /\ th[t].pc = "push" /\ Calm /\ UNCHANGED <<res, deg, total, active>>
      /\ eta' = [eta EXCEPT ![Op(t).type].blocks[th[t].k] = th[t].tmp]
      /\ Move(t, "link")
      BY Zenon DEF FillPlace, At, Quiet, Calm, batchVars, edgeVars, poolVars, countVars
<1>2. th[t].tmp \in 0..PoolSize-1 BY <1>1, Working
<1>3. eta' \in [Types -> [high : Nat, blocks : [0..PoolSize-1 -> 0..PoolSize-1]]]
      BY <1>1, <1>2, OpFields, EtaFill DEF IInv, TypeOK
<1>4. StoreOK' BY <1>1, <1>3 DEF IInv, TypeOK, StoreOK, Calm
<1>5. "link" \in ProgramCounters BY DEF ProgramCounters
<1>6. Moves(t, "link", th[t].tmp, th[t].k, th[t].endk, th[t].sv, th[t].held)
      BY <1>1, <1>5, Working, MovePc, Zenon
<1>7. Fits("link", Op(t).kind, th[t].tmp, th[t].k, th[t].endk, th[t].sv, th[t].held)
      BY <1>1, Working
         DEF Fits, SlotPcs, BlockPcs, ScanPcs, RemovalPcs, InsertPcs, UpdatePcs,
            HoldingPcs
<1>. QED BY <1>1, <1>4, <1>6, <1>7, Working, CalmStep
     DEF Fits, SlotPcs, BlockPcs, ScanPcs, RemovalPcs, InsertPcs, UpdatePcs, HoldingPcs

------------------------------------------------------------------------------
(* Stores: a field of an edge; an edge of a block; a field of a block; a   *)
(* link.  Each says what the store leaves alone.                           *)
LEMMA EdgeField ==
  ASSUME NEW x \in Edge, NEW n \in Int
  PROVE  /\ LET v == [x EXCEPT !.nbr = n] IN v \in Edge /\ v.nbr = n /\ v.first = x.first
         /\ LET v == [x EXCEPT !.first = n] IN v \in Edge /\ v.nbr = x.nbr /\ v.first = n
         /\ LET v == [x EXCEPT !.weight = n]
            IN  v \in Edge /\ v.nbr = x.nbr /\ v.first = x.first
         /\ LET v == [x EXCEPT !.recent = n]
            IN  v \in Edge /\ v.nbr = x.nbr /\ v.first = x.first
BY DEF Edge

LEMMA BlockPut ==
  ASSUME eb \in [Blocks -> EdgeBlock], NEW b \in Blocks, NEW v \in EdgeBlock,
         eb' = [eb EXCEPT ![b] = v]
  PROVE  /\ eb' \in [Blocks -> EdgeBlock] /\ eb'[b] = v
         /\ \A c \in Blocks \ {b} : eb'[c] = eb[c]
OBVIOUS

StoresEdge(b, i, v) == eb' = [eb EXCEPT ![b].edges[i] = v]

LEMMA EdgePut ==
  ASSUME eb \in [Blocks -> EdgeBlock], NEW b \in Blocks, NEW i \in Slots,
     NEW v \in Edge,
         StoresEdge(b, i, v)
  PROVE  /\ eb' \in [Blocks -> EdgeBlock]
         /\ eb'[b].edges[i] = v
         /\ \A c \in Blocks : eb'[c].high = eb[c].high /\ \A j \in Slots :
              c # b \/ j # i => eb'[c].edges[j] = eb[c].edges[j]
<1>. DEFINE es  == [eb[b].edges EXCEPT ![i] = v]
            blk == [eb[b] EXCEPT !.edges = es]
<1>1. eb[b] \in EdgeBlock /\ eb[b].edges \in [Slots -> Edge] BY BlockTypes
<1>2. es \in [Slots -> Edge] /\ es[i] = v /\ \A j \in Slots \ {i} : es[j] = eb[b].edges[j]
      BY <1>1
<1>3. blk \in EdgeBlock /\ blk.edges = es /\ blk.high = eb[b].high
  <2>. HIDE DEF es
  <2>. QED BY <1>1, <1>2 DEF EdgeBlock
<1>4. eb' = [eb EXCEPT ![b] = blk] BY Zenon DEF StoresEdge
<1>. HIDE DEF es, blk
<1>5. eb' \in [Blocks -> EdgeBlock] /\ eb'[b] = blk /\ \A c \in Blocks \ {b} : eb'[c] = eb[c]
      BY <1>3, <1>4, BlockPut
<1>. QED BY <1>2, <1>3, <1>5, Zenon

(* A store into the slot that t is at.                                     *)
LEMMA SlotStore ==
  ASSUME IInv, NEW t \in Threads, th[t].pc \in SlotPcs, NEW v \in Edge,
         StoresEdge(th[t].tmp, th[t].k, v),
         UNCHANGED <<work, phase, aborted, link, tail, eta, deg, active>>,
         total' \in Int,
         v.first # Slot(t).first => HoldsSlot(t) \/ Slot(t).first # MARKER,
         Slot(t).nbr >= 0 /\ v.nbr < 0 => Op(t).kind = "remove"
  PROVE  StoreOK' /\ LinksInPool' /\ Frame(t) /\ eb'[th[t].tmp].edges[th[t].k] = v
<1>. DEFINE b == th[t].tmp
            i == th[t].k
<1>1. b \in Blocks /\ i \in Slots /\ eb \in [Blocks -> EdgeBlock] BY AtSlot
<1>2. /\ eb' \in [Blocks -> EdgeBlock] /\ eb'[b].edges[i] = v
      /\ \A c \in Blocks : eb'[c].high = eb[c].high /\ \A j \in Slots :
           c # b \/ j # i => eb'[c].edges[j] = eb[c].edges[j]
      BY <1>1, EdgePut
<1>3. StoreOK' BY <1>2 DEF IInv, TypeOK, StoreOK
<1>4. LinksInPool' BY DEF IInv, LinksInPool
<1>5. v.nbr \in Int BY DEF Edge
<1>6. \A c \in Blocks : eb[c].high \in Nat BY <1>1, BlockTypes
<1>7. tail \in Int BY DEF IInv, TypeOK
<1>8. Frame(t)
  <2>. HIDE DEF b, i
  <2>1. ASSUME NEW c \in Blocks, NEW j \in Slots
        PROVE  /\ Op(t).kind # "remove" /\ eb[c].edges[j].nbr >= 0 => eb'[c].edges[j].nbr >= 0
               /\ eb'[c].edges[j].first # eb[c].edges[j].first =>
                    /\ c = b /\ j = i
                    /\ HoldsSlot(t) \/ eb[c].edges[j].first # MARKER
    <3>1. CASE c = b /\ j = i BY <1>2, <1>5, <3>1 DEF Slot, b, i
    <3>2. CASE c # b \/ j # i BY <1>2, <3>2
    <3>. QED BY <3>1, <3>2
  <2>. QED BY <1>2, <1>6, <1>7, <2>1 DEF Frame, b, i
<1>. QED BY <1>2, <1>3, <1>4, <1>8

(* A store into the block that t is in, which leaves its edges.            *)
LEMMA BlockStore ==
  ASSUME IInv, NEW t \in Threads, th[t].pc \in SlotPcs, NEW v \in EdgeBlock,
         eb' = [eb EXCEPT ![th[t].tmp] = v],
         v.edges = eb[th[t].tmp].edges,
         v.high = eb[th[t].tmp].high \/ eb[th[t].tmp].high < v.high,
         UNCHANGED <<work, phase, aborted, link, tail, eta, total, active>>,
         deg' \in [Vertices -> [in : Int, out : Int]]
  PROVE  StoreOK' /\ LinksInPool' /\ Frame(t)
         /\ eb'[th[t].tmp].edges[th[t].k] = Slot(t) /\ eb'[th[t].tmp].high = v.high
<1>. DEFINE b == th[t].tmp
<1>1. b \in Blocks /\ eb \in [Blocks -> EdgeBlock] BY AtSlot
<1>2. /\ eb' \in [Blocks -> EdgeBlock] /\ eb'[b] = v
      /\ \A c \in Blocks \ {b} : eb'[c] = eb[c]
      BY <1>1, BlockPut
<1>3. StoreOK' BY <1>2 DEF IInv, TypeOK, StoreOK
<1>4. LinksInPool' BY DEF IInv, LinksInPool
<1>5. \A c \in Blocks : eb[c].high \in Nat BY <1>1, BlockTypes
<1>6. tail \in Int BY DEF IInv, TypeOK
<1>7. eb[b].high <= v.high
  <2>1. v.high \in 0..BlockSize BY SMT DEF EdgeBlock
  <2>2. v.high \in Int /\ eb[b].high \in Int BY <1>1, <1>5, <2>1, SizesPositive
  <2>. HIDE DEF b
  <2>. QED BY <2>2 DEF b
<1>8. \A c \in Blocks : eb'[c].edges = eb[c].edges /\ eb[c].high <= eb'[c].high
      BY <1>1, <1>2, <1>5, <1>7
<1>9. Frame(t) BY <1>6, <1>8 DEF Frame
<1>. QED BY <1>2, <1>3, <1>4, <1>9 DEF Slot

(* A store into a link.                                                    *)
LEMMA LinkStore ==
  ASSUME IInv, NEW t \in Threads, NEW c \in Cells,
     NEW n \in {MARKER} \cup 0..PoolSize-1,
         n # MARKER => n < tail, link' = [link EXCEPT ![c] = n],
         UNCHANGED <<work, phase, aborted, eb, tail, eta, deg, total, active>>
  PROVE  StoreOK' /\ LinksInPool' /\ Frame(t)
<1>1. link \in [Cells -> {MARKER} \cup 0..PoolSize-1] BY DEF IInv, TypeOK
<1>2. StoreOK' BY <1>1 DEF IInv, TypeOK, StoreOK
<1>3. LinksInPool' BY <1>1 DEF IInv, LinksInPool
<1>4. Frame(t) BY DEF Frame, IInv, TypeOK, EdgeBlock
<1>. QED BY <1>2, <1>3, <1>4

------------------------------------------------------------------------------
(* The steps that store in a slot.                                         *)
LEMMA LockSlotStep ==
  ASSUME IInv, NEW t \in Threads, LockSlot(t)
  PROVE  IInv'
<1>. DEFINE v == [Slot(t) EXCEPT !.first = MARKER]
<1>1. /\ th[t].pc = "lockslot" /\ Slot(t).first # MARKER
      /\ UNCHANGED <<work, phase, aborted, res, link, tail, eta, deg, total, active>>
      BY Zenon DEF LockSlot, At, Quiet, Calm, batchVars, edgeVars, poolVars, countVars
<1>2. StoresEdge(th[t].tmp, th[t].k, v) BY Zenon DEF StoresEdge, LockSlot, Slot
<1>3. th[t].pc \in SlotPcs BY <1>1 DEF SlotPcs
<1>4. /\ Slot(t) \in Edge /\ Slot(t).first \in Int /\ Slot(t).nbr \in Int /\ MARKER \in Int
      BY <1>3, AtSlot DEF MARKER
<1>5. v \in Edge /\ v.nbr = Slot(t).nbr /\ v.first = MARKER BY <1>4, EdgeField, Zenon
<1>6. total' \in Int BY <1>1 DEF IInv, TypeOK
<1>7. "recheck" \in ProgramCounters BY DEF ProgramCounters
<1>8. Moves(t, "recheck", th[t].tmp, th[t].k, th[t].endk, Slot(t).first, th[t].held)
      BY <1>1, <1>4, <1>7, Working, MoveSv, Zenon DEF LockSlot
<1>. HIDE DEF v
<1>9. StoreOK' /\ LinksInPool' /\ Frame(t) /\ eb'[th[t].tmp].edges[th[t].k] = v
      BY <1>1, <1>2, <1>3, <1>4, <1>5, <1>6, SlotStore
<1>10. Fits("recheck", Op(t).kind, th[t].tmp, th[t].k, th[t].endk, Slot(t).first,
       th[t].held)
      BY <1>1, Working
         DEF Fits, SlotPcs, BlockPcs, ScanPcs, RemovalPcs, InsertPcs, UpdatePcs,
            HoldingPcs
<1>. QED BY <1>1, <1>5, <1>8, <1>9, <1>10, Working, StoreStep DEF Slot

(* A thread that holds a slot has locked it.                               *)
LEMMA HeldSlot ==
  ASSUME IInv, NEW t \in Threads, HoldsSlot(t)
  PROVE  Slot(t).first = MARKER
BY DEF IInv, SlotLockExclusive

LEMMA ReleaseStep ==
  ASSUME IInv, NEW t \in Threads, Release(t)
  PROVE  IInv'
<1>. DEFINE v == [Slot(t) EXCEPT !.first = th[t].sv]
<1>1. /\ th[t].pc = "release"
      /\ UNCHANGED <<res, total, work, phase, aborted, link, tail, eta, deg, active>>
      BY Zenon DEF Release, At, Quiet, Calm, batchVars, edgeVars, poolVars, countVars
<1>2. StoresEdge(th[t].tmp, th[t].k, v) BY Zenon DEF StoresEdge, Release, Slot
<1>3. th[t].pc \in SlotPcs BY <1>1 DEF SlotPcs
<1>4. /\ Slot(t) \in Edge /\ Slot(t).nbr \in Int /\ th[t].sv \in Int
      BY <1>1, <1>3, AtSlot, Working
<1>5. v \in Edge /\ v.nbr = Slot(t).nbr /\ v.first = th[t].sv BY <1>4, EdgeField, Zenon
<1>6. HoldsSlot(t) BY <1>1 DEF HoldsSlot
<1>7. "slot" \in ProgramCounters /\ "scannext" \in ProgramCounters
      BY DEF ProgramCounters
<1>8. th[t].k + 1 \in Nat BY <1>1, Working
<1>9. total' \in Int BY <1>1 DEF IInv, TypeOK
<1>10. StoreOK' /\ LinksInPool' /\ Frame(t)
  <2>. HIDE DEF v
  <2>. QED BY <1>1, <1>2, <1>3, <1>4, <1>5, <1>6, <1>9, SlotStore
<1>11. CASE th[t].k + 1 < BlockSize
  <2>1. Moves(t, "slot", th[t].tmp, th[t].k + 1, th[t].endk, th[t].sv, th[t].held)
        BY <1>1, <1>7, <1>8, <1>11, Working, MoveK, Zenon DEF Release, NextSlot
  <2>2. Fits("slot", Op(t).kind, th[t].tmp, th[t].k + 1, th[t].endk, th[t].sv,
        th[t].held)
        BY <1>1, <1>11, Working
           DEF Fits, SlotPcs, BlockPcs, ScanPcs, RemovalPcs, InsertPcs, UpdatePcs,
              HoldingPcs
  <2>. QED BY <1>1, <1>10, <2>1, <2>2, Working, StoreStep
       DEF Fits, SlotPcs, BlockPcs, ScanPcs, RemovalPcs, InsertPcs, UpdatePcs,
          HoldingPcs
<1>12. CASE ~(th[t].k + 1 < BlockSize)
  <2>1. Moves(t, "scannext", th[t].tmp, th[t].k, th[t].endk, th[t].sv, th[t].held)
        BY <1>1, <1>7, <1>12, Working, MovePc, Zenon DEF Release, NextSlot, Move
  <2>2. Fits("scannext", Op(t).kind, th[t].tmp, th[t].k, th[t].endk, th[t].sv,
        th[t].held)
        BY <1>1, Working
           DEF Fits, SlotPcs, BlockPcs, ScanPcs, RemovalPcs, InsertPcs, UpdatePcs,
              HoldingPcs
  <2>. QED BY <1>1, <1>10, <2>1, <2>2, Working, StoreStep
       DEF Fits, SlotPcs, BlockPcs, ScanPcs, RemovalPcs, InsertPcs, UpdatePcs,
          HoldingPcs
<1>. QED BY <1>11, <1>12

LEMMA SetNeighborStep ==
  ASSUME IInv, NEW t \in Threads, SetNeighbor(t)
  PROVE  IInv'
<1>. DEFINE v == [Slot(t) EXCEPT !.nbr = Op(t).to]
<1>1. /\ th[t].pc = "setnbr"
      /\ UNCHANGED <<res, total, work, phase, aborted, link, tail, eta, deg, active>>
      BY Zenon DEF SetNeighbor, At, Quiet, Calm, batchVars, edgeVars, poolVars,
         countVars
<1>2. StoresEdge(th[t].tmp, th[t].k, v) BY Zenon DEF StoresEdge, SetNeighbor, Slot
<1>3. th[t].pc \in SlotPcs BY <1>1 DEF SlotPcs
<1>4. /\ Slot(t) \in Edge /\ Slot(t).nbr \in Int /\ Op(t).to \in Int
      BY <1>1, <1>3, AtSlot, OpFields DEF Vertices
<1>5. v \in Edge /\ v.nbr = Op(t).to /\ v.first = Slot(t).first
      BY <1>4, EdgeField, Zenon
<1>6. HoldsSlot(t) BY <1>1 DEF HoldsSlot
<1>7. Op(t).to >= 0 BY <1>1, OpFields DEF Vertices
<1>8. "count" \in ProgramCounters BY DEF ProgramCounters
<1>9. Moves(t, "count", th[t].tmp, th[t].k, th[t].endk, th[t].sv, th[t].held)
      BY <1>1, <1>8, Working, MovePc, Zenon DEF SetNeighbor
<1>10. total' \in Int BY <1>1 DEF IInv, TypeOK
<1>. HIDE DEF v
<1>11. StoreOK' /\ LinksInPool' /\ Frame(t) /\ eb'[th[t].tmp].edges[th[t].k] = v
      BY <1>1, <1>2, <1>3, <1>4, <1>5, <1>7, <1>10, SlotStore
<1>12. Fits("count", Op(t).kind, th[t].tmp, th[t].k, th[t].endk, th[t].sv, th[t].held)
      BY <1>1, Working
         DEF Fits, SlotPcs, BlockPcs, ScanPcs, RemovalPcs, InsertPcs, UpdatePcs,
            HoldingPcs
<1>. QED BY <1>1, <1>5, <1>6, <1>9, <1>11, <1>12, Working, HeldSlot, StoreStep

LEMMA UnlockSlotStep ==
  ASSUME IInv, NEW t \in Threads, UnlockSlot(t)
  PROVE  IInv'
<1>. DEFINE v == [Slot(t) EXCEPT !.first = Op(t).ts]
<1>1. /\ th[t].pc = "unlockslot"
      /\ UNCHANGED <<res, total, work, phase, aborted, link, tail, eta, deg, active>>
      BY Zenon DEF UnlockSlot, At, Quiet, Calm, batchVars, edgeVars, poolVars, countVars
<1>2. StoresEdge(th[t].tmp, th[t].k, v) BY Zenon DEF StoresEdge, UnlockSlot, Slot
<1>3. th[t].pc \in SlotPcs BY <1>1 DEF SlotPcs
<1>4. /\ Slot(t) \in Edge /\ Slot(t).nbr \in Int /\ Op(t).ts \in Int
      BY <1>1, <1>3, AtSlot, OpFields
<1>5. v \in Edge /\ v.nbr = Slot(t).nbr /\ v.first = Op(t).ts BY <1>4, EdgeField, Zenon
<1>6. HoldsSlot(t) BY <1>1 DEF HoldsSlot
<1>7. "weight" \in ProgramCounters BY DEF ProgramCounters
<1>8. Moves(t, "weight", th[t].tmp, th[t].k, th[t].endk, th[t].sv, th[t].held)
      BY <1>1, <1>7, Working, MovePc, Zenon DEF UnlockSlot
<1>9. total' \in Int BY <1>1 DEF IInv, TypeOK
<1>. HIDE DEF v
<1>10. StoreOK' /\ LinksInPool' /\ Frame(t)
      BY <1>1, <1>2, <1>3, <1>4, <1>5, <1>6, <1>9, SlotStore
<1>11. Fits("weight", Op(t).kind, th[t].tmp, th[t].k, th[t].endk, th[t].sv, th[t].held)
      BY <1>1, Working
         DEF Fits, SlotPcs, BlockPcs, ScanPcs, RemovalPcs, InsertPcs, UpdatePcs,
            HoldingPcs
<1>. QED BY <1>1, <1>8, <1>10, <1>11, Working, StoreStep
     DEF Fits, SlotPcs, BlockPcs, ScanPcs, RemovalPcs, InsertPcs, UpdatePcs, HoldingPcs

LEMMA WriteWeightStep ==
  ASSUME IInv, NEW t \in Threads, WriteWeight(t)
  PROVE  IInv'
<1>. DEFINE v == [Slot(t) EXCEPT !.weight = th[t].nw]
<1>1. /\ th[t].pc = "weight"
      /\ UNCHANGED <<res, total, work, phase, aborted, link, tail, eta, deg, active>>
      BY Zenon DEF WriteWeight, At, Quiet, Calm, batchVars, edgeVars, poolVars,
         countVars
<1>2. StoresEdge(th[t].tmp, th[t].k, v) BY Zenon DEF StoresEdge, WriteWeight, Slot
<1>3. th[t].pc \in SlotPcs BY <1>1 DEF SlotPcs
<1>4. /\ Slot(t) \in Edge /\ Slot(t).nbr \in Int /\ th[t].nw \in Int
      BY <1>1, <1>3, AtSlot, Working
<1>5. v \in Edge /\ v.nbr = Slot(t).nbr /\ v.first = Slot(t).first
      BY <1>4, EdgeField, Zenon
<1>6. th[t].held => HoldsSlot(t) BY DEF HoldsSlot
<1>7. "stamps" \in ProgramCounters BY DEF ProgramCounters
<1>8. Moves(t, "stamps", th[t].tmp, th[t].k, th[t].endk, th[t].sv, th[t].held)
      BY <1>1, <1>7, Working, MovePc, Zenon DEF WriteWeight
<1>9. total' \in Int BY <1>1 DEF IInv, TypeOK
<1>. HIDE DEF v
<1>10. StoreOK' /\ LinksInPool' /\ Frame(t) /\ eb'[th[t].tmp].edges[th[t].k] = v
      BY <1>1, <1>2, <1>3, <1>4, <1>5, <1>9, SlotStore
<1>11. Fits("stamps", Op(t).kind, th[t].tmp, th[t].k, th[t].endk, th[t].sv, th[t].held)
      BY <1>1, Working
         DEF Fits, SlotPcs, BlockPcs, ScanPcs, RemovalPcs, InsertPcs, UpdatePcs,
            HoldingPcs
<1>. QED BY <1>1, <1>5, <1>6, <1>8, <1>10, <1>11, Working, HeldSlot, StoreStep
     DEF HoldingPcs

LEMMA WriteRecentStep ==
  ASSUME IInv, NEW t \in Threads, WriteRecent(t)
  PROVE  IInv'
<1>. DEFINE v == [Slot(t) EXCEPT !.recent = Op(t).ts]
<1>1. /\ th[t].pc = "recent"
      /\ UNCHANGED <<total, work, phase, aborted, link, tail, eta, deg, active>>
      BY Zenon DEF WriteRecent, At, Quiet, Calm, batchVars, edgeVars, poolVars,
         countVars
<1>2. StoresEdge(th[t].tmp, th[t].k, v) BY Zenon DEF StoresEdge, WriteRecent, Slot
<1>3. th[t].pc \in SlotPcs BY <1>1 DEF SlotPcs
<1>4. /\ Slot(t) \in Edge /\ Slot(t).nbr \in Int /\ Op(t).ts \in Int
      BY <1>1, <1>3, AtSlot, OpFields
<1>5. v \in Edge /\ v.nbr = Slot(t).nbr /\ v.first = Slot(t).first
      BY <1>4, EdgeField, Zenon
<1>6. total' \in Int BY <1>1 DEF IInv, TypeOK
<1>7. StoreOK' /\ LinksInPool' /\ Frame(t) /\ eb'[th[t].tmp].edges[th[t].k] = v
  <2>. HIDE DEF v
  <2>. QED BY <1>1, <1>2, <1>3, <1>4, <1>5, <1>6, SlotStore
<1>8. CASE th[t].held
  <2>1. HoldsSlot(t) BY <1>8 DEF HoldsSlot
  <2>2. "restore" \in ProgramCounters BY DEF ProgramCounters
  <2>3. UNCHANGED res BY <1>8, Zenon DEF WriteRecent
  <2>4. Moves(t, "restore", th[t].tmp, th[t].k, th[t].endk, th[t].sv, th[t].held)
        BY <1>1, <1>8, <2>2, Working, MovePc, Zenon DEF WriteRecent
  <2>5. Fits("restore", Op(t).kind, th[t].tmp, th[t].k, th[t].endk, th[t].sv,
        th[t].held)
        BY <1>1, Working
           DEF Fits, SlotPcs, BlockPcs, ScanPcs, RemovalPcs, InsertPcs, UpdatePcs,
              HoldingPcs
  <2>. HIDE DEF v
  <2>. QED BY <1>1, <1>5, <1>7, <2>1, <2>3, <2>4, <2>5, Working, HeldSlot, StoreStep
<1>9. CASE ~th[t].held
  <2>1. Finish(t, th[t].rv) BY <1>9, Zenon DEF WriteRecent
  <2>2. th[t].rv \in {-1, 0, 1} BY <1>1, Working
  <2>. QED BY <1>1, <1>7, <2>1, <2>2, FinishStep
<1>. QED BY <1>8, <1>9

LEMMA RestoreFirstStep ==
  ASSUME IInv, NEW t \in Threads, RestoreFirst(t)
  PROVE  IInv'
<1>. DEFINE v == [Slot(t) EXCEPT !.first = th[t].sv]
<1>1. /\ th[t].pc = "restore" /\ Finish(t, 0)
      /\ UNCHANGED <<total, work, phase, aborted, link, tail, eta, deg, active>>
      BY Zenon DEF RestoreFirst, At, Quiet, Calm, batchVars, edgeVars, poolVars,
         countVars
<1>2. StoresEdge(th[t].tmp, th[t].k, v) BY Zenon DEF StoresEdge, RestoreFirst, Slot
<1>3. th[t].pc \in SlotPcs BY <1>1 DEF SlotPcs
<1>4. /\ Slot(t) \in Edge /\ Slot(t).nbr \in Int /\ th[t].sv \in Int
      BY <1>1, <1>3, AtSlot, Working
<1>5. v \in Edge /\ v.nbr = Slot(t).nbr /\ v.first = th[t].sv BY <1>4, EdgeField, Zenon
<1>6. HoldsSlot(t) BY <1>1 DEF HoldsSlot
<1>7. total' \in Int BY <1>1 DEF IInv, TypeOK
<1>. HIDE DEF v
<1>8. StoreOK' /\ LinksInPool' /\ Frame(t)
      BY <1>1, <1>2, <1>3, <1>4, <1>5, <1>6, <1>7, SlotStore
<1>. QED BY <1>1, <1>8, FinishStep

LEMMA LockWeightStep ==
  ASSUME IInv, NEW t \in Threads, LockWeight(t)
  PROVE  IInv'
<1>. DEFINE v == [Slot(t) EXCEPT !.weight = MARKER]
<1>1. /\ th[t].pc = "lockweight"
      /\ UNCHANGED <<res, total, work, phase, aborted, link, tail, eta, deg, active>>
      BY Zenon DEF LockWeight, At, Quiet, Calm, batchVars, edgeVars, poolVars, countVars
<1>2. StoresEdge(th[t].tmp, th[t].k, v) BY Zenon DEF StoresEdge, LockWeight, Slot
<1>3. th[t].pc \in SlotPcs BY <1>1 DEF SlotPcs
<1>4. /\ Slot(t) \in Edge /\ Slot(t).nbr \in Int /\ MARKER \in Int
      BY <1>1, <1>3, AtSlot DEF MARKER
<1>5. v \in Edge /\ v.nbr = Slot(t).nbr /\ v.first = Slot(t).first
      BY <1>4, EdgeField, Zenon
<1>6. Slot(t).weight \in Int BY <1>3, AtSlot
<1>7. "reremove" \in ProgramCounters BY DEF ProgramCounters
<1>8. Moves(t, "reremove", th[t].tmp, th[t].k, th[t].endk, Slot(t).weight, th[t].held)
      BY <1>1, <1>6, <1>7, Working, MoveSv, Zenon DEF LockWeight
<1>9. total' \in Int BY <1>1 DEF IInv, TypeOK
<1>. HIDE DEF v
<1>10. StoreOK' /\ LinksInPool' /\ Frame(t)
      BY <1>1, <1>2, <1>3, <1>4, <1>5, <1>9, SlotStore
<1>11. Fits("reremove", Op(t).kind, th[t].tmp, th[t].k, th[t].endk, Slot(t).weight,
       th[t].held)
      BY <1>1, Working
         DEF Fits, SlotPcs, BlockPcs, ScanPcs, RemovalPcs, InsertPcs, UpdatePcs,
            HoldingPcs
<1>. QED BY <1>1, <1>8, <1>10, <1>11, Working, StoreStep
     DEF Fits, SlotPcs, BlockPcs, ScanPcs, RemovalPcs, InsertPcs, UpdatePcs, HoldingPcs

LEMMA RecheckRemoveStep ==
  ASSUME IInv, NEW t \in Threads, RecheckRemove(t)
  PROVE  IInv'
<1>1. /\ th[t].pc = "reremove"
      /\ UNCHANGED <<work, phase, aborted, link, tail, eta, deg, total, active>>
      BY Zenon DEF RecheckRemove, At, Quiet, Calm, batchVars, edgeVars, poolVars,
         countVars
<1>2. th[t].pc \in SlotPcs BY <1>1 DEF SlotPcs
<1>3. CASE Slot(t).nbr = Op(t).to
  <2>1. UNCHANGED <<eb, res>> /\ Move(t, "uncount") BY <1>3, Zenon DEF RecheckRemove
  <2>2. Quiet BY <1>1, <2>1 DEF Quiet, Calm
  <2>3. "uncount" \in ProgramCounters BY DEF ProgramCounters
  <2>4. Moves(t, "uncount", th[t].tmp, th[t].k, th[t].endk, th[t].sv, th[t].held)
        BY <1>1, <2>1, <2>3, Working, MovePc, Zenon
  <2>5. Fits("uncount", Op(t).kind, th[t].tmp, th[t].k, th[t].endk, th[t].sv,
        th[t].held)
        BY <1>1, Working
           DEF Fits, SlotPcs, BlockPcs, ScanPcs, RemovalPcs, InsertPcs, UpdatePcs,
              HoldingPcs
  <2>. QED BY <1>1, <2>2, <2>4, <2>5, Working, QuietStep
       DEF Fits, SlotPcs, BlockPcs, ScanPcs, RemovalPcs, InsertPcs, UpdatePcs,
          HoldingPcs
<1>4. CASE Slot(t).nbr # Op(t).to
  <2>. DEFINE v == [Slot(t) EXCEPT !.weight = th[t].sv]
  <2>1. StoresEdge(th[t].tmp, th[t].k, v) /\ Finish(t, 0)
        BY <1>4, Zenon DEF StoresEdge, RecheckRemove, Slot
  <2>2. Slot(t) \in Edge /\ Slot(t).nbr \in Int /\ th[t].sv \in Int
        BY <1>2, AtSlot, Working
  <2>3. v \in Edge /\ v.nbr = Slot(t).nbr /\ v.first = Slot(t).first
        BY <2>2, EdgeField, Zenon
  <2>4. total' \in Int BY <1>1 DEF IInv, TypeOK
  <2>. HIDE DEF v
  <2>5. StoreOK' /\ LinksInPool' /\ Frame(t)
        BY <1>1, <1>2, <2>1, <2>2, <2>3, <2>4, SlotStore
  <2>. QED BY <1>1, <2>1, <2>5, FinishStep
<1>. QED BY <1>3, <1>4

LEMMA ClearSlotStep ==
  ASSUME IInv, NEW t \in Threads, ClearSlot(t)
  PROVE  IInv'
<1>. DEFINE v == [Slot(t) EXCEPT !.nbr = Complement(Op(t).to)]
<1>1. /\ th[t].pc = "clear" /\ Finish(t, 1)
      /\ UNCHANGED <<work, phase, aborted, link, tail, eta, deg, active>>
      BY Zenon DEF ClearSlot, At, Quiet, Calm, batchVars, edgeVars, poolVars, countVars
<1>2. StoresEdge(th[t].tmp, th[t].k, v) BY Zenon DEF StoresEdge, ClearSlot, Slot
<1>3. th[t].pc \in SlotPcs BY <1>1 DEF SlotPcs
<1>4. /\ Slot(t) \in Edge /\ Slot(t).nbr \in Int /\ Complement(Op(t).to) \in Int
      BY <1>1, <1>3, AtSlot, OpFields DEF Complement, Vertices
<1>5. v \in Edge /\ v.nbr = Complement(Op(t).to) /\ v.first = Slot(t).first
      BY <1>4, EdgeField, Zenon
<1>6. Op(t).kind = "remove" BY <1>1, Working DEF Fits, RemovalPcs
<1>7. total' \in Int
  <2>1. total' = total - Slot(t).weight BY Zenon DEF ClearSlot
  <2>2. Slot(t).weight \in Int /\ total \in Int BY <1>3, AtSlot DEF IInv, TypeOK
  <2>. QED BY <2>1, <2>2
<1>. HIDE DEF v
<1>8. StoreOK' /\ LinksInPool' /\ Frame(t)
      BY <1>1, <1>2, <1>3, <1>5, <1>6, <1>7, SlotStore
<1>. QED BY <1>1, <1>8, FinishStep

------------------------------------------------------------------------------
(* The steps that store in a block.                                        *)
LEMMA BlockField ==
  ASSUME NEW x \in EdgeBlock, NEW n \in Int, NEW i \in 0..BlockSize
  PROVE  /\ LET v == [x EXCEPT !.num = n]
            IN  v \in EdgeBlock /\ v.edges = x.edges /\ v.high = x.high
         /\ LET v == [x EXCEPT !.small = n]
            IN  v \in EdgeBlock /\ v.edges = x.edges /\ v.high = x.high
         /\ LET v == [x EXCEPT !.large = n]
            IN  v \in EdgeBlock /\ v.edges = x.edges /\ v.high = x.high
         /\ LET v == [x EXCEPT !.high = i]
            IN  v \in EdgeBlock /\ v.edges = x.edges /\ v.high = i
<1>1. /\ x.type \in Int /\ x.vertex \in Int /\ x.num \in Int /\ x.high \in 0..BlockSize
      /\ x.small \in Int /\ x.large \in Int /\ x.edges \in [Slots -> Edge]
      BY SMT DEF EdgeBlock
<1>. QED BY <1>1, Zenon DEF EdgeBlock

LEMMA CountEdgeStep ==
  ASSUME IInv, NEW t \in Threads, CountEdge(t)
  PROVE  IInv'
<1>. DEFINE v == [eb[th[t].tmp] EXCEPT !.num = @ + 1]
            p == IF eb[th[t].tmp].num = 0 THEN "onlyedge" ELSE "degrees"
<1>1. /\ th[t].pc = "count"
      /\ UNCHANGED <<res, deg, work, phase, aborted, link, tail, eta, total, active>>
      /\ eb' = [eb EXCEPT ![th[t].tmp] = v]
      BY Zenon DEF CountEdge, At, Quiet, Calm, batchVars, edgeVars, poolVars, countVars
<1>2. th[t].pc \in SlotPcs BY <1>1 DEF SlotPcs
<1>3. eb[th[t].tmp] \in EdgeBlock /\ 0 \in Int /\ 0 \in 0..BlockSize
      BY <1>2, AtSlot, BlockTypes, SizesPositive
<1>4. eb[th[t].tmp].num + 1 \in Int BY <1>2, AtSlot, BlockTypes
<1>5. v \in EdgeBlock /\ v.edges = eb[th[t].tmp].edges /\ v.high = eb[th[t].tmp].high
      BY <1>3, <1>4, BlockField, Zenon
<1>6. p \in ProgramCounters BY DEF ProgramCounters
<1>7. Move(t, p) BY Zenon DEF CountEdge
<1>8. Moves(t, p, th[t].tmp, th[t].k, th[t].endk, th[t].sv, th[t].held)
      BY <1>1, <1>6, <1>7, Working, MovePc, Zenon
<1>9. deg' \in [Vertices -> [in : Int, out : Int]] BY <1>1 DEF IInv, TypeOK
<1>. HIDE DEF v
<1>10. StoreOK' /\ LinksInPool' /\ Frame(t) /\ eb'[th[t].tmp].edges[th[t].k] = Slot(t)
      BY <1>1, <1>2, <1>5, <1>9, BlockStore
<1>11. Fits(p, Op(t).kind, th[t].tmp, th[t].k, th[t].endk, th[t].sv, th[t].held)
      BY <1>1, Working
         DEF Fits, SlotPcs, BlockPcs, ScanPcs, RemovalPcs, InsertPcs, UpdatePcs,
            HoldingPcs
<1>12. HoldsSlot(t) BY <1>1 DEF HoldsSlot
<1>13. p # "idle" OBVIOUS
<1>. HIDE DEF p
<1>. QED BY <1>1, <1>8, <1>10, <1>11, <1>12, <1>13, Working, HeldSlot, StoreStep

LEMMA ResetSmallStep ==
  ASSUME IInv, NEW t \in Threads, ResetSmall(t)
  PROVE  IInv'
<1>. DEFINE v == [eb[th[t].tmp] EXCEPT !.small = Op(t).ts]
<1>1. /\ th[t].pc = "onlyedge"
      /\ UNCHANGED <<res, deg, work, phase, aborted, link, tail, eta, total, active>>
      /\ eb' = [eb EXCEPT ![th[t].tmp] = v]
      BY Zenon DEF ResetSmall, At, Quiet, Calm, batchVars, edgeVars, poolVars,
         countVars
<1>2. th[t].pc \in SlotPcs BY <1>1 DEF SlotPcs
<1>3. eb[th[t].tmp] \in EdgeBlock /\ 0 \in Int /\ 0 \in 0..BlockSize
      BY <1>2, AtSlot, BlockTypes, SizesPositive
<1>4. Op(t).ts \in Int BY <1>1, OpFields
<1>5. v \in EdgeBlock /\ v.edges = eb[th[t].tmp].edges /\ v.high = eb[th[t].tmp].high
      BY <1>3, <1>4, BlockField, Zenon
<1>6. "onlylarge" \in ProgramCounters BY DEF ProgramCounters
<1>7. Moves(t, "onlylarge", th[t].tmp, th[t].k, th[t].endk, th[t].sv, th[t].held)
      BY <1>1, <1>6, Working, MovePc, Zenon DEF ResetSmall
<1>8. deg' \in [Vertices -> [in : Int, out : Int]] BY <1>1 DEF IInv, TypeOK
<1>. HIDE DEF v
<1>9. StoreOK' /\ LinksInPool' /\ Frame(t) /\ eb'[th[t].tmp].edges[th[t].k] = Slot(t)
      BY <1>1, <1>2, <1>5, <1>8, BlockStore
<1>10. Fits("onlylarge", Op(t).kind, th[t].tmp, th[t].k, th[t].endk, th[t].sv, th[t].held)
      BY <1>1, Working
         DEF Fits, SlotPcs, BlockPcs, ScanPcs, RemovalPcs, InsertPcs, UpdatePcs,
            HoldingPcs
<1>11. HoldsSlot(t) BY <1>1 DEF HoldsSlot
<1>. QED BY <1>1, <1>7, <1>9, <1>10, <1>11, Working, HeldSlot, StoreStep

LEMMA ResetLargeStep ==
  ASSUME IInv, NEW t \in Threads, ResetLarge(t)
  PROVE  IInv'
<1>. DEFINE v == [eb[th[t].tmp] EXCEPT !.large = Op(t).ts]
<1>1. /\ th[t].pc = "onlylarge"
      /\ UNCHANGED <<res, deg, work, phase, aborted, link, tail, eta, total, active>>
      /\ eb' = [eb EXCEPT ![th[t].tmp] = v]
      BY Zenon DEF ResetLarge, At, Quiet, Calm, batchVars, edgeVars, poolVars,
         countVars
<1>2. th[t].pc \in SlotPcs BY <1>1 DEF SlotPcs
<1>3. eb[th[t].tmp] \in EdgeBlock /\ 0 \in Int /\ 0 \in 0..BlockSize
      BY <1>2, AtSlot, BlockTypes, SizesPositive
<1>4. Op(t).ts \in Int BY <1>1, OpFields
<1>5. v \in EdgeBlock /\ v.edges = eb[th[t].tmp].edges /\ v.high = eb[th[t].tmp].high
      BY <1>3, <1>4, BlockField, Zenon
<1>6. "degrees" \in ProgramCounters BY DEF ProgramCounters
<1>7. Moves(t, "degrees", th[t].tmp, th[t].k, th[t].endk, th[t].sv, th[t].held)
      BY <1>1, <1>6, Working, MovePc, Zenon DEF ResetLarge
<1>8. deg' \in [Vertices -> [in : Int, out : Int]] BY <1>1 DEF IInv, TypeOK
<1>. HIDE DEF v
<1>9. StoreOK' /\ LinksInPool' /\ Frame(t) /\ eb'[th[t].tmp].edges[th[t].k] = Slot(t)
      BY <1>1, <1>2, <1>5, <1>8, BlockStore
<1>10. Fits("degrees", Op(t).kind, th[t].tmp, th[t].k, th[t].endk, th[t].sv, th[t].held)
      BY <1>1, Working
         DEF Fits, SlotPcs, BlockPcs, ScanPcs, RemovalPcs, InsertPcs, UpdatePcs,
            HoldingPcs
<1>11. HoldsSlot(t) BY <1>1 DEF HoldsSlot
<1>. QED BY <1>1, <1>7, <1>9, <1>10, <1>11, Working, HeldSlot, StoreStep

LEMMA RaiseHighStep ==
  ASSUME IInv, NEW t \in Threads, RaiseHigh(t)
  PROVE  IInv'
<1>. DEFINE n == IF th[t].k >= eb[th[t].tmp].high THEN th[t].k + 1 ELSE eb[th[t].tmp].high
            v == [eb[th[t].tmp] EXCEPT !.high = n]
<1>1. /\ th[t].pc = "high" /\ Move(t, "unlockslot")
      /\ UNCHANGED <<res, deg, work, phase, aborted, link, tail, eta, total, active>>
      BY Zenon DEF RaiseHigh, At, Quiet, Calm, batchVars, edgeVars, poolVars, countVars
<1>2. th[t].pc \in SlotPcs BY <1>1 DEF SlotPcs
<1>3. /\ eb[th[t].tmp] \in EdgeBlock /\ 0 \in Int /\ th[t].tmp \in Blocks
      /\ eb \in [Blocks -> EdgeBlock]
      BY <1>2, AtSlot, BlockTypes
<1>4. /\ n \in 0..BlockSize
      /\ n = eb[th[t].tmp].high \/ eb[th[t].tmp].high < n
      BY <1>1, <1>2, AtSlot, Working
<1>5. "unlockslot" \in ProgramCounters BY DEF ProgramCounters
<1>6. Moves(t, "unlockslot", th[t].tmp, th[t].k, th[t].endk, th[t].sv, th[t].held)
      BY <1>1, <1>5, Working, MovePc, Zenon
<1>7. Fits("unlockslot", Op(t).kind, th[t].tmp, th[t].k, th[t].endk, th[t].sv,
      th[t].held)
      BY <1>1, Working
         DEF Fits, SlotPcs, BlockPcs, ScanPcs, RemovalPcs, InsertPcs, UpdatePcs,
            HoldingPcs
<1>8. HoldsSlot(t) BY <1>1 DEF HoldsSlot
<1>9. StoreOK' /\ LinksInPool' /\ Frame(t) /\ eb'[th[t].tmp].edges[th[t].k] = Slot(t)
  <2>1. CASE th[t].k >= eb[th[t].tmp].high
    <3>1. eb' = [eb EXCEPT ![th[t].tmp] = v] BY <2>1, Zenon DEF RaiseHigh
    <3>. HIDE DEF n
    <3>2. v \in EdgeBlock /\ v.edges = eb[th[t].tmp].edges /\ v.high = n
          BY <1>3, <1>4, BlockField, Zenon
    <3>3. deg' \in [Vertices -> [in : Int, out : Int]] BY <1>1 DEF IInv, TypeOK
    <3>. HIDE DEF v
    <3>. QED BY <1>1, <1>2, <1>4, <3>1, <3>2, <3>3, BlockStore
  <2>2. CASE ~(th[t].k >= eb[th[t].tmp].high)
    <3>1. UNCHANGED eb BY <2>2, Zenon DEF RaiseHigh
    <3>2. Calm BY <1>1, <3>1 DEF Calm
    <3>3. StoreOK' BY <1>1, <3>1 DEF IInv, TypeOK, StoreOK
    <3>. QED BY <3>1, <3>2, <3>3, CalmFrame DEF Slot
  <2>. QED BY <2>1, <2>2
<1>. QED BY <1>1, <1>6, <1>7, <1>8, <1>9, Working, HeldSlot, StoreStep

LEMMA LockStampStep ==
  ASSUME IInv, NEW t \in Threads, LockStamp(t)
  PROVE  IInv'
<1>. DEFINE v == [eb[th[t].tmp] EXCEPT !.small = MARKER]
<1>1. /\ th[t].pc = "lockstamp"
      /\ UNCHANGED <<res, deg, work, phase, aborted, link, tail, eta, total, active>>
      /\ eb' = [eb EXCEPT ![th[t].tmp] = v]
      BY Zenon DEF LockStamp, At, Quiet, Calm, batchVars, edgeVars, poolVars, countVars
<1>2. th[t].pc \in SlotPcs BY <1>1 DEF SlotPcs
<1>3. eb[th[t].tmp] \in EdgeBlock /\ 0 \in Int /\ 0 \in 0..BlockSize
      BY <1>2, AtSlot, BlockTypes, SizesPositive
<1>4. MARKER \in Int /\ eb[th[t].tmp].small \in Int
      BY <1>2, AtSlot, BlockTypes DEF MARKER
<1>5. v \in EdgeBlock /\ v.edges = eb[th[t].tmp].edges /\ v.high = eb[th[t].tmp].high
      BY <1>3, <1>4, BlockField, Zenon
<1>6. "widen" \in ProgramCounters BY DEF ProgramCounters
<1>7. Moves(t, "widen", th[t].tmp, th[t].k, th[t].endk, th[t].sv, th[t].held)
      BY <1>1, <1>4, <1>6, Working, MoveSm, Zenon DEF LockStamp
<1>8. deg' \in [Vertices -> [in : Int, out : Int]] BY <1>1 DEF IInv, TypeOK
<1>. HIDE DEF v
<1>9. StoreOK' /\ LinksInPool' /\ Frame(t) /\ eb'[th[t].tmp].edges[th[t].k] = Slot(t)
      BY <1>1, <1>2, <1>5, <1>8, BlockStore
<1>10. Fits("widen", Op(t).kind, th[t].tmp, th[t].k, th[t].endk, th[t].sv, th[t].held)
      BY <1>1, Working
         DEF Fits, SlotPcs, BlockPcs, ScanPcs, RemovalPcs, InsertPcs, UpdatePcs,
            HoldingPcs
<1>11. th[t].held => HoldsSlot(t) BY DEF HoldsSlot
<1>. QED BY <1>1, <1>7, <1>9, <1>10, <1>11, Working, HeldSlot, StoreStep DEF HoldingPcs

LEMMA StoreLargeStep ==
  ASSUME IInv, NEW t \in Threads, StoreLarge(t)
  PROVE  IInv'
<1>. DEFINE v == [eb[th[t].tmp] EXCEPT !.large = Op(t).ts]
<1>1. /\ th[t].pc = "raise"
      /\ UNCHANGED <<res, deg, work, phase, aborted, link, tail, eta, total, active>>
      /\ eb' = [eb EXCEPT ![th[t].tmp] = v]
      BY Zenon DEF StoreLarge, At, Quiet, Calm, batchVars, edgeVars, poolVars,
         countVars
<1>2. th[t].pc \in SlotPcs BY <1>1 DEF SlotPcs
<1>3. eb[th[t].tmp] \in EdgeBlock /\ 0 \in Int /\ 0 \in 0..BlockSize
      BY <1>2, AtSlot, BlockTypes, SizesPositive
<1>4. Op(t).ts \in Int BY <1>1, OpFields
<1>5. v \in EdgeBlock /\ v.edges = eb[th[t].tmp].edges /\ v.high = eb[th[t].tmp].high
      BY <1>3, <1>4, BlockField, Zenon
<1>6. "unlockstamp" \in ProgramCounters BY DEF ProgramCounters
<1>7. Moves(t, "unlockstamp", th[t].tmp, th[t].k, th[t].endk, th[t].sv, th[t].held)
      BY <1>1, <1>4, <1>6, Working, MovePc, Zenon DEF StoreLarge
<1>8. deg' \in [Vertices -> [in : Int, out : Int]] BY <1>1 DEF IInv, TypeOK
<1>. HIDE DEF v
<1>9. StoreOK' /\ LinksInPool' /\ Frame(t) /\ eb'[th[t].tmp].edges[th[t].k] = Slot(t)
      BY <1>1, <1>2, <1>5, <1>8, BlockStore
<1>10. Fits("unlockstamp", Op(t).kind, th[t].tmp, th[t].k, th[t].endk, th[t].sv, th[t].held)
      BY <1>1, Working
         DEF Fits, SlotPcs, BlockPcs, ScanPcs, RemovalPcs, InsertPcs, UpdatePcs,
            HoldingPcs
<1>11. th[t].held => HoldsSlot(t) BY DEF HoldsSlot
<1>. QED BY <1>1, <1>7, <1>9, <1>10, <1>11, Working, HeldSlot, StoreStep DEF HoldingPcs

LEMMA UnlockStampStep ==
  ASSUME IInv, NEW t \in Threads, UnlockStamp(t)
  PROVE  IInv'
<1>. DEFINE v == [eb[th[t].tmp] EXCEPT !.small = Lesser(th[t].sm, Op(t).ts)]
<1>1. /\ th[t].pc = "unlockstamp"
      /\ UNCHANGED <<res, deg, work, phase, aborted, link, tail, eta, total, active>>
      /\ eb' = [eb EXCEPT ![th[t].tmp] = v]
      BY Zenon DEF UnlockStamp, At, Quiet, Calm, batchVars, edgeVars, poolVars,
         countVars
<1>2. th[t].pc \in SlotPcs BY <1>1 DEF SlotPcs
<1>3. eb[th[t].tmp] \in EdgeBlock /\ 0 \in Int /\ 0 \in 0..BlockSize
      BY <1>2, AtSlot, BlockTypes, SizesPositive
<1>4. Lesser(th[t].sm, Op(t).ts) \in Int
      BY <1>1, <1>2, AtSlot, Working, OpFields DEF Lesser
<1>5. v \in EdgeBlock /\ v.edges = eb[th[t].tmp].edges /\ v.high = eb[th[t].tmp].high
      BY <1>3, <1>4, BlockField, Zenon
<1>6. "recent" \in ProgramCounters BY DEF ProgramCounters
<1>7. Moves(t, "recent", th[t].tmp, th[t].k, th[t].endk, th[t].sv, th[t].held)
      BY <1>1, <1>4, <1>6, Working, MovePc, Zenon DEF UnlockStamp
<1>8. deg' \in [Vertices -> [in : Int, out : Int]] BY <1>1 DEF IInv, TypeOK
<1>. HIDE DEF v
<1>9. StoreOK' /\ LinksInPool' /\ Frame(t) /\ eb'[th[t].tmp].edges[th[t].k] = Slot(t)
      BY <1>1, <1>2, <1>5, <1>8, BlockStore
<1>10. Fits("recent", Op(t).kind, th[t].tmp, th[t].k, th[t].endk, th[t].sv, th[t].held)
      BY <1>1, Working
         DEF Fits, SlotPcs, BlockPcs, ScanPcs, RemovalPcs, InsertPcs, UpdatePcs,
            HoldingPcs
<1>11. th[t].held => HoldsSlot(t) BY DEF HoldsSlot
<1>. QED BY <1>1, <1>7, <1>9, <1>10, <1>11, Working, HeldSlot, StoreStep DEF HoldingPcs

LEMMA UncountStep ==
  ASSUME IInv, NEW t \in Threads, Uncount(t)
  PROVE  IInv'
<1>. DEFINE v == [eb[th[t].tmp] EXCEPT !.num = @ - 1]
<1>1. /\ th[t].pc = "uncount"
      /\ UNCHANGED <<res, work, phase, aborted, link, tail, eta, total, active>>
      /\ eb' = [eb EXCEPT ![th[t].tmp] = v]
      BY Zenon DEF Uncount, At, Quiet, Calm, batchVars, edgeVars, poolVars, countVars
<1>2. th[t].pc \in SlotPcs BY <1>1 DEF SlotPcs
<1>3. eb[th[t].tmp] \in EdgeBlock /\ 0 \in Int /\ 0 \in 0..BlockSize
      BY <1>2, AtSlot, BlockTypes, SizesPositive
<1>4. eb[th[t].tmp].num - 1 \in Int BY <1>2, AtSlot, BlockTypes
<1>5. v \in EdgeBlock /\ v.edges = eb[th[t].tmp].edges /\ v.high = eb[th[t].tmp].high
      BY <1>3, <1>4, BlockField, Zenon
<1>6. "clear" \in ProgramCounters BY DEF ProgramCounters
<1>7. Moves(t, "clear", th[t].tmp, th[t].k, th[t].endk, th[t].sv, th[t].held)
      BY <1>1, <1>6, Working, MovePc, Zenon DEF Uncount
<1>8. deg' = [deg EXCEPT ![eb[th[t].tmp].vertex].out = @ - 1, ![Slot(t).nbr].in = @ - 1]
      BY Zenon DEF Uncount
<1>9. deg' \in [Vertices -> [in : Int, out : Int]]
      BY <1>8, DegreesCounted, Zenon DEF IInv, TypeOK
<1>. HIDE DEF v
<1>10. StoreOK' /\ LinksInPool' /\ Frame(t)
      BY <1>1, <1>2, <1>5, <1>9, BlockStore
<1>11. Fits("clear", Op(t).kind, th[t].tmp, th[t].k, th[t].endk, th[t].sv, th[t].held)
      BY <1>1, Working
         DEF Fits, SlotPcs, BlockPcs, ScanPcs, RemovalPcs, InsertPcs, UpdatePcs,
            HoldingPcs
<1>. QED BY <1>1, <1>7, <1>10, <1>11, Working, StoreStep
     DEF Fits, SlotPcs, BlockPcs, ScanPcs, RemovalPcs, InsertPcs, UpdatePcs, HoldingPcs

------------------------------------------------------------------------------
(* The steps that store in a link, and those that take a block.            *)
LEMMA LockLinkStep ==
  ASSUME IInv, NEW t \in Threads, LockLink(t)
  PROVE  IInv'
<1>. DEFINE c == th[t].ptr
            p == IF link[c] = 0 THEN "newblock" ELSE "unlink"
<1>1. /\ th[t].pc = "append" /\ link[c] # MARKER /\ link' = [link EXCEPT ![c] = MARKER]
      /\ UNCHANGED <<res, work, phase, aborted, eb, tail, eta, deg, total, active>>
      BY Zenon DEF LockLink, At, Quiet, Calm, batchVars, edgeVars, poolVars, countVars
<1>2. c \in Cells BY <1>1, Working
<1>3. link[c] \in 0..PoolSize-1 /\ link[c] < tail /\ link[c] \in Int
      BY <1>1, <1>2, LinkLeads
<1>4. p \in ProgramCounters BY DEF ProgramCounters
<1>5. Moves(t, p, th[t].tmp, th[t].k, th[t].endk, link[c], th[t].held)
      BY <1>1, <1>3, <1>4, Working, MoveSv, Zenon DEF LockLink
<1>6. Fits(p, Op(t).kind, th[t].tmp, th[t].k, th[t].endk, link[c], th[t].held)
      BY <1>1, <1>3, Working
         DEF Fits, SlotPcs, BlockPcs, ScanPcs, RemovalPcs, InsertPcs, UpdatePcs,
            HoldingPcs
<1>7. p # "idle" /\ p \notin HoldingPcs BY DEF HoldingPcs
<1>8. ~th[t].held BY <1>1, Working DEF Fits, UpdatePcs
<1>. HIDE DEF p, c
<1>9. StoreOK' /\ LinksInPool' /\ Frame(t) BY <1>1, <1>2, LinkStore
<1>. QED BY <1>1, <1>5, <1>6, <1>7, <1>8, <1>9, Working, StoreStep

LEMMA UnlockLinkStep ==
  ASSUME IInv, NEW t \in Threads, UnlockLink(t)
  PROVE  IInv'
<1>1. /\ th[t].pc = "unlink" /\ link' = [link EXCEPT ![th[t].ptr] = th[t].sv]
      /\ UNCHANGED <<res, work, phase, aborted, eb, tail, eta, deg, total, active>>
      BY Zenon DEF UnlockLink, At, Quiet, Calm, batchVars, edgeVars, poolVars, countVars
<1>2. th[t].sv \in 0..tail-1 BY <1>1, Working DEF Fits
<1>3. th[t].ptr \in Cells /\ th[t].sv \in 0..PoolSize-1 /\ th[t].sv < tail
      BY <1>1, <1>2, Working, SizesPositive
<1>4. StoreOK' /\ LinksInPool' /\ Frame(t) BY <1>1, <1>3, LinkStore
<1>5. "rescan" \in ProgramCounters BY DEF ProgramCounters
<1>6. Moves(t, "rescan", th[t].tmp, th[t].k, th[t].endk, th[t].sv, th[t].held)
      BY <1>1, <1>5, Working, MovePc, Zenon DEF UnlockLink
<1>7. Fits("rescan", Op(t).kind, th[t].tmp, th[t].k, th[t].endk, th[t].sv, th[t].held)
      BY <1>1, Working
         DEF Fits, SlotPcs, BlockPcs, ScanPcs, RemovalPcs, InsertPcs, UpdatePcs,
            HoldingPcs
<1>. QED BY <1>1, <1>4, <1>6, <1>7, Working, StoreStep
     DEF Fits, SlotPcs, BlockPcs, ScanPcs, RemovalPcs, InsertPcs, UpdatePcs, HoldingPcs

LEMMA LinkBlockStep ==
  ASSUME IInv, NEW t \in Threads, LinkBlock(t)
  PROVE  IInv'
<1>1. /\ th[t].pc = "link" /\ link' = [link EXCEPT ![th[t].ptr] = th[t].tmp] /\ Finish(t, 1)
      /\ UNCHANGED <<work, phase, aborted, eb, tail, eta, deg, total, active>>
      BY Zenon DEF LinkBlock, At, Quiet, Calm, batchVars, edgeVars, poolVars, countVars
<1>2. th[t].ptr \in Cells /\ th[t].tmp \in 0..PoolSize-1 /\ th[t].tmp < tail
      BY <1>1, Working
<1>3. StoreOK' /\ LinksInPool' /\ Frame(t) BY <1>1, <1>2, LinkStore
<1>. QED BY <1>1, <1>3, FinishStep

LEMMA NewBlockStep ==
  ASSUME IInv, NEW t \in Threads, NewBlock(t)
  PROVE  IInv'
<1>. DEFINE o == Op(t)
            v == BlockWith(o)
<1>1. /\ th[t].pc = "newblock" /\ tail + 1 < PoolSize /\ tail' = tail + 1
      /\ eb' = [eb EXCEPT ![tail] = v] /\ link' = [link EXCEPT ![NextOf(tail)] = 0]
      /\ deg' = [deg EXCEPT ![o.from].out = @ + 1, ![o.to].in = @ + 1]
      /\ total' = total + o.weight
      /\ UNCHANGED <<work, phase, aborted, res, eta, active>>
      BY Zenon DEF NewBlock, At, Quiet, Calm, batchVars, edgeVars, poolVars, countVars
<1>2. tail \in Blocks /\ NextOf(tail) \in Cells /\ tail \in 0..PoolSize-1 /\ tail \in Nat
      /\ tail < tail'
  <2>1. tail \in 1..PoolSize BY DEF IInv, TypeOK
  <2>2. tail \in Blocks /\ tail \in Nat BY <1>1, <2>1, SizesPositive DEF Blocks
  <2>. QED BY <1>1, <2>2, SizesPositive DEF NextOf, Cells, Blocks
<1>3. v \in EdgeBlock
  <2>1. /\ o.type \in Int /\ o.from \in Int /\ o.to \in Int /\ o.weight \in Int /\ o.ts \in Int
        BY <1>1, OpFields, SizesPositive DEF Vertices
  <2>2. FirstEdge(o) \in Edge BY <2>1 DEF FirstEdge, Edge
  <2>3. ZeroEdge \in Edge BY DEF ZeroEdge, Edge
  <2>4. [k \in Slots |-> IF k = 0 THEN FirstEdge(o) ELSE ZeroEdge] \in [Slots -> Edge]
        BY <2>2, <2>3
  <2>5. 1 \in 0..BlockSize /\ 1 \in Int BY SizesPositive
  <2>. QED BY <2>1, <2>4, <2>5, Zenon DEF BlockWith, EdgeBlock
<1>4. eb \in [Blocks -> EdgeBlock] BY DEF IInv, TypeOK
<1>5. Frame(t)
  <2>. HIDE DEF v
  <2>1. \A b \in Blocks : b < tail => eb'[b] = eb[b] BY <1>1, <1>2, <1>4
  <2>2. \A b \in Blocks : eb[b].high \in Nat BY <1>4, BlockTypes
  <2>3. tail <= tail' BY <1>1, <1>2
  <2>. QED BY <2>1, <2>2, <2>3 DEF Frame
<1>6. LinksInPool'
  <2>1. link \in [Cells -> {MARKER} \cup 0..PoolSize-1] BY DEF IInv, TypeOK
  <2>2. ASSUME NEW c \in Cells, link'[c] # MARKER PROVE link'[c] < tail'
    <3>1. CASE c = NextOf(tail) BY <1>1, <1>2, <2>1, <3>1
    <3>2. CASE c # NextOf(tail)
      <4>1. link'[c] = link[c] BY <1>1, <2>1, <3>2
      <4>2. link[c] < tail /\ link[c] \in Int BY <2>2, <4>1, LinkLeads
      <4>. QED BY <1>1, <1>2, <4>1, <4>2
    <3>. QED BY <3>1, <3>2
  <2>. QED BY <1>1, <2>2 DEF LinksInPool
<1>7. StoreOK'
  <2>. HIDE DEF v
  <2>1. eb' \in [Blocks -> EdgeBlock] BY <1>1, <1>2, <1>3, <1>4
  <2>2. link' \in [Cells -> {MARKER} \cup 0..PoolSize-1]
        BY <1>1, <1>2, SizesPositive DEF IInv, TypeOK
  <2>3. tail' \in 1..PoolSize BY <1>1, <1>2, SizesPositive
  <2>4. deg' \in [Vertices -> [in : Int, out : Int]]
        BY <1>1, DegreesCounted, Zenon DEF IInv, TypeOK
  <2>5. total' \in Int BY <1>1, OpFields DEF IInv, TypeOK
  <2>. QED BY <1>1, <2>1, <2>2, <2>3, <2>4, <2>5 DEF IInv, TypeOK, StoreOK
<1>8. "claim" \in ProgramCounters BY DEF ProgramCounters
<1>9. Moves(t, "claim", tail, th[t].k, th[t].endk, th[t].sv, th[t].held)
      BY <1>1, <1>2, <1>8, Working, MoveTmp, Zenon DEF NewBlock
<1>10. Fits("claim", Op(t).kind, tail, th[t].k, th[t].endk, th[t].sv, th[t].held)
      BY <1>1, <1>2, Working
         DEF Blocks, Fits, SlotPcs, BlockPcs, ScanPcs, RemovalPcs, InsertPcs,
            UpdatePcs, HoldingPcs
<1>11. ~th[t].held BY <1>1, Working DEF Fits, UpdatePcs
<1>. HIDE DEF v
<1>. QED BY <1>1, <1>2, <1>5, <1>6, <1>7, <1>9, <1>10, <1>11, StoreStep DEF HoldingPcs

LEMMA PoolExhaustedStep ==
  ASSUME IInv, NEW t \in Threads, PoolExhausted(t)
  PROVE  IInv'
<1>1. /\ ~aborted /\ tail' = tail + 1 /\ aborted' = TRUE
      /\ UNCHANGED <<work, phase, res, eb, link, eta, deg, total, active, th>>
      BY Zenon DEF PoolExhausted, At, Quiet, Calm, batchVars, edgeVars, poolVars,
         countVars
<1>2. tail \in 1..PoolSize /\ tail < PoolSize BY <1>1 DEF IInv, TypeOK, LinksInPool
<1>3. tail' \in 1..PoolSize /\ tail < tail' /\ tail \in Int BY <1>1, <1>2, SizesPositive
<1>4. TypeOK' BY <1>1, <1>3 DEF IInv, TypeOK
<1>5. Assigned' BY <1>1 DEF IInv, Assigned
<1>6. LinksInPool'
  <2>1. \A c \in Cells : link[c] # MARKER => link[c] < tail' BY <1>3, LinkLeads
  <2>. QED BY <1>1, <2>1 DEF LinksInPool
<1>7. SlotLockExclusive' BY <1>1 DEF IInv, SlotLockExclusive, HoldsSlot, Slot
<1>8. ASSUME NEW u \in Threads PROVE LocalOK(th[u])'
  <2>1. LocalOK(th[u]) /\ th[u] \in Locals BY DEF IInv, TypeOK
  <2>2. th[u].tmp \in Int /\ th[u].sv \in Int BY <2>1, FieldTypes
  <2>. QED BY <1>1, <1>3, <2>1, <2>2 DEF LocalOK, Fits, Occupied
<1>. QED BY <1>4, <1>5, <1>6, <1>7, <1>8 DEF IInv

------------------------------------------------------------------------------
(* The steps of the loops around the operations.                           *)
LEMMA TakeStep ==
  ASSUME IInv, NEW t \in Threads, NEW i \in DOMAIN res, Take(t, i)
  PROVE  IInv'
<1>. DEFINE p == IF work[phase][i].kind = "remove" THEN "begin" ELSE "activate"
            y == [Idle EXCEPT !.op = i, !.nw = work[phase][i].weight, !.pc = p]
<1>1. /\ th[t].pc = "idle" /\ phase \in DOMAIN work /\ i \in DOMAIN work[phase]
      /\ res[i] = ToDo /\ res' = [res EXCEPT ![i] = Taken] /\ th' = [th EXCEPT ![t] = y]
      /\ UNCHANGED <<work, phase, eb, link, tail, eta, deg, total, active, aborted>>
      BY Zenon DEF Take, At, Quiet, Calm, batchVars, edgeVars, poolVars, countVars
<1>2. /\ th \in [Threads -> Locals] /\ work \in Workloads /\ tail \in 1..PoolSize
      /\ res \in [OpsOf(work, phase) -> {ToDo, Taken, -1, 0, 1}]
      BY DEF IInv, TypeOK
<1>3. work[phase][i] \in Operations /\ i \in Nat
  <2>1. work \in Seq(Seq(Operations)) BY <1>2, WorkloadsOK
  <2>2. work[phase] \in Seq(Operations) BY <1>1, <2>1
  <2>. QED BY <1>1, <2>2
<1>4. work[phase][i].weight \in Int BY <1>3 DEF Operations
<1>5. Idle \in Locals /\ Idle.tmp = 0 /\ Idle.held = FALSE
      BY SizesPositive DEF Idle, Locals, ProgramCounters, HeadOf, Cells, Vertices
<1>6. p \in ProgramCounters BY DEF ProgramCounters
<1>7. /\ y \in Locals /\ y.pc = p /\ y.op = i /\ y.tmp = Idle.tmp /\ y.held = Idle.held
  <2>. HIDE DEF Idle, p
  <2>. QED BY <1>3, <1>4, <1>5, <1>6, FieldTypes, Zenon DEF Locals
<1>. HIDE DEF y, Idle
<1>8. th'[t] = y /\ th' \in [Threads -> Locals] /\ \A u \in Threads \ {t} : th'[u] = th[u]
      BY <1>1, <1>2, <1>7
<1>9. res' \in [OpsOf(work, phase) -> {ToDo, Taken, -1, 0, 1}] BY <1>1, <1>2
<1>10. TypeOK' BY <1>1, <1>8, <1>9 DEF IInv, TypeOK
<1>11. ASSUME NEW u \in Threads, u # t, th'[u].pc # "idle"
       PROVE  /\ th[u].pc # "idle" /\ th'[u] = th[u] /\ th[u].op # i
              /\ res'[th[u].op] = Taken /\ th[u].op \in DOMAIN work[phase]
  <2>1. th'[u] = th[u] /\ th[u].pc # "idle" BY <1>8, <1>11
  <2>2. res[th[u].op] = Taken /\ th[u].op \in DOMAIN work[phase]
        BY <2>1 DEF IInv, Assigned
  <2>3. th[u].op # i BY <1>1, <2>2 DEF ToDo, Taken
  <2>. QED BY <1>1, <2>1, <2>2, <2>3, <1>2
<1>12. th'[t].op = i /\ res'[i] = Taken BY <1>1, <1>2, <1>7, <1>8
<1>13. Assigned'
  <2>1. ASSUME NEW u \in Threads, th'[u].pc # "idle"
        PROVE  /\ phase' \in DOMAIN work' /\ th'[u].op \in DOMAIN work'[phase']
               /\ res'[th'[u].op] = Taken
        BY <1>1, <1>11, <1>12, <2>1
  <2>2. ASSUME NEW u \in Threads, NEW w \in Threads, th'[u].pc # "idle",
        th'[w].pc # "idle",
               th'[w].op = th'[u].op
        PROVE  w = u
    <3>1. CASE u = t BY <1>11, <1>12, <2>2, <3>1
    <3>2. CASE w = t BY <1>11, <1>12, <2>2, <3>2
    <3>3. CASE u # t /\ w # t BY <1>11, <2>2, <3>3 DEF IInv, Assigned
    <3>. QED BY <3>1, <3>2, <3>3
  <2>. QED BY <2>1, <2>2 DEF Assigned
<1>14. Calm BY <1>1 DEF Calm
<1>15. Frame(t) /\ LinksInPool' BY <1>14, CalmFrame
<1>16. p \notin HoldingPcs BY DEF HoldingPcs
<1>17. SlotLockExclusive'
  <2>1. Held(t) BY <1>5, <1>7, <1>8, <1>16 DEF Held, HoldsSlot, HoldingPcs
  <2>. QED BY <1>8, <1>15, <2>1, ExclusionStays
<1>18. ASSUME NEW u \in Threads PROVE LocalOK(th[u])'
  <2>1. CASE u = t
    <3>1. work[phase][i].kind # "remove" \/ p = "begin" OBVIOUS
    <3>2. p \in {"begin", "activate"} OBVIOUS
    <3>. HIDE DEF p
    <3>. QED BY <1>1, <1>2, <1>5, <1>7, <1>8, <2>1, <3>1, <3>2
         DEF LocalOK, Fits, SlotPcs, BlockPcs, ScanPcs, RemovalPcs, InsertPcs,
            UpdatePcs, HoldingPcs
  <2>2. CASE u # t
    <3>1. th'[u] = th[u] /\ LocalOK(th[u]) BY <1>8, <2>2 DEF IInv
    <3>. QED BY <1>1, <3>1 DEF LocalOK, Fits, Occupied
  <2>. QED BY <2>1, <2>2
<1>. QED BY <1>10, <1>13, <1>15, <1>17, <1>18 DEF IInv

(* At a barrier every thread is idle.                                      *)
LEMMA BarrierStep ==
  ASSUME IInv, Barrier
  PROVE  IInv'
<1>1. /\ \A i \in DOMAIN res : res[i] \notin {ToDo, Taken}
      /\ phase' = phase + 1 /\ res' = Begun(work, phase + 1)
      /\ UNCHANGED <<work, eb, link, tail, eta, deg, total, active, aborted, th>>
      BY Zenon DEF Barrier, Quiet, Calm, batchVars, edgeVars, poolVars, countVars
<1>2. ASSUME NEW t \in Threads PROVE th[t].pc = "idle"
  <2>. SUFFICES ASSUME th[t].pc # "idle" PROVE FALSE
       OBVIOUS
  <2>1. /\ phase \in DOMAIN work /\ th[t].op \in DOMAIN work[phase] /\ res[th[t].op] = Taken
        BY DEF IInv, Assigned
  <2>2. DOMAIN res = OpsOf(work, phase) BY DEF IInv, TypeOK
  <2>. QED BY <1>1, <2>1, <2>2 DEF OpsOf
<1>3. res' \in [OpsOf(work, phase + 1) -> {ToDo, Taken, -1, 0, 1}] BY <1>1 DEF Begun
<1>4. TypeOK' BY <1>1, <1>3 DEF IInv, TypeOK
<1>5. Assigned' BY <1>1, <1>2 DEF Assigned
<1>6. LinksInPool' BY <1>1 DEF IInv, LinksInPool
<1>7. SlotLockExclusive' BY <1>1 DEF IInv, SlotLockExclusive, HoldsSlot, Slot
<1>8. ASSUME NEW t \in Threads PROVE LocalOK(th[t])'
  <2>1. LocalOK(th[t]) /\ th[t].pc = "idle" BY <1>2 DEF IInv
  <2>. QED BY <1>1, <2>1
       DEF LocalOK, Fits, SlotPcs, BlockPcs, ScanPcs, RemovalPcs, InsertPcs,
          UpdatePcs, HoldingPcs
<1>. QED BY <1>4, <1>5, <1>6, <1>7, <1>8 DEF IInv

LEMMA StutterStep ==
  ASSUME IInv, UNCHANGED vars
  PROVE  IInv'
<1>1. UNCHANGED <<work, phase, res, eb, link, tail, eta, deg, total, active, aborted,
      th>>
      BY Zenon DEF vars
<1>2. TypeOK' BY <1>1 DEF IInv, TypeOK
<1>3. Assigned' BY <1>1 DEF IInv, Assigned
<1>4. LinksInPool' BY <1>1 DEF IInv, LinksInPool
<1>5. SlotLockExclusive' BY <1>1 DEF IInv, SlotLockExclusive, HoldsSlot, Slot
<1>6. ASSUME NEW t \in Threads PROVE LocalOK(th[t])'
      BY <1>1 DEF IInv, LocalOK, Fits, Occupied
<1>. QED BY <1>2, <1>3, <1>4, <1>5, <1>6 DEF IInv

------------------------------------------------------------------------------
(* The invariant holds initially and is kept by every step.                *)
LEMMA InitIInv == Init => IInv
<1>. SUFFICES ASSUME Init PROVE IInv
     OBVIOUS
<1>1. Idle \in Locals /\ Idle.pc = "idle" /\ Idle.tmp = 0 /\ Idle.held = FALSE
      BY SizesPositive DEF Idle, Locals, ProgramCounters, HeadOf, Cells, Vertices
<1>. HIDE DEF Idle
<1>2. NoBlock \in EdgeBlock
  <2>1. ZeroEdge \in Edge BY DEF ZeroEdge, Edge
  <2>2. [k \in Slots |-> ZeroEdge] \in [Slots -> Edge] BY <2>1
  <2>3. 0 \in Int /\ 0 \in 0..BlockSize /\ INT64_MAX \in Int /\ INT64_MIN \in Int
        BY SizesPositive DEF INT64_MAX, INT64_MIN
  <2>. QED BY <2>2, <2>3, Zenon DEF NoBlock, EdgeBlock
<1>3. eb = [b \in Blocks |-> NoBlock] /\ link = [c \in Cells |-> 0] /\ tail = 1
      BY DEF Init
<1>4. th = [t \in Threads |-> Idle] BY DEF Init
<1>5. TypeOK
  <2>1. eb \in [Blocks -> EdgeBlock]
    <3>. HIDE DEF NoBlock
    <3>. QED BY <1>2, <1>3
  <2>2. link \in [Cells -> {MARKER} \cup 0..PoolSize-1] /\ tail \in 1..PoolSize
        BY <1>3, SizesPositive
  <2>3. th \in [Threads -> Locals] BY <1>1, <1>4
  <2>4. res \in [OpsOf(work, phase) -> {ToDo, Taken, -1, 0, 1}] /\ phase \in Nat
        BY DEF Init, Begun
  <2>5. eta \in [Types -> [high : Nat, blocks : [0..PoolSize-1 -> 0..PoolSize-1]]]
    <3>1. [i \in 0..PoolSize-1 |-> 0] \in [0..PoolSize-1 -> 0..PoolSize-1]
          BY SizesPositive
    <3>. DEFINE z == [i \in 0..PoolSize-1 |-> 0]
    <3>. HIDE DEF z
    <3>2. [high |-> 0, blocks |-> z] \in [high : Nat,
          blocks : [0..PoolSize-1 -> 0..PoolSize-1]]
          BY <3>1 DEF z
    <3>3. eta = [e \in Types |-> [high |-> 0, blocks |-> z]] BY DEF Init, Unwritten, z
    <3>. QED BY <3>2, <3>3
  <2>6. deg \in [Vertices -> [in : Int, out : Int]] BY DEF Init
  <2>7. work \in Workloads /\ total \in Int /\ active \in {-1} \cup Vertices BY DEF Init
  <2>8. aborted \in BOOLEAN BY Zenon DEF Init
  <2>. QED BY <2>1, <2>2, <2>3, <2>4, <2>5, <2>6, <2>7, <2>8 DEF TypeOK
<1>6. Assigned BY <1>1, <1>4 DEF Assigned
<1>7. LinksInPool BY <1>3, SizesPositive DEF LinksInPool
<1>8. SlotLockExclusive BY <1>1, <1>4 DEF SlotLockExclusive, HoldsSlot
<1>9. \A t \in Threads : LocalOK(th[t])
      BY <1>1, <1>3, <1>4
         DEF LocalOK, Fits, SlotPcs, BlockPcs, ScanPcs, RemovalPcs, InsertPcs,
            UpdatePcs, HoldingPcs
<1>. QED BY <1>5, <1>6, <1>7, <1>8, <1>9 DEF IInv

LEMMA NextIInv == IInv /\ [Next]_vars => IInv'
<1>. SUFFICES ASSUME IInv, [Next]_vars PROVE IInv'
     OBVIOUS
<1>1. CASE Barrier BY <1>1, BarrierStep
<1>2. CASE Over BY <1>2, StutterStep DEF Over
<1>3. CASE UNCHANGED vars BY <1>3, StutterStep
<1>4. ASSUME NEW t \in Threads, Step(t) PROVE IInv'
  <2>1. CASE \E i \in DOMAIN res : Take(t, i) BY <2>1, TakeStep
  <2>2. CASE ReadActive(t) \/ CasActive(t) \/ RefuseLoop(t)
        BY <2>2, ReadActiveStep, CasActiveStep, RefuseLoopStep
  <2>3. CASE EtypeBegin(t) \/ EtypeWalk(t) BY <2>3, EtypeBeginStep, EtypeWalkStep
  <2>4. CASE FindBlock(t) \/ FindSlot(t) \/ FindNext(t) \/ FindEnd(t)
        BY <2>4, FindBlockStep, FindSlotStep, FindNextStep, FindEndStep
  <2>5. CASE Rescan(t) \/ ScanBlock(t) \/ ScanSlot(t) \/ ScanNext(t)
        BY <2>5, RescanStep, ScanBlockStep, ScanSlotStep, ScanNextStep
  <2>6. CASE LockSlot(t) \/ Recheck(t) \/ Release(t)
        BY <2>6, LockSlotStep, RecheckStep, ReleaseStep
  <2>7. CASE LockLink(t) \/ UnlockLink(t) BY <2>7, LockLinkStep, UnlockLinkStep
  <2>8. CASE NewBlock(t) \/ PoolExhausted(t) \/ ClaimPlace(t) \/ FillPlace(t) \/ LinkBlock(t)
        BY <2>8, NewBlockStep, PoolExhaustedStep, ClaimPlaceStep, FillPlaceStep,
           LinkBlockStep
  <2>9. CASE SetNeighbor(t) \/ CountEdge(t) \/ ResetSmall(t) \/ ResetLarge(t) \/ CountDegrees(t)
        BY <2>9, SetNeighborStep, CountEdgeStep, ResetSmallStep, ResetLargeStep, CountDegreesStep
  <2>10. CASE RaiseHigh(t) \/ UnlockSlot(t) BY <2>10, RaiseHighStep, UnlockSlotStep
  <2>11. CASE ReadWeight(t) \/ ChangeTotal(t) \/ WriteWeight(t)
        BY <2>11, ReadWeightStep, ChangeTotalStep, WriteWeightStep
  <2>12. CASE CheckSmall(t) \/ CheckLarge(t) \/ CompareLarge(t) \/ LockStamp(t) \/ StoreLarge(t) \/ UnlockStamp(t) \/ WriteRecent(t)
        BY <2>12, CheckSmallStep, CheckLargeStep, CompareLargeStep, LockStampStep,
           StoreLargeStep, UnlockStampStep, WriteRecentStep
  <2>13. CASE RestoreFirst(t) \/ LockWeight(t) \/ RecheckRemove(t) \/ Uncount(t) \/ ClearSlot(t)
        BY <2>13, RestoreFirstStep, LockWeightStep, RecheckRemoveStep, UncountStep,
           ClearSlotStep
  <2>. QED BY <1>4, <2>1, <2>2, <2>3, <2>4, <2>5, <2>6, <2>7, <2>8, <2>9, <2>10, <2>11,
              <2>12, <2>13, Zenon DEF Step
<1>. QED BY <1>1, <1>2, <1>3, <1>4, Zenon DEF Next

LEMMA Invariance == Spec => []IInv
BY InitIInv, NextIInv, PTL DEF Spec

(* Every index a thread follows stays inside the pool and inside a block,  *)
(* and every field keeps its type.                                         *)
THEOREM TypeCorrect == Spec => []TypeOK
<1>1. IInv => TypeOK BY DEF IInv
<1>. QED BY <1>1, Invariance, PTL

(* The timeFirst of a slot is a lock: no two threads hold it at once, and  *)
(* it reads MARKER while one does.                                         *)
THEOREM SlotExclusion == Spec => []SlotLockExclusive
<1>1. IInv => SlotLockExclusive BY DEF IInv
<1>. QED BY <1>1, Invariance, PTL

------------------------------------------------------------------------------
(* Second part: slots, lists and arrays.                                   *)

(* The program counters of a thread that looks for a place for its edge,   *)
(* or fills it.                                                            *)
PlacePcs ==
  {"slot", "lockslot", "recheck", "release", "setnbr", "count", "onlyedge",
   "onlylarge", "degrees", "high"}

(* A scan for a place does not run past the high-water mark, and the place *)
(* that is about to be filled is free.                                     *)
PlaceOK(x) ==
  /\ x.pc \in PlacePcs => x.k <= eb[x.tmp].high
  /\ x.pc = "release" => x.k < eb[x.tmp].high
  /\ x.pc = "setnbr" => ~Occupied(x.tmp, x.k)

Places ==
  /\ \A b \in Blocks : b >= tail => eb[b].high = 0
  /\ \A t \in Threads : PlaceOK(th[t])

(* What a step of t that adds no block does to the blocks.                 *)
Edit(t) ==
  \A b \in Blocks :
    /\ eb'[b].type = eb[b].type /\ eb'[b].vertex = eb[b].vertex
    /\ \/ eb'[b].high = eb[b].high
       \/ /\ th[t].pc = "high" /\ b = th[t].tmp /\ eb[b].high <= th[t].k
          /\ eb'[b].high = th[t].k + 1
    /\ \A j \in Slots :
         \/ eb'[b].edges[j].nbr = eb[b].edges[j].nbr
         \/ th[t].pc = "clear" /\ eb'[b].edges[j].nbr < 0
         \/ /\ th[t].pc = "setnbr" /\ b = th[t].tmp /\ j = th[t].k
            /\ eb'[b].edges[j].nbr = Op(t).to

LEMMA SlotEdit ==
  ASSUME eb \in [Blocks -> EdgeBlock], NEW b \in Blocks, NEW i \in Slots, NEW v,
         StoresEdge(b, i, v)
  PROVE  \A c \in Blocks :
           /\ eb'[c].type = eb[c].type /\ eb'[c].vertex = eb[c].vertex
           /\ eb'[c].high = eb[c].high
           /\ \A j \in Slots :
                eb'[c].edges[j] = IF c = b /\ j = i THEN v ELSE eb[c].edges[j]
BY SMT DEF StoresEdge, EdgeBlock

(* A store into the slot that t is at, by what it leaves in nbr.           *)
LEMMA AtSlotEdit ==
  ASSUME IInv, NEW t \in Threads, th[t].pc \in SlotPcs, NEW v,
         StoresEdge(th[t].tmp, th[t].k, v),
         \/ v.nbr = Slot(t).nbr
         \/ th[t].pc = "clear" /\ v.nbr < 0
         \/ th[t].pc = "setnbr" /\ v.nbr = Op(t).to
  PROVE  Edit(t)
<1>1. eb \in [Blocks -> EdgeBlock] /\ th[t].tmp \in Blocks /\ th[t].k \in Slots
      BY AtSlot
<1>. QED BY <1>1, SlotEdit DEF Edit, Slot

(* The steps that store in a slot, or in a field of a block.               *)
LEMMA StoreEdits ==
  ASSUME IInv, NEW t \in Threads,
         \/ LockSlot(t) \/ Release(t) \/ UnlockSlot(t) \/ RestoreFirst(t)
         \/ SetNeighbor(t) \/ WriteWeight(t) \/ WriteRecent(t)
         \/ LockWeight(t) \/ RecheckRemove(t) \/ ClearSlot(t)
  PROVE  Edit(t)
<1>1. th[t].pc \in SlotPcs
      BY DEF SlotPcs, LockSlot, Release, UnlockSlot, RestoreFirst, SetNeighbor, WriteWeight,
             WriteRecent, LockWeight, RecheckRemove, ClearSlot, At
<1>2. Slot(t) \in Edge BY <1>1, AtSlot
<1>3. CASE LockSlot(t)
  <2>. DEFINE v == [Slot(t) EXCEPT !.first = MARKER]
  <2>1. StoresEdge(th[t].tmp, th[t].k, v) BY <1>3, Zenon DEF StoresEdge, LockSlot, Slot
  <2>2. v.nbr = Slot(t).nbr BY <1>2 DEF Edge
  <2>. HIDE DEF v
  <2>. QED BY <1>1, <2>1, <2>2, AtSlotEdit
<1>4. CASE Release(t) \/ RestoreFirst(t)
  <2>. DEFINE v == [Slot(t) EXCEPT !.first = th[t].sv]
  <2>1. StoresEdge(th[t].tmp, th[t].k, v)
        BY <1>4, Zenon DEF StoresEdge, Release, RestoreFirst, Slot
  <2>2. v.nbr = Slot(t).nbr BY <1>2 DEF Edge
  <2>. HIDE DEF v
  <2>. QED BY <1>1, <2>1, <2>2, AtSlotEdit
<1>5. CASE UnlockSlot(t)
  <2>. DEFINE v == [Slot(t) EXCEPT !.first = Op(t).ts]
  <2>1. StoresEdge(th[t].tmp, th[t].k, v) BY <1>5, Zenon DEF StoresEdge, UnlockSlot, Slot
  <2>2. v.nbr = Slot(t).nbr BY <1>2 DEF Edge
  <2>. HIDE DEF v
  <2>. QED BY <1>1, <2>1, <2>2, AtSlotEdit
<1>6. CASE SetNeighbor(t)
  <2>. DEFINE v == [Slot(t) EXCEPT !.nbr = Op(t).to]
  <2>1. StoresEdge(th[t].tmp, th[t].k, v) BY <1>6, Zenon DEF StoresEdge, SetNeighbor, Slot
  <2>2. th[t].pc = "setnbr" /\ v.nbr = Op(t).to BY <1>2, <1>6 DEF SetNeighbor, At, Edge
  <2>. HIDE DEF v
  <2>. QED BY <1>1, <2>1, <2>2, AtSlotEdit
<1>7. CASE WriteWeight(t)
  <2>. DEFINE v == [Slot(t) EXCEPT !.weight = th[t].nw]
  <2>1. StoresEdge(th[t].tmp, th[t].k, v) BY <1>7, Zenon DEF StoresEdge, WriteWeight, Slot
  <2>2. v.nbr = Slot(t).nbr BY <1>2 DEF Edge
  <2>. HIDE DEF v
  <2>. QED BY <1>1, <2>1, <2>2, AtSlotEdit
<1>8. CASE WriteRecent(t)
  <2>. DEFINE v == [Slot(t) EXCEPT !.recent = Op(t).ts]
  <2>1. StoresEdge(th[t].tmp, th[t].k, v) BY <1>8, Zenon DEF StoresEdge, WriteRecent, Slot
  <2>2. v.nbr = Slot(t).nbr BY <1>2 DEF Edge
  <2>. HIDE DEF v
  <2>. QED BY <1>1, <2>1, <2>2, AtSlotEdit
<1>9. CASE LockWeight(t)
  <2>. DEFINE v == [Slot(t) EXCEPT !.weight = MARKER]
  <2>1. StoresEdge(th[t].tmp, th[t].k, v) BY <1>9, Zenon DEF StoresEdge, LockWeight, Slot
  <2>2. v.nbr = Slot(t).nbr BY <1>2 DEF Edge
  <2>. HIDE DEF v
  <2>. QED BY <1>1, <2>1, <2>2, AtSlotEdit
<1>10. CASE RecheckRemove(t) /\ eb' # eb
  <2>. DEFINE v == [Slot(t) EXCEPT !.weight = th[t].sv]
  <2>1. StoresEdge(th[t].tmp, th[t].k, v)
        BY <1>10, Zenon DEF StoresEdge, RecheckRemove, Slot
  <2>2. v.nbr = Slot(t).nbr BY <1>2 DEF Edge
  <2>. HIDE DEF v
  <2>. QED BY <1>1, <2>1, <2>2, AtSlotEdit
<1>11. CASE ClearSlot(t)
  <2>. DEFINE v == [Slot(t) EXCEPT !.nbr = Complement(Op(t).to)]
  <2>1. StoresEdge(th[t].tmp, th[t].k, v) BY <1>11, Zenon DEF StoresEdge, ClearSlot, Slot
  <2>2. Op(t).to \in Nat BY <1>1, OpFields DEF SlotPcs, Vertices
  <2>3. th[t].pc = "clear" /\ v.nbr < 0 BY <1>2, <1>11, <2>2 DEF Edge, Complement, ClearSlot, At
  <2>. HIDE DEF v
  <2>. QED BY <1>1, <2>1, <2>3, AtSlotEdit
<1>12. CASE eb' = eb BY <1>12 DEF Edit
<1>. QED BY <1>3, <1>4, <1>5, <1>6, <1>7, <1>8, <1>9, <1>10, <1>11, <1>12

LEMMA FieldEdits ==
  ASSUME IInv, NEW t \in Threads,
         \/ CountEdge(t) \/ ResetSmall(t) \/ ResetLarge(t) \/ LockStamp(t) \/ StoreLarge(t) \/ UnlockStamp(t)
         \/ Uncount(t) \/ RaiseHigh(t)
  PROVE  Edit(t)
<1>1. th[t].pc \in SlotPcs
      BY DEF SlotPcs, CountEdge, ResetSmall, ResetLarge, LockStamp, StoreLarge, UnlockStamp, Uncount, RaiseHigh, At
<1>2. eb \in [Blocks -> EdgeBlock] /\ th[t].tmp \in Blocks /\ th[t].k \in Slots
      BY <1>1, AtSlot
<1>3. CASE CountEdge(t) BY <1>2, <1>3, SMT DEF CountEdge, Edit, EdgeBlock
<1>4. CASE ResetSmall(t) \/ ResetLarge(t)
      BY <1>2, <1>4, SMT DEF ResetSmall, ResetLarge, Edit, EdgeBlock
<1>5. CASE LockStamp(t) BY <1>2, <1>5, SMT DEF LockStamp, Edit, EdgeBlock
<1>6. CASE StoreLarge(t) \/ UnlockStamp(t)
      BY <1>2, <1>6, SMT DEF StoreLarge, UnlockStamp, Edit, EdgeBlock
<1>7. CASE Uncount(t)
  <2>1. eb' = [eb EXCEPT ![th[t].tmp].num = @ - 1] BY <1>7, Zenon DEF Uncount
  <2>. QED BY <1>2, <2>1, SMT DEF Edit, EdgeBlock
<1>8. CASE RaiseHigh(t)
  <2>1. CASE eb' = eb BY <2>1 DEF Edit
  <2>2. CASE eb' # eb
    <3>1. /\ th[t].pc = "high" /\ th[t].k >= eb[th[t].tmp].high
          /\ eb' = [eb EXCEPT ![th[t].tmp].high = th[t].k + 1]
          BY <1>8, <2>2, Zenon DEF RaiseHigh, At
    <3>2. eb[th[t].tmp].high \in Nat /\ th[t].k \in Nat BY <1>2, BlockTypes DEF Slots
    <3>3. eb[th[t].tmp].high <= th[t].k BY <3>1, <3>2
    <3>. QED BY <1>2, <3>1, <3>3, SMT DEF Edit, EdgeBlock
  <2>. QED BY <2>1, <2>2
<1>. QED BY <1>3, <1>4, <1>5, <1>6, <1>7, <1>8

(* Every step but the one that adds a block.                               *)
LEMMA StepEdits ==
  ASSUME IInv, NEW t \in Threads, Step(t), ~NewBlock(t)
  PROVE  Edit(t)
<1>1. CASE \/ LockSlot(t) \/ Release(t) \/ UnlockSlot(t) \/ RestoreFirst(t)
           \/ SetNeighbor(t) \/ WriteWeight(t) \/ WriteRecent(t)
           \/ LockWeight(t) \/ RecheckRemove(t) \/ ClearSlot(t)
      BY <1>1, StoreEdits
<1>2. CASE \/ CountEdge(t) \/ ResetSmall(t) \/ ResetLarge(t) \/ LockStamp(t) \/ StoreLarge(t) \/ UnlockStamp(t)
           \/ Uncount(t) \/ RaiseHigh(t)
      BY <1>2, FieldEdits
<1>3. CASE \/ \E i \in DOMAIN res : Take(t, i)
           \/ ReadActive(t) \/ CasActive(t) \/ RefuseLoop(t) \/ EtypeBegin(t) \/ EtypeWalk(t)
           \/ FindBlock(t) \/ FindSlot(t) \/ FindNext(t) \/ FindEnd(t)
           \/ Rescan(t) \/ ScanBlock(t) \/ ScanSlot(t) \/ ScanNext(t) \/ Recheck(t)
           \/ LockLink(t) \/ UnlockLink(t) \/ PoolExhausted(t)
           \/ ClaimPlace(t) \/ FillPlace(t) \/ LinkBlock(t)
           \/ CountDegrees(t) \/ ReadWeight(t) \/ ChangeTotal(t) \/ CheckSmall(t) \/ CheckLarge(t) \/ CompareLarge(t)
  <2>1. eb' = eb
        BY <1>3, Zenon
           DEF edgeVars, Take, ReadActive, CasActive, RefuseLoop, EtypeBegin, EtypeWalk,
               EtypeStep, FindBlock, FindSlot, FindNext, FindEnd, Rescan, ScanFrom, ScanBlock,
               ScanSlot, ScanNext, Recheck, LockLink, UnlockLink, PoolExhausted, ClaimPlace,
               FillPlace, LinkBlock, CountDegrees, ReadWeight, ChangeTotal, CheckSmall, CheckLarge, CompareLarge
  <2>. QED BY <2>1 DEF Edit
<1>. QED BY <1>1, <1>2, <1>3, Zenon DEF Step

------------------------------------------------------------------------------
(* The places.                                                             *)

(* The steps after which a thread is not at a place.                       *)
LEMMA NoPlaceSteps ==
  ASSUME IInv, NEW t \in Threads,
         \/ \E i \in DOMAIN res : Take(t, i)
         \/ ReadActive(t) \/ CasActive(t) \/ RefuseLoop(t) \/ EtypeBegin(t) \/ EtypeWalk(t)
         \/ FindBlock(t) \/ FindSlot(t) \/ FindNext(t) \/ FindEnd(t) \/ Rescan(t) \/ ScanNext(t)
         \/ LockLink(t) \/ UnlockLink(t) \/ NewBlock(t) \/ PoolExhausted(t)
         \/ ClaimPlace(t) \/ FillPlace(t) \/ LinkBlock(t)
         \/ RaiseHigh(t) \/ UnlockSlot(t) \/ ReadWeight(t) \/ WriteWeight(t)
         \/ CheckSmall(t) \/ CheckLarge(t) \/ CompareLarge(t) \/ LockStamp(t) \/ StoreLarge(t) \/ UnlockStamp(t) \/ WriteRecent(t) \/ RestoreFirst(t)
         \/ LockWeight(t) \/ RecheckRemove(t) \/ Uncount(t) \/ ClearSlot(t)
  PROVE  th'[t].pc \notin PlacePcs
<1>1. th \in [Threads -> Locals] /\ th[t] \in Locals BY DEF IInv, TypeOK
<1>2. ASSUME NEW y, Goto(t, y) PROVE th'[t] = y BY <1>1, <1>2 DEF Goto
<1>3. ASSUME NEW p, Move(t, p) PROVE th'[t].pc = p BY <1>1, <1>3, SMT DEF Move, Goto, Locals
<1>4. Idle.pc \notin PlacePcs BY DEF Idle, PlacePcs
<1>5. CASE \E i \in DOMAIN res : Take(t, i)
  <2>1. PICK i \in DOMAIN res : Take(t, i) BY <1>5
  <2>. DEFINE p == IF work[phase][i].kind = "remove" THEN "begin" ELSE "activate"
              y == [Idle EXCEPT !.op = i, !.nw = work[phase][i].weight, !.pc = p]
  <2>2. th' = [th EXCEPT ![t] = y] BY <2>1, Zenon DEF Take
  <2>3. p \notin PlacePcs BY DEF PlacePcs
  <2>4. y.pc = p
    <3>. HIDE DEF p
    <3>. QED BY Zenon DEF Idle
  <2>. HIDE DEF y, p
  <2>. QED BY <1>1, <2>2, <2>3, <2>4
<1>6. CASE ReadActive(t)
  <2>1. CASE Bigger(t) > active
    <3>1. th' = [th EXCEPT ![t] = [th[t] EXCEPT !.sv = active, !.pc = "cas"]]
          BY <1>6, <2>1, Zenon DEF ReadActive, Goto
    <3>2. th'[t].pc = "cas" BY <1>1, <3>1, SMT DEF Locals
    <3>. QED BY <3>2 DEF PlacePcs
  <2>2. CASE ~(Bigger(t) > active)
    <3>1. Move(t, "begin") BY <1>6, <2>2, Zenon DEF ReadActive
    <3>. QED BY <1>3, <3>1 DEF PlacePcs
  <2>. QED BY <2>1, <2>2
<1>7. CASE FindSlot(t)
  <2>1. \/ Move(t, Existing(t))
        \/ Goto(t, [th[t] EXCEPT !.k = @ + 1])
        \/ Move(t, "findnext")
        BY <1>7, Zenon DEF FindSlot
  <2>2. th[t].pc = "findslot" BY <1>7 DEF FindSlot, At
  <2>3. Existing(t) \notin PlacePcs BY <2>2, ExistingPc DEF PlacePcs
  <2>4. CASE Goto(t, [th[t] EXCEPT !.k = @ + 1])
        BY <1>1, <2>2, <2>4, SMT DEF Goto, PlacePcs, Locals
  <2>. QED BY <1>3, <2>1, <2>3, <2>4 DEF PlacePcs
<1>8. CASE FindEnd(t) \/ WriteRecent(t) \/ RecheckRemove(t)
  <2>1. \/ \E r : Goto(t, Idle)
        \/ Move(t, "rescan") \/ Move(t, "restore") \/ Move(t, "uncount")
        BY <1>8, Zenon DEF FindEnd, WriteRecent, RecheckRemove, Finish
  <2>. QED BY <1>2, <1>3, <1>4, <2>1 DEF PlacePcs
<1>9. CASE CasActive(t) BY <1>1, <1>9, SMT DEF CasActive, Goto, Move, PlacePcs, Locals
<1>10. CASE RefuseLoop(t) BY <1>2, <1>4, <1>10 DEF RefuseLoop, Finish
<1>11. CASE EtypeBegin(t) BY <1>1, <1>11, SMT DEF EtypeBegin, EtypeStep, Goto, PlacePcs, Locals
<1>12. CASE EtypeWalk(t) BY <1>1, <1>12, SMT DEF EtypeWalk, EtypeStep, Goto, PlacePcs, Locals
<1>13. CASE FindBlock(t) BY <1>1, <1>13, SMT DEF FindBlock, Goto, PlacePcs, Locals
<1>14. CASE FindNext(t) BY <1>1, <1>14, SMT DEF FindNext, Goto, PlacePcs, Locals
<1>15. CASE Rescan(t) BY <1>1, <1>15, SMT DEF Rescan, ScanFrom, Goto, PlacePcs, Locals
<1>16. CASE ScanNext(t) BY <1>1, <1>16, SMT DEF ScanNext, ScanFrom, Goto, PlacePcs, Locals
<1>17. CASE LockLink(t) BY <1>1, <1>17, SMT DEF LockLink, Goto, PlacePcs, Locals
<1>18. CASE UnlockLink(t) BY <1>1, <1>18, SMT DEF UnlockLink, Goto, Move, PlacePcs, Locals
<1>19. CASE NewBlock(t) BY <1>1, <1>19, SMT DEF NewBlock, Goto, PlacePcs, Locals
<1>20. CASE PoolExhausted(t) BY <1>1, <1>20, SMT DEF PoolExhausted, At, PlacePcs, Locals
<1>21. CASE ClaimPlace(t) BY <1>1, <1>21, SMT DEF ClaimPlace, Goto, PlacePcs, Locals
<1>22. CASE FillPlace(t) BY <1>1, <1>22, SMT DEF FillPlace, Goto, Move, PlacePcs, Locals
<1>23. CASE LinkBlock(t) BY <1>2, <1>4, <1>23 DEF LinkBlock, Finish
<1>24. CASE RaiseHigh(t) BY <1>1, <1>24, SMT DEF RaiseHigh, Goto, Move, PlacePcs, Locals
<1>25. CASE UnlockSlot(t) BY <1>1, <1>25, SMT DEF UnlockSlot, Goto, Move, PlacePcs, Locals
<1>26. CASE ReadWeight(t) BY <1>1, <1>26, SMT DEF ReadWeight, Goto, PlacePcs, Locals
<1>27. CASE WriteWeight(t) BY <1>1, <1>27, SMT DEF WriteWeight, Goto, Move, PlacePcs, Locals
<1>28. CASE CheckSmall(t) \/ CheckLarge(t) \/ CompareLarge(t)
      BY <1>1, <1>28, SMT DEF CheckSmall, CheckLarge, CompareLarge, Goto, Move, PlacePcs, Locals
<1>29. CASE LockStamp(t) BY <1>1, <1>29, SMT DEF LockStamp, Goto, PlacePcs, Locals
<1>30. CASE StoreLarge(t) \/ UnlockStamp(t)
      BY <1>1, <1>30, SMT DEF StoreLarge, UnlockStamp, Goto, Move, PlacePcs, Locals
<1>31. CASE RestoreFirst(t) BY <1>2, <1>4, <1>31 DEF RestoreFirst, Finish
<1>32. CASE LockWeight(t) BY <1>1, <1>32, SMT DEF LockWeight, Goto, PlacePcs, Locals
<1>33. CASE Uncount(t) BY <1>1, <1>33, SMT DEF Uncount, Goto, Move, PlacePcs, Locals
<1>34. CASE ClearSlot(t) BY <1>2, <1>4, <1>34 DEF ClearSlot, Finish
<1>. QED BY <1>5, <1>6, <1>7, <1>8, <1>9, <1>10, <1>11, <1>12, <1>13, <1>14,
            <1>15, <1>16, <1>17, <1>18, <1>19, <1>20, <1>21, <1>22, <1>23,
            <1>24, <1>25, <1>26, <1>27, <1>28, <1>29, <1>30, <1>31, <1>32,
            <1>33, <1>34

(* A step that sets nothing but pc.                                        *)
LEMMA MovedPc ==
  ASSUME th \in [Threads -> Locals], NEW t \in Threads, NEW p, Move(t, p)
  PROVE  /\ th'[t].pc = p /\ th'[t].k = th[t].k /\ th'[t].tmp = th[t].tmp
         /\ th'[t].op = th[t].op /\ th'[t].loc = th[t].loc /\ th'[t].ptr = th[t].ptr
<1>1. th[t] \in Locals OBVIOUS
<1>. QED BY <1>1, SMT DEF Move, Goto, Locals

(* Where a step leaves the thread that takes it.                           *)
LEMMA OwnPlace ==
  ASSUME IInv, Places, NEW t \in Threads, Step(t)
  PROVE  PlaceOK(th[t])'
<1>1. th \in [Threads -> Locals] /\ th[t] \in Locals /\ PlaceOK(th[t])
      BY DEF IInv, TypeOK, Places
<1>2. CASE th'[t].pc \notin PlacePcs BY <1>2 DEF PlaceOK, PlacePcs
<1>. DEFINE x == th[t]
<1>3. ASSUME th[t].pc \in SlotPcs
      PROVE  /\ x.tmp \in Blocks /\ x.k \in Nat /\ eb[x.tmp].high \in Nat
             /\ Slot(t).nbr \in Int
             /\ Fits(x.pc, Op(t).kind, x.tmp, x.k, x.endk, x.sv, x.held)
             /\ x.endk \in Nat /\ x.pc # "idle"
      BY <1>3, AtSlot, Working
<1>4. CASE ScanBlock(t)
  <2>1. th[t].pc = "scan" /\ eb' = eb BY <1>4 DEF ScanBlock, At, edgeVars
  <2>2. th[t].tmp \in Blocks /\ eb[th[t].tmp].high \in Nat
        BY <2>1, Working, AtBlock DEF Fits, BlockPcs
  <2>3. th'[t].k = 0 /\ th'[t].tmp = th[t].tmp /\ th'[t].pc \in {"scannext", "slot"}
        BY <1>1, <1>4, SMT DEF ScanBlock, Goto, Locals
  <2>. QED BY <2>1, <2>2, <2>3 DEF PlaceOK
<1>5. CASE ScanSlot(t)
  <2>1. th[t].pc = "slot" /\ eb' = eb BY <1>5 DEF ScanSlot, At, edgeVars
  <2>2. /\ x.tmp \in Blocks /\ x.k \in Nat /\ eb[x.tmp].high \in Nat
        /\ x.endk <= eb[x.tmp].high /\ x.k <= eb[x.tmp].high /\ x.endk \in Nat
        BY <1>1, <1>3, <2>1 DEF Fits, ScanPcs, SlotPcs, PlaceOK, PlacePcs
  <2>3. /\ th'[t].tmp = x.tmp /\ th'[t].pc \notin {"setnbr", "release"}
        /\ (th'[t].k = x.k) \/ (x.k < x.endk /\ th'[t].k = x.k + 1)
    <3>1. \/ Move(t, Existing(t))
          \/ Move(t, "lockslot")
          \/ x.k < x.endk /\ Goto(t, NextSlot(t))
          BY <1>5, Zenon DEF ScanSlot
    <3>2. Existing(t) \notin {"setnbr", "release"} BY <2>1, ExistingPc
    <3>3. CASE Move(t, Existing(t)) BY <1>1, <3>2, <3>3, MovedPc
    <3>4. CASE Move(t, "lockslot") BY <1>1, <3>4, MovedPc
    <3>5. CASE x.k < x.endk /\ Goto(t, NextSlot(t))
          BY <1>1, <2>1, <3>5, SMT DEF NextSlot, Goto, Locals
    <3>. QED BY <3>1, <3>3, <3>4, <3>5
  <2>. QED BY <2>1, <2>2, <2>3 DEF PlaceOK
<1>6. CASE Recheck(t)
  <2>1. th[t].pc = "recheck" /\ eb' = eb BY <1>6 DEF Recheck, At, edgeVars
  <2>2. x.k <= eb[x.tmp].high BY <1>1, <2>1 DEF PlaceOK, PlacePcs
  <2>3. x.k \in Nat /\ eb[x.tmp].high \in Nat /\ Slot(t).nbr \in Int
        BY <1>3, <2>1 DEF SlotPcs
  <2>4. /\ th'[t].tmp = x.tmp /\ th'[t].k = x.k
        /\ th'[t].pc = "setnbr" => Slot(t).nbr < 0 \/ x.k >= eb[x.tmp].high
        /\ th'[t].pc = "release" => ~(x.k >= eb[x.tmp].high)
    <3>1. Existing(t) \notin {"setnbr", "release"} BY <2>1, ExistingPc
    <3>2. CASE Slot(t).nbr < 0 \/ x.k >= eb[x.tmp].high
          BY <1>1, <1>6, <3>2, SMT DEF Recheck, Goto, Locals
    <3>3. CASE ~(Slot(t).nbr < 0 \/ x.k >= eb[x.tmp].high)
          BY <1>1, <1>6, <3>1, <3>3, SMT DEF Recheck, Goto, Locals
    <3>. QED BY <3>2, <3>3
  <2>5. th'[t].pc = "setnbr" => ~(x.k < eb[x.tmp].high /\ Slot(t).nbr >= 0)
        BY <2>3, <2>4
  <2>6. th'[t].pc = "release" => x.k < eb[x.tmp].high BY <2>3, <2>4
  <2>. QED BY <2>1, <2>2, <2>4, <2>5, <2>6 DEF PlaceOK, Occupied, Slot
<1>7. CASE Release(t)
  <2>1. th[t].pc = "release" BY <1>7 DEF Release, At
  <2>2. /\ x.tmp \in Blocks /\ x.k \in Nat /\ eb[x.tmp].high \in Nat
        /\ x.k < eb[x.tmp].high
        BY <1>1, <1>3, <2>1 DEF SlotPcs, PlaceOK
  <2>3. /\ th'[t].tmp = x.tmp /\ th'[t].pc \in {"slot", "scannext"}
        /\ th'[t].k \in {x.k, x.k + 1}
        BY <1>1, <1>7, SMT DEF Release, NextSlot, Goto, Locals
  <2>4. eb'[x.tmp].high = eb[x.tmp].high BY <1>7, <2>1, <2>2, StoreEdits DEF Edit
  <2>. QED BY <2>2, <2>3, <2>4 DEF PlaceOK
<1>8. CASE LockSlot(t) \/ SetNeighbor(t) \/ CountEdge(t) \/ ResetSmall(t) \/ ResetLarge(t) \/ CountDegrees(t)
  <2>1. th[t].pc \in PlacePcs /\ th[t].pc \in SlotPcs /\ th[t].pc \notin {"release", "high"}
        BY <1>8
           DEF LockSlot, SetNeighbor, CountEdge, ResetSmall, ResetLarge, CountDegrees, At, PlacePcs, SlotPcs
  <2>2. x.tmp \in Blocks /\ x.k <= eb[x.tmp].high BY <1>1, <1>3, <2>1 DEF PlaceOK
  <2>3. /\ th'[t].tmp = x.tmp /\ th'[t].k = x.k
        /\ th'[t].pc \in {"recheck", "count", "onlyedge", "onlylarge", "degrees", "high"}
    <3>1. CASE LockSlot(t) BY <1>1, <3>1, SMT DEF LockSlot, Goto, Locals
    <3>2. CASE CountEdge(t) BY <1>1, <3>2, MovedPc, Zenon DEF CountEdge
    <3>3. CASE SetNeighbor(t) \/ ResetSmall(t) \/ ResetLarge(t) \/ CountDegrees(t)
          BY <1>1, <3>3, MovedPc DEF SetNeighbor, ResetSmall, ResetLarge, CountDegrees
    <3>. QED BY <1>8, <3>1, <3>2, <3>3
  <2>4. Edit(t)
        BY <1>8, StoreEdits, FieldEdits DEF CountDegrees, edgeVars, Edit
  <2>5. eb'[x.tmp].high = eb[x.tmp].high BY <2>1, <2>2, <2>4 DEF Edit
  <2>. QED BY <2>2, <2>3, <2>5 DEF PlaceOK
<1>9. CASE ChangeTotal(t)
  <2>1. th[t].pc = "change" BY <1>9 DEF ChangeTotal, At
  <2>2. Occupied(x.tmp, x.k) /\ x.k \in Nat /\ eb[x.tmp].high \in Nat /\ Slot(t).nbr \in Int
        BY <1>3, <2>1 DEF Fits, SlotPcs
  <2>3. ~(Slot(t).nbr < 0 \/ x.k >= eb[x.tmp].high) BY <2>2 DEF Occupied, Slot
  <2>4. th'[t].pc = "weight"
        BY <1>1, <1>9, <2>3, SMT DEF ChangeTotal, Move, Goto, Locals
  <2>. QED BY <2>4 DEF PlaceOK, PlacePcs
<1>. QED BY <1>1, <1>2, <1>4, <1>5, <1>6, <1>7, <1>8, <1>9, NoPlaceSteps, Zenon DEF Step

(* The places of the other threads stay what they are: filling one, or     *)
(* raising the mark over it, takes its lock.                               *)
LEMMA OtherPlaces ==
  ASSUME IInv, IInv', Places, NEW t \in Threads, NEW u \in Threads, u # t,
         Edit(t), th'[u] = th[u]
  PROVE  PlaceOK(th[u])'
<1>. DEFINE x == th[u]
<1>1. PlaceOK(x) /\ PlaceOK(th[t]) BY DEF Places
<1>. SUFFICES ASSUME x.pc \in PlacePcs PROVE PlaceOK(th[u])'
     BY DEF PlaceOK, PlacePcs
<1>2. /\ x.tmp \in Blocks /\ x.k \in Slots /\ x.k \in Nat
      /\ eb[x.tmp].high \in Nat /\ Slot(u).nbr \in Int
      /\ eb'[x.tmp].edges[x.k].nbr \in Int
  <2>1. /\ x.tmp \in Blocks /\ x.k \in Slots /\ x.k \in Nat
        /\ eb[x.tmp].high \in Nat /\ Slot(u).nbr \in Int
        BY AtSlot DEF SlotPcs, PlacePcs, Slots
  <2>2. eb' \in [Blocks -> EdgeBlock] BY DEF IInv, TypeOK
  <2>. QED BY <2>1, <2>2, SMT DEF EdgeBlock, Edge
<1>3. ASSUME th[t].pc = "high" PROVE th[t].k \in Nat
      BY <1>3, Working
<1>4. eb[x.tmp].high <= eb'[x.tmp].high /\ eb'[x.tmp].high \in Nat
      BY <1>2, <1>3 DEF Edit
<1>5. ASSUME x.pc = "setnbr" PROVE ~(x.k < eb'[x.tmp].high /\ eb'[x.tmp].edges[x.k].nbr >= 0)
  <2>1. ~(x.k < eb[x.tmp].high /\ Slot(u).nbr >= 0) BY <1>1, <1>5 DEF PlaceOK, Occupied, Slot
  <2>2. HoldsSlot(u) BY <1>5 DEF HoldsSlot
  <2>3. HoldsSlot(t) => th[t].tmp # x.tmp \/ th[t].k # x.k
        BY <2>2 DEF IInv, SlotLockExclusive
  <2>4. CASE eb'[x.tmp].high = eb[x.tmp].high
    <3>1. th[t].pc = "setnbr" => HoldsSlot(t) BY DEF HoldsSlot
    <3>2. \/ eb'[x.tmp].edges[x.k].nbr = Slot(u).nbr
          \/ eb'[x.tmp].edges[x.k].nbr < 0
          BY <1>2, <2>3, <3>1 DEF Edit, Slot
    <3>. QED BY <1>2, <2>1, <2>4, <3>2
  <2>5. CASE eb'[x.tmp].high # eb[x.tmp].high
    <3>1. /\ th[t].pc = "high" /\ x.tmp = th[t].tmp /\ eb[x.tmp].high <= th[t].k
          /\ eb'[x.tmp].high = th[t].k + 1
          BY <1>2, <2>5 DEF Edit
    <3>2. th[t].k <= eb[x.tmp].high /\ HoldsSlot(t)
          BY <1>1, <3>1 DEF PlaceOK, PlacePcs, HoldsSlot
    <3>3. th[t].k = eb[x.tmp].high BY <1>2, <1>3, <3>1, <3>2
    <3>4. x.k # th[t].k /\ x.k <= eb[x.tmp].high
          BY <1>1, <2>3, <3>1, <3>2 DEF PlaceOK
    <3>5. x.k < eb[x.tmp].high BY <1>2, <3>3, <3>4
    <3>6. Slot(u).nbr < 0 BY <1>2, <2>1, <3>5
    <3>7. \/ eb'[x.tmp].edges[x.k].nbr = Slot(u).nbr
          \/ eb'[x.tmp].edges[x.k].nbr < 0
          BY <1>2, <3>1 DEF Edit, Slot
    <3>. QED BY <1>2, <3>6, <3>7
  <2>. QED BY <2>4, <2>5
<1>. QED BY <1>1, <1>2, <1>4, <1>5 DEF PlaceOK, Occupied

(* A step moves only the thread that takes it.                             *)
LEMMA OthersRest ==
  ASSUME th \in [Threads -> Locals], NEW t \in Threads, Step(t), NEW u \in Threads, u # t
  PROVE  th'[u] = th[u]
<1>1. ASSUME NEW y, th' = [th EXCEPT ![t] = y] PROVE th'[u] = th[u] BY <1>1
<1>2. \/ th' = th \/ \E y : th' = [th EXCEPT ![t] = y]
  BY Zenon
     DEF Step, Take, ReadActive, CasActive, RefuseLoop, EtypeBegin, EtypeWalk, EtypeStep,
         FindBlock, FindSlot, FindNext, FindEnd, Rescan, ScanFrom, ScanBlock, ScanSlot, ScanNext,
         LockSlot, Recheck, Release, LockLink, UnlockLink, NewBlock, PoolExhausted, ClaimPlace,
         FillPlace, LinkBlock, SetNeighbor, CountEdge, ResetSmall, ResetLarge, CountDegrees, RaiseHigh,
         UnlockSlot, ReadWeight, ChangeTotal, WriteWeight, CheckSmall, CheckLarge, CompareLarge, LockStamp, StoreLarge, UnlockStamp,
         WriteRecent, RestoreFirst, LockWeight, RecheckRemove, Uncount, ClearSlot, Finish, Move,
         Goto, countVars
<1>. QED BY <1>1, <1>2

(* A block that is added holds one edge, in its first slot.                *)
LEMMA BlockAdded ==
  ASSUME IInv, NEW t \in Threads, NewBlock(t)
  PROVE  /\ th[t].pc = "newblock" /\ tail \in Blocks /\ tail + 1 < PoolSize /\ tail' = tail + 1
         /\ eb'[tail] = BlockWith(Op(t)) /\ \A b \in Blocks \ {tail} : eb'[b] = eb[b]
<1>1. /\ th[t].pc = "newblock" /\ tail + 1 < PoolSize /\ tail' = tail + 1
      /\ eb' = [eb EXCEPT ![tail] = BlockWith(Op(t))]
      BY Zenon DEF NewBlock, At
<1>2. tail \in 1..PoolSize /\ eb \in [Blocks -> EdgeBlock] BY DEF IInv, TypeOK
<1>3. tail \in Blocks BY <1>1, <1>2, SizesPositive DEF Blocks
<1>. QED BY <1>1, <1>2, <1>3

(* The tail of the pool only advances.                                     *)
LEMMA TailStep ==
  ASSUME NEW t \in Threads, Step(t)
  PROVE  tail' = tail \/ tail' = tail + 1
BY Zenon
   DEF Step, Take, ReadActive, CasActive, RefuseLoop, EtypeBegin, EtypeWalk, EtypeStep,
       FindBlock, FindSlot, FindNext, FindEnd, Rescan, ScanFrom, ScanBlock, ScanSlot, ScanNext,
       LockSlot, Recheck, Release, LockLink, UnlockLink, NewBlock, PoolExhausted, ClaimPlace,
       FillPlace, LinkBlock, SetNeighbor, CountEdge, ResetSmall, ResetLarge, CountDegrees, RaiseHigh,
       UnlockSlot, ReadWeight, ChangeTotal, WriteWeight, CheckSmall, CheckLarge, CompareLarge, LockStamp, StoreLarge, UnlockStamp,
       WriteRecent, RestoreFirst, LockWeight, RecheckRemove, Uncount, ClearSlot, poolVars

(* What SlotsAreNotOverwritten says of a step.                             *)
KeepsEdges ==
  \A b \in Blocks : \A k \in Slots :
    /\ eb[b].high <= eb'[b].high
    /\ Occupied(b, k) /\ eb'[b].edges[k].nbr # eb[b].edges[k].nbr => eb'[b].edges[k].nbr < 0

LEMMA ThreadKeeps ==
  ASSUME IInv, IInv', Places, NEW t \in Threads, Step(t)
  PROVE  Places' /\ KeepsEdges
<1>1. /\ eb \in [Blocks -> EdgeBlock] /\ th \in [Threads -> Locals] /\ tail \in 1..PoolSize
      BY DEF IInv, TypeOK
<1>2. \A b \in Blocks : eb[b].high \in Nat BY <1>1, BlockTypes
<1>3. \A u \in Threads \ {t} : th'[u] = th[u] BY <1>1, OthersRest
<1>4. PlaceOK(th[t])' BY OwnPlace
<1>5. CASE ~NewBlock(t)
  <2>1. Edit(t) BY <1>5, StepEdits
  <2>2. \A u \in Threads : PlaceOK(th[u])' BY <1>3, <1>4, <2>1, OtherPlaces
  <2>3. ASSUME th[t].pc \in {"high", "setnbr"}
        PROVE  /\ th[t].tmp \in Blocks /\ th[t].tmp < tail /\ th[t].k \in Nat
               /\ th[t].tmp \in Int
        BY <2>3, AtSlot, Working DEF SlotPcs, Blocks
  <2>4. ASSUME NEW b \in Blocks, b >= tail' PROVE eb'[b].high = 0
    <3>1. b >= tail /\ b \in Int /\ tail \in Int BY <1>1, <2>4, TailStep DEF Blocks
    <3>2. eb[b].high = 0 BY <3>1 DEF Places
    <3>3. ~(th[t].pc = "high" /\ b = th[t].tmp) BY <2>3, <3>1
    <3>. QED BY <2>1, <3>2, <3>3 DEF Edit
  <2>5. KeepsEdges
    <3>. SUFFICES ASSUME NEW b \in Blocks, NEW k \in Slots
                  PROVE  /\ eb[b].high <= eb'[b].high
                         /\ Occupied(b, k) /\ eb'[b].edges[k].nbr # eb[b].edges[k].nbr
                              => eb'[b].edges[k].nbr < 0
         BY DEF KeepsEdges
    <3>1. eb[b].high <= eb'[b].high BY <1>2, <2>1, <2>3 DEF Edit
    <3>2. th[t].pc = "setnbr" => ~Occupied(th[t].tmp, th[t].k) BY DEF Places, PlaceOK
    <3>3. Occupied(b, k) /\ eb'[b].edges[k].nbr # eb[b].edges[k].nbr
            => eb'[b].edges[k].nbr < 0
          BY <2>1, <3>2 DEF Edit
    <3>. QED BY <3>1, <3>3
  <2>. QED BY <2>2, <2>4, <2>5 DEF Places
<1>6. CASE NewBlock(t)
  <2>1. /\ tail \in Blocks /\ tail' = tail + 1 /\ \A b \in Blocks \ {tail} : eb'[b] = eb[b]
        /\ eb'[tail] = BlockWith(Op(t)) /\ eb[tail].high = 0
    <3>1. tail >= tail BY <1>1
    <3>. QED BY <1>6, <3>1, BlockAdded DEF Places, Blocks
  <2>2. eb'[tail].high = 1 BY <2>1 DEF BlockWith
  <2>3. ASSUME NEW b \in Blocks, b >= tail' PROVE eb'[b].high = 0
    <3>1. b >= tail /\ b # tail BY <1>1, <2>1, <2>3 DEF Blocks
    <3>. QED BY <2>1, <3>1 DEF Places
  <2>4. ASSUME NEW u \in Threads, u # t PROVE PlaceOK(th[u])'
    <3>1. PlaceOK(th[u]) /\ th'[u] = th[u] BY <1>3, <2>4 DEF Places
    <3>2. ASSUME th[u].pc \in PlacePcs PROVE eb'[th[u].tmp] = eb[th[u].tmp]
      <4>1. th[u].tmp \in Blocks /\ th[u].tmp < tail
            BY <3>2, AtSlot, Working DEF SlotPcs, PlacePcs
      <4>. QED BY <1>1, <2>1, <4>1 DEF Blocks
    <3>. QED BY <3>1, <3>2 DEF PlaceOK, PlacePcs, Occupied
  <2>5. KeepsEdges BY <1>2, <2>1, <2>2 DEF KeepsEdges, Occupied, Slots
  <2>. QED BY <1>4, <2>3, <2>4, <2>5 DEF Places
<1>. QED BY <1>5, <1>6

LEMMA NextKeeps == IInv /\ IInv' /\ Places /\ [Next]_vars => Places' /\ KeepsEdges
<1>. SUFFICES ASSUME IInv, IInv', Places, [Next]_vars PROVE Places' /\ KeepsEdges
     OBVIOUS
<1>1. CASE UNCHANGED <<eb, th, tail>>
  <2>1. \A b \in Blocks : eb[b].high \in Nat BY BlockTypes DEF IInv, TypeOK
  <2>2. Places' BY <1>1 DEF Places, PlaceOK, Occupied
  <2>. QED BY <1>1, <2>1, <2>2 DEF KeepsEdges
<1>2. CASE Barrier BY <1>1, <1>2 DEF Barrier, edgeVars, poolVars
<1>3. CASE Over \/ UNCHANGED vars BY <1>1, <1>3 DEF Over, vars
<1>4. ASSUME NEW t \in Threads, Step(t) PROVE Places' /\ KeepsEdges BY <1>4, ThreadKeeps
<1>. QED BY <1>2, <1>3, <1>4, Zenon DEF Next

LEMMA InitPlaces == Init => Places
BY SizesPositive DEF Init, Places, PlaceOK, PlacePcs, NoBlock, Idle

LEMMA PlacesHold == Spec => []Places
BY Invariance, InitPlaces, NextKeeps, PTL DEF Spec

(* An edge that a scan can see is never overwritten: a slot below the      *)
(* high-water mark changes its neighbor only by being removed, and marks   *)
(* never fall (update_edge_data of stinger.c).                             *)
THEOREM EdgesKept == Spec => SlotsAreNotOverwritten
<1>1. IInv /\ IInv' /\ Places /\ [Next]_vars =>
        [\A b \in Blocks : \A k \in Slots :
           /\ eb[b].high <= eb'[b].high
           /\ Occupied(b, k) /\ eb'[b].edges[k].nbr # eb[b].edges[k].nbr
                => eb'[b].edges[k].nbr < 0]_vars
      BY NextKeeps DEF KeepsEdges
<1>. QED BY <1>1, Invariance, PlacesHold, PTL DEF Spec, SlotsAreNotOverwritten

------------------------------------------------------------------------------
(* The lists of blocks.                                                    *)

EarlyPcs    == {"idle", "activate", "cas", "begin"}
CreatingPcs == {"claim", "push", "link"}
LinkPcs     == {"newblock", "unlink"} \cup CreatingPcs

(* A cell of the list of vertex v; one before block b in it.               *)
Inside(c, v)    == c = HeadOf(v) \/ \E a \in Listed : c = NextOf(a) /\ eb[a].vertex = v
Before(c, b, v) == c = HeadOf(v) \/ \E a \in Listed : c = NextOf(a) /\ a < b /\ eb[a].vertex = v

InList(t) ==
  /\ th[t].pc \notin EarlyPcs => Inside(th[t].loc, Op(t).from)
  /\ th[t].pc \notin EarlyPcs \cup CreatingPcs /\ th[t].tmp # 0 =>
       th[t].tmp \in Listed /\ eb[th[t].tmp].vertex = Op(t).from
  /\ th[t].pc \in LinkPcs \cup {"append"} => Inside(th[t].ptr, Op(t).from)
  /\ th[t].pc \in CreatingPcs =>
       /\ th[t].tmp + 1 < PoolSize
       /\ eb[th[t].tmp].vertex = Op(t).from /\ eb[th[t].tmp].type = Op(t).type
       /\ Before(th[t].ptr, th[t].tmp, Op(t).from)

(* Links are locks, and no block has two creators.                         *)
LinkHeld ==
  /\ \A t \in Threads : th[t].pc \in LinkPcs => link[th[t].ptr] = MARKER
  /\ \A t, u \in Threads :
       th[t].pc \in LinkPcs /\ th[u].pc \in LinkPcs /\ th[t].ptr = th[u].ptr => t = u
  /\ \A t, u \in Threads :
       th[t].pc \in CreatingPcs /\ th[u].pc \in CreatingPcs /\ th[t].tmp = th[u].tmp => t = u

Chained ==
  /\ \A c \in Cells : \A b \in Blocks :
       LeadsTo(c, b) => b \in Listed /\ Before(c, b, eb[b].vertex)
  /\ \A b \in Blocks : \A c, d \in Cells : LeadsTo(c, b) /\ LeadsTo(d, b) => c = d
  /\ \A b \in Listed : \E c \in Cells : LeadsTo(c, b)
  /\ \A b \in Blocks \ Listed : link[NextOf(b)] = 0

Lists ==
  /\ LinkHeld /\ Chained /\ (aborted => tail = PoolSize)
  /\ \A t \in Threads : InList(t)

LEMMA CellNames ==
  /\ \A a, b : NextOf(a) = NextOf(b) => a = b
  /\ \A a, v : NextOf(a) # HeadOf(v)
  /\ \A v, w : HeadOf(v) = HeadOf(w) => v = w
  /\ \A v \in Vertices : HeadOf(v) \in Cells
  /\ \A b \in Blocks : NextOf(b) \in Cells
BY DEF NextOf, HeadOf, Cells

(* Following a cell of a vertex's list leads to a block of it.             *)
LEMMA Follows ==
  ASSUME Chained, NEW c \in Cells, NEW v, Inside(c, v), NEW b \in Blocks, LeadsTo(c, b)
  PROVE  b \in Listed /\ eb[b].vertex = v /\ Inside(NextOf(b), v)
<1>1. b \in Listed /\ Before(c, b, eb[b].vertex) BY DEF Chained
<1>2. eb[b].vertex = v BY <1>1, CellNames DEF Before, Inside
<1>. QED BY <1>1, <1>2 DEF Inside

(* The chains are what they were when no link leads elsewhere.             *)
LEMMA ChainKept ==
  ASSUME Chained, Listed' = Listed, \A b \in Listed : eb'[b].vertex = eb[b].vertex,
         \A c \in Cells : \A b \in Blocks : LeadsTo(c, b)' <=> LeadsTo(c, b),
         \A b \in Blocks \ Listed : link'[NextOf(b)] = 0
  PROVE  Chained'
<1>1. \A c, b, v : Before(c, b, v) => Before(c, b, v)' BY DEF Before
<1>2. \A c \in Cells : \A b \in Blocks :
        LeadsTo(c, b)' => b \in Listed' /\ Before(c, b, eb[b].vertex)'
      BY <1>1 DEF Chained
<1>3. \A b \in Blocks : \A c, d \in Cells : LeadsTo(c, b)' /\ LeadsTo(d, b)' => c = d
      BY DEF Chained
<1>4. Listed \subseteq Blocks BY DEF Listed
<1>5. \A b \in Listed' : \E c \in Cells : LeadsTo(c, b)' BY <1>4 DEF Chained
<1>. QED BY <1>2, <1>3, <1>5 DEF Chained

(* A step that leaves the blocks, the links, and who holds one as they     *)
(* are leaves the lists as they are; LinkBlock adds a block to one.        *)
SameShape ==
  /\ UNCHANGED <<link, tail, aborted>>
  /\ \A b \in Blocks : b < tail => eb'[b].type = eb[b].type /\ eb'[b].vertex = eb[b].vertex

SameLists ==
  /\ Listed' = Listed
  /\ \A c \in Cells : \A b \in Blocks : LeadsTo(c, b)' <=> LeadsTo(c, b)

Enlists(t) ==
  /\ Listed' = Listed \cup {th[t].tmp} /\ th[t].tmp \notin Listed
  /\ \A c \in Cells : \A b \in Blocks :
       LeadsTo(c, b)' <=> (LeadsTo(c, b) \/ (c = th[t].ptr /\ b = th[t].tmp))

SameRole(u) ==
  /\ th'[u].pc \in LinkPcs <=> th[u].pc \in LinkPcs
  /\ th'[u].pc \in CreatingPcs <=> th[u].pc \in CreatingPcs
  /\ th'[u].pc = "unlink" <=> th[u].pc = "unlink"
  /\ th[u].pc \in LinkPcs => th'[u].ptr = th[u].ptr /\ th'[u].tmp = th[u].tmp
                             /\ th'[u].sv = th[u].sv

LEMMA ShapeStays ==
  ASSUME SameShape, \A u \in Threads : SameRole(u)
  PROVE  /\ Listed' = Listed
         /\ \A c \in Cells : \A b \in Blocks : LeadsTo(c, b)' <=> LeadsTo(c, b)
         /\ \A c, v : Inside(c, v) => Inside(c, v)'
         /\ \A c, b, v : Before(c, b, v) => Before(c, b, v)'
         /\ LinkHeld => LinkHeld'
         /\ Chained => Chained'
<1>1. \A b \in Blocks : Private(b)' <=> Private(b)
      BY DEF Private, SameRole, CreatingPcs, LinkPcs
<1>2. Listed' = Listed BY <1>1 DEF Listed, SameShape
<1>3. \A c \in Cells : \A b \in Blocks : LeadsTo(c, b)' <=> LeadsTo(c, b)
      BY DEF LeadsTo, SameShape, SameRole, LinkPcs
<1>4. \A b \in Listed : b \in Blocks /\ eb'[b].vertex = eb[b].vertex
      BY DEF Listed, SameShape
<1>5. \A c, v : Inside(c, v) => Inside(c, v)' BY <1>2, <1>4 DEF Inside
<1>6. \A c, b, v : Before(c, b, v) => Before(c, b, v)' BY <1>2, <1>4 DEF Before
<1>7. LinkHeld => LinkHeld' BY DEF LinkHeld, SameShape, SameRole, LinkPcs
<1>8. ASSUME Chained PROVE Chained'
  <2>1. \A b \in Blocks \ Listed : link'[NextOf(b)] = 0 BY <1>8 DEF Chained, SameShape
  <2>. QED BY <1>2, <1>3, <1>4, <1>8, <2>1, ChainKept
<1>. QED BY <1>2, <1>3, <1>5, <1>6, <1>7, <1>8

(* The thread itself goes on in its list, stands still, or is done.        *)
LEMMA ListStep ==
  ASSUME IInv, Lists, SameShape, NEW t \in Threads, \A u \in Threads \ {t} : th'[u] = th[u],
         SameRole(t), UNCHANGED <<work, phase>>, InList(t)'
  PROVE  Lists' /\ SameLists
<1>1. \A u \in Threads : SameRole(u) BY DEF SameRole
<1>2. /\ Listed' = Listed
      /\ \A c, v : Inside(c, v) => Inside(c, v)'
      /\ \A c, b, v : Before(c, b, v) => Before(c, b, v)'
      /\ LinkHeld' /\ Chained' /\ SameLists
      BY <1>1, ShapeStays DEF Lists, SameLists
<1>3. ASSUME NEW u \in Threads, u # t PROVE InList(u)'
  <2>1. th'[u] = th[u] /\ Op(u)' = Op(u) /\ InList(u) BY <1>3 DEF Op, Lists
  <2>2. th[u].pc \notin EarlyPcs => Inside(th[u].loc, Op(u).from)'
        BY <1>2, <2>1 DEF InList
  <2>3. th[u].pc \in LinkPcs \cup {"append"} => Inside(th[u].ptr, Op(u).from)'
        BY <1>2, <2>1 DEF InList
  <2>4. th[u].pc \notin EarlyPcs \cup CreatingPcs /\ th[u].tmp # 0 =>
          th[u].tmp \in Listed /\ eb'[th[u].tmp].vertex = Op(u).from
        BY <2>1 DEF InList, Listed, SameShape
  <2>5. ASSUME th[u].pc \in CreatingPcs
        PROVE  /\ th[u].tmp + 1 < PoolSize
               /\ eb'[th[u].tmp].vertex = Op(u).from /\ eb'[th[u].tmp].type = Op(u).type
               /\ Before(th[u].ptr, th[u].tmp, Op(u).from)'
    <3>1. th[u].tmp \in Blocks /\ th[u].tmp < tail
          BY <2>5, Working, AtBlock DEF Fits, BlockPcs, CreatingPcs
    <3>. QED BY <1>2, <2>1, <2>5, <3>1 DEF InList, SameShape
  <2>. QED BY <1>2, <2>1, <2>2, <2>3, <2>4, <2>5 DEF InList
<1>. QED BY <1>2, <1>3 DEF Lists, SameShape

(* A thread that goes on inside a block, or from one to the next, and has  *)
(* no link.                                                                *)
WithinPcs == ProgramCounters \ (EarlyPcs \cup LinkPcs)

Within(t) ==
  /\ th[t].pc \in WithinPcs /\ th'[t].pc \in WithinPcs \ {"append"}
  /\ th'[t].op = th[t].op /\ th'[t].loc = th[t].loc /\ th'[t].tmp = th[t].tmp

LEMMA WithinSteps ==
  ASSUME IInv, NEW t \in Threads,
         \/ FindBlock(t) \/ FindSlot(t) \/ (FindEnd(t) /\ Op(t).kind # "remove")
         \/ ScanBlock(t) \/ ScanSlot(t) \/ LockSlot(t) \/ Recheck(t) \/ Release(t)
         \/ SetNeighbor(t) \/ CountEdge(t) \/ ResetSmall(t) \/ ResetLarge(t) \/ CountDegrees(t)
         \/ RaiseHigh(t) \/ UnlockSlot(t) \/ ReadWeight(t) \/ ChangeTotal(t) \/ WriteWeight(t)
         \/ CheckSmall(t) \/ CheckLarge(t) \/ CompareLarge(t) \/ LockStamp(t) \/ StoreLarge(t) \/ UnlockStamp(t)
         \/ (WriteRecent(t) /\ th[t].held) \/ LockWeight(t)
         \/ (RecheckRemove(t) /\ Slot(t).nbr = Op(t).to) \/ Uncount(t)
  PROVE  Within(t)
<1>. USE DEF WithinPcs, ProgramCounters, EarlyPcs, LinkPcs, CreatingPcs
<1>1. th \in [Threads -> Locals] /\ th[t] \in Locals BY DEF IInv, TypeOK
<1>2. ASSUME NEW p \in WithinPcs \ {"append"}, Move(t, p), th[t].pc \in WithinPcs
      PROVE  Within(t)
  <2>1. /\ th'[t].pc = p /\ th'[t].tmp = th[t].tmp /\ th'[t].op = th[t].op
        /\ th'[t].loc = th[t].loc
        BY <1>1, <1>2, MovedPc
  <2>. QED BY <1>2, <2>1 DEF Within
<1>3. CASE FindBlock(t) BY <1>1, <1>3, SMT DEF Within, FindBlock, At, Goto, Locals
<1>4. CASE ScanBlock(t) BY <1>1, <1>4, SMT DEF Within, ScanBlock, At, Goto, Locals
<1>5. CASE LockSlot(t) BY <1>1, <1>5, SMT DEF Within, LockSlot, At, Goto, Locals
<1>6. CASE Release(t) BY <1>1, <1>6, SMT DEF Within, Release, At, Goto, Locals, NextSlot
<1>7. CASE ReadWeight(t) BY <1>1, <1>7, SMT DEF Within, ReadWeight, At, Goto, Locals
<1>8. CASE LockStamp(t) BY <1>1, <1>8, SMT DEF Within, LockStamp, At, Goto, Locals
<1>9. CASE LockWeight(t) BY <1>1, <1>9, SMT DEF Within, LockWeight, At, Goto, Locals
<1>10. CASE FindSlot(t)
  <2>1. /\ th[t].pc = "findslot"
        /\ \/ Move(t, Existing(t))
           \/ Goto(t, [th[t] EXCEPT !.k = @ + 1])
           \/ Move(t, "findnext")
        BY <1>10, Zenon DEF FindSlot, At
  <2>2. Existing(t) \in WithinPcs \ {"append"} BY <2>1, ExistingPc
  <2>3. CASE Goto(t, [th[t] EXCEPT !.k = @ + 1])
        BY <1>1, <2>1, <2>3, SMT DEF Within, Goto, Locals
  <2>. QED BY <1>2, <2>1, <2>2, <2>3
<1>11. CASE ScanSlot(t)
  <2>1. /\ th[t].pc = "slot"
        /\ \/ Move(t, Existing(t))
           \/ Move(t, "lockslot")
           \/ Goto(t, NextSlot(t))
        BY <1>11, Zenon DEF ScanSlot, At
  <2>2. Existing(t) \in WithinPcs \ {"append"} BY <2>1, ExistingPc
  <2>3. CASE Goto(t, NextSlot(t))
        BY <1>1, <2>1, <2>3, SMT DEF Within, NextSlot, Goto, Locals
  <2>. QED BY <1>2, <2>1, <2>2, <2>3
<1>12. CASE Recheck(t)
  <2>1. th[t].pc = "recheck" BY <1>12 DEF Recheck, At
  <2>2. Existing(t) \in WithinPcs \ {"append"} BY <2>1, ExistingPc
  <2>. DEFINE high == eb[th[t].tmp].high
  <2>3. \/ Goto(t, [th[t] EXCEPT !.endk = high, !.rv = 1, !.pc = "setnbr"])
        \/ Goto(t, [th[t] EXCEPT !.endk = high, !.held = TRUE, !.pc = Existing(t)])
        \/ Goto(t, [th[t] EXCEPT !.endk = high, !.pc = "release"])
        BY <1>12, Zenon DEF Recheck
  <2>. HIDE DEF high
  <2>4. CASE Goto(t, [th[t] EXCEPT !.endk = high, !.rv = 1, !.pc = "setnbr"])
        BY <1>1, <2>1, <2>4, SMT DEF Within, Goto, Locals
  <2>5. CASE Goto(t, [th[t] EXCEPT !.endk = high, !.held = TRUE, !.pc = Existing(t)])
        BY <1>1, <2>1, <2>2, <2>5, SMT DEF Within, Goto, Locals
  <2>6. CASE Goto(t, [th[t] EXCEPT !.endk = high, !.pc = "release"])
        BY <1>1, <2>1, <2>6, SMT DEF Within, Goto, Locals
  <2>. QED BY <2>3, <2>4, <2>5, <2>6
<1>13. CASE \/ (FindEnd(t) /\ Op(t).kind # "remove")
           \/ SetNeighbor(t) \/ CountEdge(t) \/ ResetSmall(t) \/ ResetLarge(t) \/ CountDegrees(t) \/ RaiseHigh(t)
           \/ UnlockSlot(t) \/ ChangeTotal(t) \/ WriteWeight(t) \/ CheckSmall(t) \/ CheckLarge(t) \/ CompareLarge(t)
           \/ StoreLarge(t) \/ UnlockStamp(t) \/ (WriteRecent(t) /\ th[t].held)
           \/ (RecheckRemove(t) /\ Slot(t).nbr = Op(t).to) \/ Uncount(t)
  <2>1. \/ Move(t, "rescan") \/ Move(t, "count") \/ Move(t, "onlyedge") \/ Move(t, "degrees")
        \/ Move(t, "high") \/ Move(t, "unlockslot") \/ Move(t, "setnbr") \/ Move(t, "weight")
        \/ Move(t, "stamps") \/ Move(t, "checklarge") \/ Move(t, "lockstamp")
        \/ Move(t, "raise") \/ Move(t, "unlockstamp") \/ Move(t, "recent")
        \/ Move(t, "onlylarge")
        \/ Move(t, "restore") \/ Move(t, "uncount") \/ Move(t, "clear")
        BY <1>13, Zenon
           DEF FindEnd, SetNeighbor, CountEdge, ResetSmall, ResetLarge, CountDegrees, RaiseHigh, UnlockSlot,
               ChangeTotal, WriteWeight, CheckSmall, CheckLarge, CompareLarge, StoreLarge, UnlockStamp, WriteRecent, RecheckRemove,
               Uncount
  <2>2. th[t].pc \in WithinPcs
        BY <1>13
           DEF FindEnd, SetNeighbor, CountEdge, ResetSmall, ResetLarge, CountDegrees, RaiseHigh, UnlockSlot,
               ChangeTotal, WriteWeight, CheckSmall, CheckLarge, CompareLarge, StoreLarge, UnlockStamp, WriteRecent, RecheckRemove,
               Uncount, At
  <2>. QED BY <1>2, <2>1, <2>2
<1>. QED BY <1>3, <1>4, <1>5, <1>6, <1>7, <1>8, <1>9, <1>10, <1>11, <1>12, <1>13

------------------------------------------------------------------------------
(* The steps that leave the shape of the lists as it is.                   *)
LEMMA StoreShape ==
  ASSUME IInv, NEW t \in Threads, Step(t),
         th[t].pc \notin {"append", "unlink", "newblock", "link"}
  PROVE  /\ SameShape /\ UNCHANGED <<work, phase>>
         /\ \A u \in Threads \ {t} : th'[u] = th[u]
<1>1. /\ UNCHANGED <<link, tail, aborted, work, phase>> /\ ~NewBlock(t)
  <2>1. ~LockLink(t) /\ ~UnlockLink(t) /\ ~NewBlock(t) /\ ~PoolExhausted(t) /\ ~LinkBlock(t)
        BY DEF LockLink, UnlockLink, NewBlock, PoolExhausted, LinkBlock, At
  <2>. QED BY <2>1, Zenon
           DEF Step, Take, ReadActive, CasActive, RefuseLoop, EtypeBegin, EtypeWalk, EtypeStep,
               FindBlock, FindSlot, FindNext, FindEnd, Rescan, ScanFrom, ScanBlock, ScanSlot,
               ScanNext, LockSlot, Recheck, Release, ClaimPlace, FillPlace, SetNeighbor,
               CountEdge, ResetSmall, ResetLarge, CountDegrees, RaiseHigh, UnlockSlot, ReadWeight,
               ChangeTotal, WriteWeight, CheckSmall, CheckLarge, CompareLarge, LockStamp, StoreLarge, UnlockStamp, WriteRecent,
               RestoreFirst, LockWeight, RecheckRemove, Uncount, ClearSlot, poolVars, countVars,
               batchVars, edgeVars
<1>2. Edit(t) BY <1>1, StepEdits
<1>3. \A u \in Threads \ {t} : th'[u] = th[u] BY OthersRest DEF IInv, TypeOK
<1>. QED BY <1>1, <1>2, <1>3 DEF SameShape, Edit

LEMMA StepWithin ==
  ASSUME IInv, Lists, NEW t \in Threads, Step(t), Within(t), th[t].pc # "append"
  PROVE  Lists' /\ SameLists
<1>. USE DEF WithinPcs, EarlyPcs, LinkPcs, CreatingPcs
<1>1. /\ SameShape /\ UNCHANGED <<work, phase>> /\ \A u \in Threads \ {t} : th'[u] = th[u]
      BY StoreShape DEF Within
<1>2. SameRole(t) /\ \A u \in Threads : SameRole(u) BY <1>1 DEF Within, SameRole
<1>3. /\ Listed' = Listed /\ \A c, v : Inside(c, v) => Inside(c, v)'
      BY <1>1, <1>2, ShapeStays
<1>4. InList(t) /\ Op(t)' = Op(t) BY <1>1 DEF Lists, Op, Within
<1>5. Inside(th[t].loc, Op(t).from)' BY <1>3, <1>4 DEF Within, InList
<1>6. th'[t].tmp # 0 => th'[t].tmp \in Listed' /\ eb'[th'[t].tmp].vertex = Op(t).from
      BY <1>1, <1>3, <1>4 DEF Within, InList, Listed, SameShape
<1>7. InList(t)' BY <1>4, <1>5, <1>6 DEF InList, Within
<1>. QED BY <1>1, <1>2, <1>7, ListStep

(* A thread that has not begun to follow a list, or is done with it.       *)
LEMMA StepEarly ==
  ASSUME IInv, Lists, NEW t \in Threads, Step(t), th'[t].pc \in EarlyPcs,
         th[t].pc \notin {"append"} \cup LinkPcs
  PROVE  Lists' /\ SameLists
<1>. USE DEF EarlyPcs, LinkPcs, CreatingPcs
<1>1. /\ SameShape /\ UNCHANGED <<work, phase>> /\ \A u \in Threads \ {t} : th'[u] = th[u]
      BY StoreShape
<1>2. SameRole(t) BY DEF SameRole
<1>3. InList(t)' BY DEF InList
<1>. QED BY <1>1, <1>2, <1>3, ListStep

(* A thread that follows cell c of its list.                               *)
LEMMA StepFollows ==
  ASSUME IInv, Lists, NEW t \in Threads, Step(t), th[t].pc \in WithinPcs \cup {"begin"},
         th[t].pc # "append", NEW c \in Cells, Inside(c, Op(t).from), link[c] # MARKER,
         th'[t].pc \in WithinPcs, th'[t].op = th[t].op, th'[t].tmp = link[c],
         th'[t].loc = c \/ (th[t].pc # "begin" /\ th'[t].loc = th[t].loc),
         th'[t].pc = "append" => th'[t].ptr = c
  PROVE  Lists' /\ SameLists
<1>. USE DEF WithinPcs, EarlyPcs, LinkPcs, CreatingPcs
<1>1. /\ SameShape /\ UNCHANGED <<work, phase>> /\ \A u \in Threads \ {t} : th'[u] = th[u]
      BY StoreShape
<1>2. SameRole(t) /\ \A u \in Threads : SameRole(u) BY <1>1 DEF SameRole
<1>3. /\ Listed' = Listed /\ \A d, v : Inside(d, v) => Inside(d, v)'
      BY <1>1, <1>2, ShapeStays
<1>4. InList(t) /\ Op(t)' = Op(t) BY <1>1 DEF Lists, Op
<1>5. Inside(th[t].loc, Op(t).from)' BY <1>3, <1>4 DEF InList
<1>6. th'[t].tmp # 0 => th'[t].tmp \in Listed' /\ eb'[th'[t].tmp].vertex = Op(t).from
  <2>. SUFFICES ASSUME link[c] # 0
                PROVE  link[c] \in Listed /\ eb'[link[c]].vertex = Op(t).from
       BY <1>3
  <2>1. link[c] \in Blocks BY SizesPositive DEF IInv, TypeOK, Blocks
  <2>2. link[c] \in Listed /\ eb[link[c]].vertex = Op(t).from
        BY <2>1, Follows DEF LeadsTo, Lists
  <2>. QED BY <1>1, <2>2 DEF SameShape, Listed
<1>7. InList(t)' BY <1>3, <1>4, <1>5, <1>6 DEF InList
<1>. QED BY <1>1, <1>2, <1>7, ListStep

(* A thread that publishes the block it has made.                          *)
LEMMA StepCreates ==
  ASSUME IInv, Lists, NEW t \in Threads, Step(t), th[t].pc \in {"claim", "push"},
         th'[t].pc \in CreatingPcs, th'[t].op = th[t].op, th'[t].tmp = th[t].tmp,
         th'[t].ptr = th[t].ptr, th'[t].loc = th[t].loc, th'[t].sv = th[t].sv
  PROVE  Lists' /\ SameLists
<1>. USE DEF EarlyPcs, LinkPcs, CreatingPcs
<1>1. /\ SameShape /\ UNCHANGED <<work, phase>> /\ \A u \in Threads \ {t} : th'[u] = th[u]
      BY StoreShape
<1>2. SameRole(t) /\ \A u \in Threads : SameRole(u) BY <1>1 DEF SameRole
<1>3. /\ \A d, v : Inside(d, v) => Inside(d, v)'
      /\ \A d, b, v : Before(d, b, v) => Before(d, b, v)'
      BY <1>1, <1>2, ShapeStays
<1>4. InList(t) /\ Op(t)' = Op(t) BY <1>1 DEF Lists, Op
<1>5. th[t].tmp \in Blocks BY AtBlock, Working DEF Fits, BlockPcs
<1>6. eb'[th[t].tmp].type = eb[th[t].tmp].type /\ eb'[th[t].tmp].vertex = eb[th[t].tmp].vertex
  <2>1. Edit(t) BY StepEdits DEF NewBlock, At
  <2>. QED BY <1>5, <2>1 DEF Edit
<1>7. InList(t)' BY <1>3, <1>4, <1>6 DEF InList
<1>. QED BY <1>1, <1>2, <1>7, ListStep

------------------------------------------------------------------------------
(* The steps that change a link, or the pool.                              *)

(* The other threads stay in their lists when lists only grow.             *)
LEMMA OthersInList ==
  ASSUME IInv, NEW u \in Threads, InList(u), th'[u] = th[u], UNCHANGED <<work, phase>>,
         Listed \subseteq Listed',
         \A b \in Blocks : b < tail => eb'[b].type = eb[b].type /\ eb'[b].vertex = eb[b].vertex
  PROVE  InList(u)'
<1>1. Op(u)' = Op(u) BY DEF Op
<1>2. \A b \in Listed : b \in Listed' /\ eb'[b].vertex = eb[b].vertex BY DEF Listed
<1>3. \A c, v : Inside(c, v) => Inside(c, v)' BY <1>2 DEF Inside
<1>4. \A c, b, v : Before(c, b, v) => Before(c, b, v)' BY <1>2 DEF Before
<1>5. th[u].pc \notin EarlyPcs => Inside(th[u].loc, Op(u).from)'
      BY <1>1, <1>3 DEF InList
<1>6. th[u].pc \in LinkPcs \cup {"append"} => Inside(th[u].ptr, Op(u).from)'
      BY <1>1, <1>3 DEF InList
<1>7. th[u].pc \notin EarlyPcs \cup CreatingPcs /\ th[u].tmp # 0 =>
        th[u].tmp \in Listed' /\ eb'[th[u].tmp].vertex = Op(u).from
      BY <1>2 DEF InList
<1>8. ASSUME th[u].pc \in CreatingPcs
      PROVE  /\ th[u].tmp + 1 < PoolSize
             /\ eb'[th[u].tmp].vertex = Op(u).from /\ eb'[th[u].tmp].type = Op(u).type
             /\ Before(th[u].ptr, th[u].tmp, Op(u).from)'
  <2>1. th[u].tmp \in Blocks /\ th[u].tmp < tail
        BY <1>8, Working, AtBlock DEF Fits, BlockPcs, CreatingPcs
  <2>. QED BY <1>1, <1>4, <1>8, <2>1 DEF InList
<1>. QED BY <1>1, <1>5, <1>6, <1>7, <1>8 DEF InList

(* A cell of a list is not the next field of a block in none.              *)
LEMMA InsideListed ==
  ASSUME NEW c, NEW v, Inside(c, v), NEW b, b \notin Listed
  PROVE  c # NextOf(b)
BY CellNames DEF Inside

LEMMA StepLocks ==
  ASSUME IInv, Lists, NEW t \in Threads, LockLink(t)
  PROVE  Lists' /\ SameLists
<1>. USE DEF EarlyPcs, LinkPcs, CreatingPcs
<1>. DEFINE p == th[t].ptr
<1>1. /\ th \in [Threads -> Locals] /\ th[t] \in Locals /\ p \in Cells
      /\ link \in [Cells -> {MARKER} \cup 0..PoolSize-1]
      BY FieldTypes DEF IInv, TypeOK
<1>2. /\ th[t].pc = "append" /\ link[p] # MARKER /\ link' = [link EXCEPT ![p] = MARKER]
      /\ UNCHANGED <<work, phase, eb, tail, aborted>>
      /\ th' = [th EXCEPT ![t] = [th[t] EXCEPT !.sv = link[p],
                   !.pc = IF link[p] = 0 THEN "newblock" ELSE "unlink"]]
      BY Zenon DEF LockLink, At, Goto, batchVars, poolVars, countVars
<1>3. /\ th'[t].pc = IF link[p] = 0 THEN "newblock" ELSE "unlink"
      /\ th'[t].ptr = p /\ th'[t].sv = link[p] /\ th'[t].tmp = th[t].tmp
      /\ th'[t].op = th[t].op /\ th'[t].loc = th[t].loc
      BY <1>1, <1>2, SMT DEF Locals
<1>4. \A u \in Threads \ {t} : th'[u] = th[u] BY <1>1, <1>2
<1>. HIDE DEF p
<1>5. Listed' = Listed
  <2>1. \A b \in Blocks : Private(b)' <=> Private(b) BY <1>2, <1>3, <1>4 DEF Private
  <2>. QED BY <1>2, <2>1 DEF Listed
<1>6. \A c \in Cells : link'[c] = IF c = p THEN MARKER ELSE link[c] BY <1>1, <1>2
<1>7. \A u \in Threads : th[u].pc \in LinkPcs => th[u].ptr # p BY <1>2 DEF Lists, LinkHeld
<1>8. ASSUME NEW c \in Cells, NEW b \in Blocks PROVE LeadsTo(c, b)' <=> LeadsTo(c, b)
  <2>1. b # MARKER /\ b # 0 BY SizesPositive DEF Blocks, MARKER
  <2>2. CASE c # p BY <1>2, <1>3, <1>4, <1>6, <1>8, <2>2 DEF LeadsTo
  <2>3. CASE c = p
    <3>1. LeadsTo(c, b) <=> link[p] = b BY <1>7, <2>3 DEF LeadsTo
    <3>2. LeadsTo(c, b)' <=> link[p] = b
          BY <1>2, <1>3, <1>4, <1>6, <1>7, <1>8, <2>1, <2>3 DEF LeadsTo
    <3>. QED BY <3>1, <3>2
  <2>. QED BY <2>2, <2>3
<1>9. InList(t) /\ Inside(p, Op(t).from) /\ Op(t)' = Op(t)
      BY <1>2, <1>3 DEF Lists, InList, Op, p
<1>10. LinkHeld'
  <2>1. \A u \in Threads : th'[u].pc \in LinkPcs => link'[th'[u].ptr] = MARKER
    <3>1. \A u \in Threads \ {t} : th[u].pc \in LinkPcs => th[u].ptr \in Cells
          BY FieldTypes DEF IInv, TypeOK
    <3>. QED BY <1>1, <1>3, <1>4, <1>6, <1>7, <3>1 DEF Lists, LinkHeld
  <2>2. \A u, w \in Threads :
          th'[u].pc \in LinkPcs /\ th'[w].pc \in LinkPcs /\ th'[u].ptr = th'[w].ptr => u = w
        BY <1>3, <1>4, <1>7 DEF Lists, LinkHeld
  <2>3. \A u, w \in Threads :
          th'[u].pc \in CreatingPcs /\ th'[w].pc \in CreatingPcs /\ th'[u].tmp = th'[w].tmp
            => u = w
        BY <1>2, <1>3, <1>4 DEF Lists, LinkHeld
  <2>. QED BY <2>1, <2>2, <2>3 DEF LinkHeld
<1>11. Chained'
  <2>1. \A b \in Blocks \ Listed : link'[NextOf(b)] = 0
        BY <1>6, <1>9, CellNames, InsideListed DEF Lists, Chained
  <2>. QED BY <1>2, <1>5, <1>8, <2>1, ChainKept DEF Lists
<1>12. ASSUME NEW u \in Threads PROVE InList(u)'
  <2>1. CASE u # t BY <1>2, <1>4, <1>5, <2>1, OthersInList DEF Lists
  <2>2. CASE u = t
    <3>1. \A c, v : Inside(c, v)' <=> Inside(c, v) BY <1>2, <1>5 DEF Inside
    <3>. QED BY <1>2, <1>3, <1>5, <1>9, <2>2, <3>1 DEF InList
  <2>. QED BY <2>1, <2>2
<1>. QED BY <1>2, <1>5, <1>8, <1>10, <1>11, <1>12 DEF Lists, SameLists

LEMMA StepUnlocks ==
  ASSUME IInv, Lists, NEW t \in Threads, UnlockLink(t)
  PROVE  Lists' /\ SameLists
<1>. USE DEF EarlyPcs, LinkPcs, CreatingPcs
<1>. DEFINE p == th[t].ptr
<1>1. /\ th \in [Threads -> Locals] /\ th[t] \in Locals /\ p \in Cells
      /\ link \in [Cells -> {MARKER} \cup 0..PoolSize-1]
      BY FieldTypes DEF IInv, TypeOK
<1>2. /\ th[t].pc = "unlink" /\ link[p] = MARKER /\ link' = [link EXCEPT ![p] = th[t].sv]
      /\ UNCHANGED <<work, phase, eb, tail, aborted>> /\ Move(t, "rescan")
      BY Zenon DEF UnlockLink, At, batchVars, poolVars, countVars
<1>3. /\ th'[t].pc = "rescan" /\ th'[t].tmp = th[t].tmp /\ th'[t].op = th[t].op
      /\ th'[t].loc = th[t].loc
      BY <1>1, <1>2, MovedPc
<1>4. \A u \in Threads \ {t} : th'[u] = th[u] BY <1>1, <1>2 DEF Move, Goto
<1>. HIDE DEF p
<1>5. Listed' = Listed
  <2>1. \A b \in Blocks : Private(b)' <=> Private(b) BY <1>2, <1>3, <1>4 DEF Private
  <2>. QED BY <1>2, <2>1 DEF Listed
<1>6. \A c \in Cells : link'[c] = IF c = p THEN th[t].sv ELSE link[c] BY <1>1, <1>2
<1>7. \A u \in Threads \ {t} : th[u].pc \in LinkPcs => th[u].ptr # p
      BY <1>2 DEF Lists, LinkHeld, p
<1>8. ASSUME NEW c \in Cells, NEW b \in Blocks PROVE LeadsTo(c, b)' <=> LeadsTo(c, b)
  <2>1. b # MARKER BY SizesPositive DEF Blocks, MARKER
  <2>2. CASE c # p BY <1>2, <1>3, <1>4, <1>6, <1>8, <2>2 DEF LeadsTo, p
  <2>3. CASE c = p
    <3>1. LeadsTo(c, b) <=> th[t].sv = b BY <1>2, <1>7, <2>1, <2>3 DEF LeadsTo, p
    <3>2. LeadsTo(c, b)' <=> th[t].sv = b
          BY <1>3, <1>4, <1>6, <1>7, <1>8, <2>3 DEF LeadsTo
    <3>. QED BY <3>1, <3>2
  <2>. QED BY <2>2, <2>3
<1>9. InList(t) /\ Inside(p, Op(t).from) /\ Op(t)' = Op(t)
      BY <1>2, <1>3 DEF Lists, InList, Op, p
<1>10. LinkHeld'
  <2>1. ASSUME NEW u \in Threads, th'[u].pc \in LinkPcs PROVE link'[th'[u].ptr] = MARKER
    <3>1. u # t /\ th'[u] = th[u] BY <1>3, <1>4, <2>1
    <3>2. th[u].ptr \in Cells BY FieldTypes DEF IInv, TypeOK
    <3>. QED BY <1>6, <1>7, <2>1, <3>1, <3>2 DEF Lists, LinkHeld
  <2>2. \A u, w \in Threads :
          th'[u].pc \in LinkPcs /\ th'[w].pc \in LinkPcs /\ th'[u].ptr = th'[w].ptr => u = w
        BY <1>3, <1>4 DEF Lists, LinkHeld
  <2>3. \A u, w \in Threads :
          th'[u].pc \in CreatingPcs /\ th'[w].pc \in CreatingPcs /\ th'[u].tmp = th'[w].tmp
            => u = w
        BY <1>3, <1>4 DEF Lists, LinkHeld
  <2>. QED BY <2>1, <2>2, <2>3 DEF LinkHeld
<1>11. Chained'
  <2>1. \A b \in Blocks \ Listed : link'[NextOf(b)] = 0
        BY <1>6, <1>9, CellNames, InsideListed DEF Lists, Chained
  <2>. QED BY <1>2, <1>5, <1>8, <2>1, ChainKept DEF Lists
<1>12. ASSUME NEW u \in Threads PROVE InList(u)'
  <2>1. CASE u # t BY <1>2, <1>4, <1>5, <2>1, OthersInList DEF Lists
  <2>2. CASE u = t
    <3>1. \A c, v : Inside(c, v)' <=> Inside(c, v) BY <1>2, <1>5 DEF Inside
    <3>. QED BY <1>2, <1>3, <1>5, <1>9, <2>2, <3>1 DEF InList
  <2>. QED BY <2>1, <2>2
<1>. QED BY <1>2, <1>5, <1>8, <1>10, <1>11, <1>12 DEF Lists, SameLists

(* A new block is private: it is in no list, and no link leads to it.      *)
LEMMA StepAdds ==
  ASSUME IInv, Lists, NEW t \in Threads, NewBlock(t)
  PROVE  Lists' /\ SameLists
<1>. USE DEF EarlyPcs, LinkPcs, CreatingPcs
<1>. DEFINE p == th[t].ptr
<1>1. /\ th \in [Threads -> Locals] /\ th[t] \in Locals /\ p \in Cells
      /\ link \in [Cells -> {MARKER} \cup 0..PoolSize-1] /\ tail \in 1..PoolSize
      BY FieldTypes DEF IInv, TypeOK
<1>2. /\ th[t].pc = "newblock" /\ tail + 1 < PoolSize /\ tail' = tail + 1
      /\ link' = [link EXCEPT ![NextOf(tail)] = 0]
      /\ UNCHANGED <<work, phase, aborted>>
      /\ th' = [th EXCEPT ![t] = [th[t] EXCEPT !.tmp = tail, !.pc = "claim"]]
      BY Zenon DEF NewBlock, At, Goto, batchVars
<1>3. /\ tail \in Blocks /\ eb'[tail] = BlockWith(Op(t))
      /\ \A b \in Blocks \ {tail} : eb'[b] = eb[b]
      BY BlockAdded
<1>4. /\ th'[t].pc = "claim" /\ th'[t].tmp = tail /\ th'[t].op = th[t].op
      /\ th'[t].ptr = p /\ th'[t].loc = th[t].loc
      BY <1>1, <1>2, SMT DEF Locals
<1>5. \A u \in Threads \ {t} : th'[u] = th[u] BY <1>1, <1>2
<1>6. ASSUME NEW u \in Threads, th[u].pc \in CreatingPcs PROVE th[u].tmp # tail
      BY <1>1, <1>6, Working
<1>. HIDE DEF p
<1>7. tail \notin Listed BY <1>1 DEF Listed
<1>8. link' = link
  <2>1. link[NextOf(tail)] = 0 BY <1>3, <1>7 DEF Lists, Chained
  <2>. QED BY <1>1, <1>2, <2>1
<1>9. Listed' = Listed
  <2>1. ASSUME NEW b \in Blocks, b # tail PROVE b \in Listed' <=> b \in Listed
    <3>1. Private(b)' <=> Private(b)
      <4>1. ASSUME NEW u \in Threads
            PROVE  (th'[u].pc \in CreatingPcs /\ th'[u].tmp = b)
                     <=> (th[u].pc \in CreatingPcs /\ th[u].tmp = b)
            BY <1>2, <1>4, <1>5, <2>1
      <4>. QED BY <4>1 DEF Private
    <3>2. tail' = tail + 1 /\ (b < tail + 1 <=> b < tail) BY <1>1, <1>2, <2>1 DEF Blocks
    <3>. QED BY <3>1, <3>2 DEF Listed
  <2>2. tail \notin Listed' BY <1>4 DEF Private, Listed
  <2>3. Listed \subseteq Blocks /\ Listed' \subseteq Blocks BY DEF Listed
  <2>. QED BY <1>7, <2>1, <2>2, <2>3
<1>10. \A c \in Cells : \A b \in Blocks : LeadsTo(c, b)' <=> LeadsTo(c, b)
       BY <1>2, <1>4, <1>5, <1>8 DEF LeadsTo
<1>11. \A b \in Blocks : b < tail => eb'[b] = eb[b]
  <2>1. \A b \in Blocks : b < tail => b # tail BY <1>1 DEF Blocks
  <2>. QED BY <1>3, <2>1
<1>12. \A b \in Listed : b \in Blocks /\ b < tail /\ eb'[b] = eb[b] BY <1>11 DEF Listed
<1>13. InList(t) /\ Inside(p, Op(t).from) /\ Op(t)' = Op(t)
       BY <1>2, <1>4 DEF Lists, InList, Op, p
<1>14. LinkHeld'
  <2>1. \A u \in Threads : th'[u].pc \in LinkPcs => link'[th'[u].ptr] = MARKER
        BY <1>2, <1>4, <1>5, <1>8 DEF Lists, LinkHeld, p
  <2>2. \A u, w \in Threads :
          th'[u].pc \in LinkPcs /\ th'[w].pc \in LinkPcs /\ th'[u].ptr = th'[w].ptr => u = w
        BY <1>2, <1>4, <1>5 DEF Lists, LinkHeld, p
  <2>3. \A u, w \in Threads :
          th'[u].pc \in CreatingPcs /\ th'[w].pc \in CreatingPcs /\ th'[u].tmp = th'[w].tmp
            => u = w
        BY <1>4, <1>5, <1>6 DEF Lists, LinkHeld
  <2>. QED BY <2>1, <2>2, <2>3 DEF LinkHeld
<1>15. Chained'
  <2>1. \A b \in Blocks \ Listed : link'[NextOf(b)] = 0 BY <1>8 DEF Lists, Chained
  <2>. QED BY <1>9, <1>10, <1>12, <2>1, ChainKept DEF Lists
<1>16. InList(t)'
  <2>1. \A c, v : Inside(c, v) => Inside(c, v)' BY <1>9, <1>12 DEF Inside
  <2>2. eb'[tail].vertex = Op(t).from /\ eb'[tail].type = Op(t).type BY <1>3 DEF BlockWith
  <2>3. Before(p, tail, Op(t).from) BY <1>12, <1>13 DEF Inside, Before
  <2>4. \A c, b, v : Before(c, b, v) => Before(c, b, v)' BY <1>9, <1>12 DEF Before
  <2>5. /\ Inside(th[t].loc, Op(t).from)' /\ Inside(th[t].ptr, Op(t).from)'
        /\ Before(th[t].ptr, th[t].tmp, Op(t).from)'
    <3>1. Inside(th[t].loc, Op(t).from) BY <1>2, <1>13 DEF InList
    <3>. QED BY <1>4, <1>13, <2>1, <2>3, <2>4, <3>1
  <2>. QED BY <1>2, <1>4, <1>13, <2>2, <2>5 DEF InList
<1>17. ASSUME NEW u \in Threads PROVE InList(u)'
  <2>1. CASE u # t BY <1>2, <1>5, <1>9, <1>11, <2>1, OthersInList DEF Lists
  <2>2. CASE u = t BY <1>16, <2>2
  <2>. QED BY <2>1, <2>2
<1>18. ~aborted' BY <1>2 DEF NewBlock, At
<1>. QED BY <1>9, <1>10, <1>14, <1>15, <1>17, <1>18 DEF Lists, SameLists

(* A block enters its list, once, after the block its creator has locked.  *)
LEMMA StepLinks ==
  ASSUME IInv, Lists, NEW t \in Threads, LinkBlock(t)
  PROVE  Lists' /\ Enlists(t)
<1>. USE DEF EarlyPcs, LinkPcs, CreatingPcs
<1>. SUFFICES ASSUME NEW p, NEW n, p = th[t].ptr, n = th[t].tmp PROVE Lists' /\ Enlists(t)
     OBVIOUS
<1>1. /\ th \in [Threads -> Locals] /\ th[t] \in Locals /\ p \in Cells
      /\ link \in [Cells -> {MARKER} \cup 0..PoolSize-1] /\ tail \in 1..PoolSize
      BY FieldTypes DEF IInv, TypeOK
<1>2. /\ th[t].pc = "link" /\ link[p] = MARKER /\ link' = [link EXCEPT ![p] = n]
      /\ UNCHANGED <<work, phase, eb, tail, aborted>> /\ th' = [th EXCEPT ![t] = Idle]
      BY Zenon DEF LinkBlock, At, Finish, Goto, batchVars, poolVars, countVars
<1>3. th'[t].pc = "idle" BY <1>1, <1>2 DEF Idle
<1>4. \A u \in Threads \ {t} : th'[u] = th[u] BY <1>1, <1>2
<1>5. n \in Blocks /\ n < tail BY <1>2, Working, AtBlock DEF Fits, BlockPcs
<1>6. /\ n + 1 < PoolSize /\ eb[n].vertex = Op(t).from
      /\ Inside(p, Op(t).from) /\ Before(p, n, Op(t).from)
      BY <1>2 DEF Lists, InList
<1>7. /\ \A u \in Threads \ {t} : th[u].pc \in LinkPcs => th[u].ptr # p
      /\ \A u \in Threads \ {t} : th[u].pc \in CreatingPcs => th[u].tmp # n
      BY <1>2 DEF Lists, LinkHeld
<1>8. Private(n) BY <1>2 DEF Private
<1>9. Listed' = Listed \cup {n}
  <2>1. ASSUME NEW b \in Blocks, b # n PROVE b \in Listed' <=> b \in Listed
    <3>1. Private(b)' <=> Private(b)
      <4>1. ASSUME NEW u \in Threads
            PROVE  (th'[u].pc \in CreatingPcs /\ th'[u].tmp = b)
                     <=> (th[u].pc \in CreatingPcs /\ th[u].tmp = b)
            BY <1>2, <1>3, <1>4, <2>1
      <4>. QED BY <4>1 DEF Private
    <3>. QED BY <1>2, <3>1 DEF Listed
  <2>2. n \in Listed'
    <3>1. ~Private(n)' BY <1>3, <1>4, <1>7 DEF Private
    <3>. QED BY <1>2, <1>5, <1>6, <3>1 DEF Listed
  <2>3. Listed \subseteq Blocks /\ Listed' \subseteq Blocks BY DEF Listed
  <2>. QED BY <1>5, <2>1, <2>2, <2>3
<1>10. n \notin Listed BY <1>8 DEF Listed
<1>11. \A c \in Cells : link'[c] = IF c = p THEN n ELSE link[c] BY <1>1, <1>2
<1>12. ASSUME NEW c \in Cells, NEW b \in Blocks
       PROVE  LeadsTo(c, b)' <=> (LeadsTo(c, b) \/ (c = p /\ b = n))
  <2>1. b # MARKER BY SizesPositive DEF Blocks, MARKER
  <2>2. CASE c # p BY <1>2, <1>3, <1>4, <1>11, <1>12, <2>2 DEF LeadsTo
  <2>3. CASE c = p
    <3>1. ~LeadsTo(c, b) BY <1>2, <1>7, <2>1, <2>3 DEF LeadsTo
    <3>2. LeadsTo(c, b)' <=> b = n
          BY <1>3, <1>4, <1>7, <1>11, <1>12, <2>3 DEF LeadsTo
    <3>. QED BY <2>3, <3>1, <3>2
  <2>. QED BY <2>2, <2>3
<1>13. LinkHeld'
  <2>1. ASSUME NEW u \in Threads, th'[u].pc \in LinkPcs PROVE link'[th'[u].ptr] = MARKER
    <3>1. u # t /\ th'[u] = th[u] BY <1>3, <1>4, <2>1
    <3>2. th[u].ptr \in Cells BY FieldTypes DEF IInv, TypeOK
    <3>. QED BY <1>7, <1>11, <2>1, <3>1, <3>2 DEF Lists, LinkHeld
  <2>2. \A u, w \in Threads :
          th'[u].pc \in LinkPcs /\ th'[w].pc \in LinkPcs /\ th'[u].ptr = th'[w].ptr => u = w
        BY <1>3, <1>4 DEF Lists, LinkHeld
  <2>3. \A u, w \in Threads :
          th'[u].pc \in CreatingPcs /\ th'[w].pc \in CreatingPcs /\ th'[u].tmp = th'[w].tmp
            => u = w
        BY <1>3, <1>4 DEF Lists, LinkHeld
  <2>. QED BY <2>1, <2>2, <2>3 DEF LinkHeld
<1>14. \A c, b, v : Before(c, b, v) => Before(c, b, v)' BY <1>2, <1>9 DEF Before
<1>15. Chained'
  <2>1. ASSUME NEW c \in Cells, NEW b \in Blocks, LeadsTo(c, b)'
        PROVE  b \in Listed' /\ Before(c, b, eb[b].vertex)'
    <3>1. CASE LeadsTo(c, b)
      <4>1. b \in Listed /\ Before(c, b, eb[b].vertex) BY <3>1 DEF Lists, Chained
      <4>. QED BY <1>2, <1>9, <1>14, <4>1
    <3>2. CASE c = p /\ b = n
      <4>1. Before(c, b, eb[b].vertex) BY <1>6, <3>2
      <4>. QED BY <1>2, <1>9, <1>14, <3>2, <4>1
    <3>. QED BY <1>12, <2>1, <3>1, <3>2
  <2>2. \A c \in Cells : ~LeadsTo(c, n) BY <1>5, <1>10 DEF Lists, Chained
  <2>3. \A b \in Blocks : \A c, d \in Cells : LeadsTo(c, b)' /\ LeadsTo(d, b)' => c = d
        BY <1>12, <2>2 DEF Lists, Chained
  <2>4. \A b \in Listed' : \E c \in Cells : LeadsTo(c, b)'
    <3>1. LeadsTo(p, n)' BY <1>1, <1>5, <1>12
    <3>2. Listed \subseteq Blocks BY DEF Listed
    <3>. QED BY <1>1, <1>9, <1>12, <3>1, <3>2 DEF Lists, Chained
  <2>5. \A b \in Blocks \ Listed' : link'[NextOf(b)] = 0
        BY <1>6, <1>9, <1>11, CellNames, InsideListed DEF Lists, Chained
  <2>. QED BY <2>1, <2>3, <2>4, <2>5 DEF Chained
<1>16. ASSUME NEW u \in Threads PROVE InList(u)'
  <2>1. CASE u # t BY <1>2, <1>4, <1>9, <2>1, OthersInList DEF Lists
  <2>2. CASE u = t BY <1>3, <2>2 DEF InList
  <2>. QED BY <2>1, <2>2
<1>17. Enlists(t) BY <1>9, <1>10, <1>12 DEF Enlists
<1>. QED BY <1>2, <1>13, <1>15, <1>16, <1>17, Zenon DEF Lists, LinkBlock, At

(* The process aborts when no block is left but the last.                  *)
LEMMA StepAborts ==
  ASSUME IInv, Lists, NEW t \in Threads, PoolExhausted(t)
  PROVE  Lists' /\ SameLists
<1>1. /\ tail \in 1..PoolSize /\ tail < PoolSize
      BY DEF IInv, TypeOK, LinksInPool, PoolExhausted, At
<1>2. /\ tail + 1 >= PoolSize /\ tail' = tail + 1 /\ aborted' = TRUE
      /\ UNCHANGED <<work, phase, eb, link, th>>
      BY Zenon DEF PoolExhausted, batchVars, edgeVars
<1>3. tail' = PoolSize BY <1>1, <1>2, SizesPositive
<1>4. \A b \in Blocks : Private(b)' <=> Private(b) BY <1>2 DEF Private
<1>5. Listed' = Listed
  <2>1. \A b \in Blocks : b + 1 < PoolSize => (b < tail' <=> b < tail)
        BY <1>1, <1>2, SizesPositive DEF Blocks
  <2>. QED BY <1>4, <2>1 DEF Listed
<1>6. LinkHeld' BY <1>2 DEF Lists, LinkHeld
<1>7. \A c \in Cells : \A b \in Blocks : LeadsTo(c, b)' <=> LeadsTo(c, b)
      BY <1>2 DEF LeadsTo
<1>8. Chained'
  <2>1. \A b \in Blocks \ Listed : link'[NextOf(b)] = 0 BY <1>2 DEF Lists, Chained
  <2>. QED BY <1>2, <1>5, <1>7, <2>1, ChainKept DEF Lists
<1>9. ASSUME NEW u \in Threads PROVE InList(u)'
      BY <1>2, <1>5, OthersInList DEF Lists
<1>. QED BY <1>3, <1>5, <1>6, <1>7, <1>8, <1>9 DEF Lists, SameLists

------------------------------------------------------------------------------
(* Every step keeps the lists.                                             *)
LEMMA EarlySteps ==
  ASSUME IInv, NEW t \in Threads,
         \/ \E i \in DOMAIN res : Take(t, i)
         \/ ReadActive(t) \/ CasActive(t) \/ RefuseLoop(t)
         \/ (FindEnd(t) /\ Op(t).kind = "remove") \/ (WriteRecent(t) /\ ~th[t].held)
         \/ RestoreFirst(t) \/ (RecheckRemove(t) /\ Slot(t).nbr # Op(t).to) \/ ClearSlot(t)
  PROVE  th'[t].pc \in EarlyPcs /\ th[t].pc \notin {"append"} \cup LinkPcs
<1>. USE DEF EarlyPcs, LinkPcs, CreatingPcs
<1>1. th \in [Threads -> Locals] /\ th[t] \in Locals BY DEF IInv, TypeOK
<1>2. ASSUME NEW r, Finish(t, r) PROVE th'[t].pc \in EarlyPcs
      BY <1>1, <1>2 DEF Finish, Goto, Idle
<1>3. CASE \E i \in DOMAIN res : Take(t, i)
  <2>1. PICK i \in DOMAIN res : Take(t, i) BY <1>3
  <2>. DEFINE q == IF work[phase][i].kind = "remove" THEN "begin" ELSE "activate"
              y == [Idle EXCEPT !.op = i, !.nw = work[phase][i].weight, !.pc = q]
  <2>2. th[t].pc = "idle" /\ th' = [th EXCEPT ![t] = y] BY <2>1, Zenon DEF Take, At
  <2>3. q \in EarlyPcs OBVIOUS
  <2>4. y.pc = q
    <3>. HIDE DEF q
    <3>. QED BY Zenon DEF Idle
  <2>. HIDE DEF y, q
  <2>. QED BY <1>1, <2>2, <2>3, <2>4
<1>4. CASE ReadActive(t)
  <2>1. /\ th[t].pc = "activate"
        /\ \/ Goto(t, [th[t] EXCEPT !.sv = active, !.pc = "cas"])
           \/ Move(t, "begin")
        BY <1>4, Zenon DEF ReadActive, At
  <2>2. CASE Goto(t, [th[t] EXCEPT !.sv = active, !.pc = "cas"])
        BY <1>1, <2>1, <2>2, SMT DEF Goto, Locals
  <2>. QED BY <1>1, <2>1, <2>2, MovedPc
<1>5. CASE CasActive(t)
  <2>1. th[t].pc = "cas" /\ (Move(t, "activate") \/ Move(t, "begin"))
        BY <1>5, Zenon DEF CasActive, At
  <2>. QED BY <1>1, <2>1, MovedPc
<1>6. CASE \/ RefuseLoop(t)
           \/ (FindEnd(t) /\ Op(t).kind = "remove") \/ (WriteRecent(t) /\ ~th[t].held)
           \/ RestoreFirst(t) \/ (RecheckRemove(t) /\ Slot(t).nbr # Op(t).to) \/ ClearSlot(t)
  <2>1. \E r : Finish(t, r)
        BY <1>6, Zenon DEF RefuseLoop, FindEnd, WriteRecent, RestoreFirst, RecheckRemove, ClearSlot
  <2>2. th[t].pc \in {"begin", "find", "recent", "restore", "reremove", "clear"}
        BY <1>6 DEF RefuseLoop, FindEnd, WriteRecent, RestoreFirst, RecheckRemove, ClearSlot, At
  <2>. QED BY <1>2, <2>1, <2>2
<1>. QED BY <1>3, <1>4, <1>5, <1>6

LEMMA FollowSteps ==
  ASSUME IInv, Lists, NEW t \in Threads, Step(t),
         EtypeBegin(t) \/ EtypeWalk(t) \/ FindNext(t) \/ Rescan(t) \/ ScanNext(t)
  PROVE  Lists' /\ SameLists
<1>. USE DEF WithinPcs, ProgramCounters, EarlyPcs, LinkPcs, CreatingPcs
<1>1. th \in [Threads -> Locals] /\ th[t] \in Locals BY DEF IInv, TypeOK
<1>2. ASSUME th[t].pc \in {"etype", "findnext", "scannext"}
      PROVE  NextOf(th[t].tmp) \in Cells /\ Inside(NextOf(th[t].tmp), Op(t).from)
  <2>1. th[t].tmp # 0 BY <1>2, Working DEF Fits, BlockPcs
  <2>2. th[t].tmp \in Listed /\ eb[th[t].tmp].vertex = Op(t).from
        BY <1>2, <2>1 DEF Lists, InList
  <2>. QED BY <1>2, <2>1, <2>2, AtBlock DEF Inside
<1>3. CASE EtypeBegin(t)
  <2>. DEFINE c == HeadOf(Op(t).from)
  <2>1. th[t].pc = "begin" /\ EtypeStep(t, c) BY <1>3 DEF EtypeBegin, At
  <2>2. Op(t).from \in Vertices BY <2>1, OpFields
  <2>3. c \in Cells /\ Inside(c, Op(t).from) BY <2>2, CellNames DEF Inside
  <2>. HIDE DEF c
  <2>4. /\ link[c] # MARKER /\ th'[t].tmp = link[c] /\ th'[t].op = th[t].op
        /\ th'[t].loc = c /\ th'[t].pc \in {"etype", "find"}
        BY <1>1, <2>1, SMT DEF EtypeStep, Goto, Locals
  <2>. QED BY <2>1, <2>3, <2>4, StepFollows
<1>4. CASE EtypeWalk(t)
  <2>. DEFINE c == NextOf(th[t].tmp)
  <2>1. th[t].pc = "etype" /\ EtypeStep(t, c) BY <1>4 DEF EtypeWalk, At
  <2>2. c \in Cells /\ Inside(c, Op(t).from) BY <1>2, <2>1
  <2>. HIDE DEF c
  <2>3. /\ link[c] # MARKER /\ th'[t].tmp = link[c] /\ th'[t].op = th[t].op
        /\ th'[t].loc = c /\ th'[t].pc \in {"etype", "find"}
        BY <1>1, <2>1, SMT DEF EtypeStep, Goto, Locals
  <2>. QED BY <2>1, <2>2, <2>3, StepFollows
<1>5. CASE FindNext(t)
  <2>. DEFINE c == NextOf(th[t].tmp)
  <2>1. /\ th[t].pc = "findnext" /\ link[c] # MARKER
        /\ Goto(t, [th[t] EXCEPT !.tmp = link[c], !.pc = "find"])
        BY <1>5 DEF FindNext, At
  <2>2. c \in Cells /\ Inside(c, Op(t).from) BY <1>2, <2>1
  <2>. HIDE DEF c
  <2>3. /\ th'[t].tmp = link[c] /\ th'[t].op = th[t].op
        /\ th'[t].loc = th[t].loc /\ th'[t].pc = "find"
        BY <1>1, <2>1, SMT DEF Goto, Locals
  <2>. QED BY <2>1, <2>2, <2>3, StepFollows
<1>6. CASE Rescan(t)
  <2>. DEFINE c == th[t].loc
  <2>1. th[t].pc = "rescan" /\ ScanFrom(t, c) BY <1>6 DEF Rescan, At
  <2>2. c \in Cells /\ Inside(c, Op(t).from) BY <1>1, <2>1, FieldTypes DEF Lists, InList
  <2>. HIDE DEF c
  <2>3. /\ link[c] # MARKER /\ th'[t].tmp = link[c] /\ th'[t].op = th[t].op
        /\ th'[t].loc = th[t].loc /\ th'[t].ptr = c /\ th'[t].pc \in {"append", "scan"}
        BY <1>1, <2>1, SMT DEF ScanFrom, Goto, Locals
  <2>. QED BY <2>1, <2>2, <2>3, StepFollows
<1>7. CASE ScanNext(t)
  <2>. DEFINE c == NextOf(th[t].tmp)
  <2>1. th[t].pc = "scannext" /\ ScanFrom(t, c) BY <1>7 DEF ScanNext, At
  <2>2. c \in Cells /\ Inside(c, Op(t).from) BY <1>2, <2>1
  <2>. HIDE DEF c
  <2>3. /\ link[c] # MARKER /\ th'[t].tmp = link[c] /\ th'[t].op = th[t].op
        /\ th'[t].loc = th[t].loc /\ th'[t].ptr = c /\ th'[t].pc \in {"append", "scan"}
        BY <1>1, <2>1, SMT DEF ScanFrom, Goto, Locals
  <2>. QED BY <2>1, <2>2, <2>3, StepFollows
<1>. QED BY <1>3, <1>4, <1>5, <1>6, <1>7

LEMMA ThreadLists ==
  ASSUME IInv, Lists, NEW t \in Threads, Step(t)
  PROVE  Lists' /\ (SameLists \/ (LinkBlock(t) /\ Enlists(t)))
<1>1. th \in [Threads -> Locals] /\ th[t] \in Locals BY DEF IInv, TypeOK
<1>2. CASE \/ FindBlock(t) \/ FindSlot(t) \/ (FindEnd(t) /\ Op(t).kind # "remove")
           \/ ScanBlock(t) \/ ScanSlot(t) \/ LockSlot(t) \/ Recheck(t) \/ Release(t)
           \/ SetNeighbor(t) \/ CountEdge(t) \/ ResetSmall(t) \/ ResetLarge(t) \/ CountDegrees(t)
           \/ RaiseHigh(t) \/ UnlockSlot(t) \/ ReadWeight(t) \/ ChangeTotal(t)
           \/ WriteWeight(t) \/ CheckSmall(t) \/ CheckLarge(t) \/ CompareLarge(t) \/ LockStamp(t) \/ StoreLarge(t) \/ UnlockStamp(t)
           \/ (WriteRecent(t) /\ th[t].held) \/ LockWeight(t)
           \/ (RecheckRemove(t) /\ Slot(t).nbr = Op(t).to) \/ Uncount(t)
  <2>1. Within(t) BY <1>2, WithinSteps
  <2>2. th[t].pc # "append"
        BY <1>2
           DEF FindBlock, FindSlot, FindEnd, ScanBlock, ScanSlot, LockSlot, Recheck, Release,
               SetNeighbor, CountEdge, ResetSmall, ResetLarge, CountDegrees, RaiseHigh, UnlockSlot,
               ReadWeight, ChangeTotal, WriteWeight, CheckSmall, CheckLarge, CompareLarge, LockStamp, StoreLarge, UnlockStamp,
               WriteRecent, LockWeight, RecheckRemove, Uncount, At
  <2>. QED BY <2>1, <2>2, StepWithin
<1>3. CASE \/ \E i \in DOMAIN res : Take(t, i)
           \/ ReadActive(t) \/ CasActive(t) \/ RefuseLoop(t)
           \/ (FindEnd(t) /\ Op(t).kind = "remove") \/ (WriteRecent(t) /\ ~th[t].held)
           \/ RestoreFirst(t) \/ (RecheckRemove(t) /\ Slot(t).nbr # Op(t).to) \/ ClearSlot(t)
      BY <1>3, EarlySteps, StepEarly
<1>4. CASE EtypeBegin(t) \/ EtypeWalk(t) \/ FindNext(t) \/ Rescan(t) \/ ScanNext(t)
      BY <1>4, FollowSteps
<1>5. CASE ClaimPlace(t)
  <2>1. /\ th[t].pc = "claim" /\ th'[t].pc = "push" /\ th'[t].op = th[t].op
        /\ th'[t].tmp = th[t].tmp /\ th'[t].ptr = th[t].ptr /\ th'[t].loc = th[t].loc
        /\ th'[t].sv = th[t].sv
        BY <1>1, <1>5, SMT DEF ClaimPlace, At, Goto, Locals
  <2>. QED BY <2>1, StepCreates DEF CreatingPcs
<1>6. CASE FillPlace(t)
  <2>1. /\ th[t].pc = "push" /\ th'[t].pc = "link" /\ th'[t].op = th[t].op
        /\ th'[t].tmp = th[t].tmp /\ th'[t].ptr = th[t].ptr /\ th'[t].loc = th[t].loc
        /\ th'[t].sv = th[t].sv
        BY <1>1, <1>6, SMT DEF FillPlace, At, Move, Goto, Locals
  <2>. QED BY <2>1, StepCreates DEF CreatingPcs
<1>7. CASE LockLink(t) \/ UnlockLink(t) \/ NewBlock(t) \/ LinkBlock(t) \/ PoolExhausted(t)
      BY <1>7, StepLocks, StepUnlocks, StepAdds, StepLinks, StepAborts
<1>. QED BY <1>2, <1>3, <1>4, <1>5, <1>6, <1>7, Zenon DEF Step

LEMMA NextLists == IInv /\ Lists /\ [Next]_vars => Lists'
<1>. SUFFICES ASSUME IInv, Lists, [Next]_vars PROVE Lists'
     OBVIOUS
<1>1. ASSUME UNCHANGED <<eb, link, tail, aborted, th>>,
             \A t \in Threads : th[t].pc = "idle" \/ Op(t)' = Op(t)
      PROVE  Lists'
  <2>1. Listed' = Listed BY <1>1 DEF Listed, Private
  <2>2. \A c \in Cells : \A b \in Blocks : LeadsTo(c, b)' <=> LeadsTo(c, b)
        BY <1>1 DEF LeadsTo
  <2>3. Chained'
    <3>1. \A b \in Blocks \ Listed : link'[NextOf(b)] = 0 BY <1>1 DEF Lists, Chained
    <3>. QED BY <1>1, <2>1, <2>2, <3>1, ChainKept DEF Lists
  <2>4. LinkHeld' BY <1>1 DEF Lists, LinkHeld
  <2>5. \A c, v : Inside(c, v)' <=> Inside(c, v) BY <1>1, <2>1 DEF Inside
  <2>6. \A c, b, v : Before(c, b, v)' <=> Before(c, b, v) BY <1>1, <2>1 DEF Before
  <2>7. ASSUME NEW t \in Threads PROVE InList(t)'
    <3>1. CASE th[t].pc = "idle"
          BY <1>1, <3>1 DEF InList, EarlyPcs, LinkPcs, CreatingPcs
    <3>2. CASE Op(t)' = Op(t)
          BY <1>1, <2>1, <2>5, <2>6, <3>2 DEF Lists, InList
    <3>. QED BY <1>1, <3>1, <3>2
  <2>. QED BY <1>1, <2>3, <2>4, <2>7 DEF Lists
<1>2. CASE Barrier
  <2>1. UNCHANGED <<eb, link, tail, aborted, th>>
        BY <1>2 DEF Barrier, edgeVars, poolVars, countVars
  <2>2. ASSUME NEW t \in Threads, th[t].pc # "idle" PROVE FALSE
    <3>1. /\ phase \in DOMAIN work /\ th[t].op \in DOMAIN work[phase]
          /\ res[th[t].op] = Taken /\ DOMAIN res = OpsOf(work, phase)
          BY <2>2 DEF IInv, Assigned, TypeOK
    <3>2. \A i \in DOMAIN res : res[i] \notin {ToDo, Taken} BY <1>2, Zenon DEF Barrier
    <3>. QED BY <3>1, <3>2 DEF OpsOf
  <2>. QED BY <1>1, <2>1, <2>2
<1>3. CASE Over \/ UNCHANGED vars BY <1>1, <1>3 DEF Over, vars, Op
<1>4. ASSUME NEW t \in Threads, Step(t) PROVE Lists' BY <1>4, ThreadLists
<1>. QED BY <1>2, <1>3, <1>4, Zenon DEF Next

LEMMA InitLists == Init => Lists
<1>. SUFFICES ASSUME Init PROVE Lists
     OBVIOUS
<1>1. /\ tail = 1 /\ ~aborted /\ \A c \in Cells : link[c] = 0
      /\ \A t \in Threads : th[t].pc = "idle"
      BY DEF Init, Idle
<1>2. Listed = {} BY <1>1, SizesPositive DEF Listed, Blocks
<1>3. \A c \in Cells : \A b \in Blocks : ~LeadsTo(c, b)
      BY <1>1, SizesPositive DEF LeadsTo, Blocks
<1>4. Chained BY <1>1, <1>2, <1>3, CellNames DEF Chained
<1>. QED BY <1>1, <1>4 DEF Lists, LinkHeld, InList, EarlyPcs, LinkPcs, CreatingPcs

LEMMA ListsHold == Spec => []Lists
BY Invariance, InitLists, NextLists, PTL DEF Spec

(* No block is lost when threads race to append, and no list has a fork or *)
(* a cycle (the readfe of the link in stinger_insert_edge_, and the look   *)
(* at it afterwards).                                                      *)
THEOREM ListsWellFormed == Spec => []NoBlockLost
<1>1. Lists => NoBlockLost
  <2>. SUFFICES ASSUME Chained, NEW b \in Listed
                PROVE  \E c \in Cells :
                         /\ LeadsTo(c, b)
                         /\ \A d \in Cells : LeadsTo(d, b) => d = c
                         /\ \/ c = HeadOf(eb[b].vertex)
                            \/ \E a \in Listed :
                                 c = NextOf(a) /\ a < b /\ eb[a].vertex = eb[b].vertex
       BY DEF Lists, NoBlockLost
  <2>1. b \in Blocks BY DEF Listed
  <2>2. PICK c \in Cells : LeadsTo(c, b) BY DEF Chained
  <2>3. Before(c, b, eb[b].vertex) BY <2>1, <2>2 DEF Chained
  <2>4. \A d \in Cells : LeadsTo(d, b) => d = c BY <2>1, <2>2 DEF Chained
  <2>. QED BY <2>2, <2>3, <2>4 DEF Before
<1>. QED BY <1>1, ListsHold, PTL

(* No two threads are given the same block, and the process aborts for     *)
(* want of blocks only when every block of the pool but the last is in a   *)
(* list or about to be (get_from_ebpool).                                  *)
THEOREM PoolFullyUsed == Spec => []PoolHandedOut
<1>1. Lists => PoolHandedOut
  <2>. SUFFICES ASSUME Lists PROVE PoolHandedOut
       OBVIOUS
  <2>1. \A t, u \in Threads :
          th[t].pc \in {"claim", "push", "link"} /\ th[u].pc \in {"claim", "push", "link"}
            /\ th[t].tmp = th[u].tmp => t = u
        BY DEF Lists, LinkHeld, CreatingPcs
  <2>2. ASSUME aborted, NEW b \in 1..PoolSize-2
        PROVE  Private(b) \/ \E c \in Cells : LeadsTo(c, b)
    <3>1. tail = PoolSize BY <2>2 DEF Lists
    <3>2. b \in Blocks /\ b < tail /\ b + 1 < PoolSize BY <3>1, SizesPositive DEF Blocks
    <3>3. CASE b \in Listed BY <3>3 DEF Lists, Chained
    <3>. QED BY <3>2, <3>3 DEF Listed
  <2>. QED BY <2>1, <2>2 DEF PoolHandedOut
<1>. QED BY <1>1, ListsHold, PTL

------------------------------------------------------------------------------
(* The edge type arrays.                                                   *)

Pushes(t, e, i) == th[t].pc = "push" /\ Op(t).type = e /\ th[t].k = i

Owns(e, i, b) ==
  \/ eta[e].blocks[i] = b
  \/ \E t \in Threads : Pushes(t, e, i) /\ th[t].tmp = b

Claiming(b) == \E t \in Threads : th[t].pc = "claim" /\ th[t].tmp = b

(* Every claimed place has an owner, no block owns two, and a block that   *)
(* has not claimed its place owns none; the others do.                     *)
Owners ==
  /\ \A e \in Types : \A i \in 0..eta[e].high-1 :
       /\ \E b \in Blocks : b < tail /\ Owns(e, i, b)
       /\ \A b \in Blocks : Owns(e, i, b) => ~Claiming(b)
       /\ \A j \in 0..eta[e].high-1 : \A b \in Blocks :
            Owns(e, i, b) /\ Owns(e, j, b) => i = j
  /\ \A b \in Blocks : b < tail /\ b + 1 < PoolSize /\ ~Claiming(b) =>
       eb[b].type \in Types /\ \E i \in 0..eta[eb[b].type].high-1 : Owns(eb[b].type, i, b)

(* A place is claimed once, is free until it is filled, and lies inside    *)
(* the array because there is a block for each.                            *)
Claims ==
  /\ \A e \in Types :
       /\ eta[e].high < tail
       /\ \A i \in 0..PoolSize-1 : i >= eta[e].high => eta[e].blocks[i] = 0
  /\ \A t \in Threads : th[t].pc = "push" =>
       /\ th[t].k < eta[Op(t).type].high
       /\ eta[Op(t).type].blocks[th[t].k] = 0
       /\ \A u \in Threads : Pushes(u, Op(t).type, th[t].k) => u = t

Arrays == Owners /\ Claims

EtaType == eta \in [Types -> [high : Nat, blocks : [0..PoolSize-1 -> 0..PoolSize-1]]]

------------------------------------------------------------------------------
(* The steps that leave the arrays alone.                                  *)
ArrayPcs == {"claim", "push"}

LEMMA ArraysStay ==
  ASSUME EtaType, Arrays, UNCHANGED eta, tail <= tail', tail \in Nat, tail' \in Nat,
         \A b \in Blocks : b < tail' /\ b + 1 < PoolSize /\ ~(b < tail) => Claiming(b)',
         \A b \in Blocks : b < tail => eb'[b].type = eb[b].type,
         \A b \in Blocks : b < tail => (Claiming(b)' <=> Claiming(b)),
         \A e \in Types : \A i \in 0..eta[e].high-1 : \A b \in Blocks :
           Owns(e, i, b) => b < tail,
         \A t \in Threads : th'[t].pc = "push" <=> th[t].pc = "push",
         \A t \in Threads : th[t].pc = "push" =>
           th'[t] = th[t] /\ Op(t)' = Op(t) /\ Op(t).type \in Types
  PROVE  Arrays'
<1>1. \A t \in Threads : \A e, i : Pushes(t, e, i)' <=> Pushes(t, e, i) BY DEF Pushes
<1>2. \A e, i, b : Owns(e, i, b)' <=> Owns(e, i, b) BY <1>1 DEF Owns, Pushes
<1>3. \A e \in Types : \A i \in 0..eta'[e].high-1 :
        /\ \E b \in Blocks : b < tail' /\ Owns(e, i, b)'
        /\ \A b \in Blocks : Owns(e, i, b)' => ~Claiming(b)'
        /\ \A j \in 0..eta'[e].high-1 : \A b \in Blocks :
             Owns(e, i, b)' /\ Owns(e, j, b)' => i = j
  <2>. SUFFICES ASSUME NEW e \in Types, NEW i \in 0..eta[e].high-1
                PROVE  /\ \E b \in Blocks : b < tail' /\ Owns(e, i, b)'
                       /\ \A b \in Blocks : Owns(e, i, b)' => ~Claiming(b)'
                       /\ \A j \in 0..eta[e].high-1 : \A b \in Blocks :
                            Owns(e, i, b)' /\ Owns(e, j, b)' => i = j
       OBVIOUS
  <2>1. \E b \in Blocks : b < tail' /\ Owns(e, i, b)'
    <3>1. PICK b \in Blocks : b < tail /\ Owns(e, i, b) BY DEF Arrays, Owners
    <3>2. b < tail' BY <3>1 DEF Blocks
    <3>. QED BY <1>2, <3>1, <3>2
  <2>2. \A b \in Blocks : Owns(e, i, b)' => ~Claiming(b)' BY <1>2 DEF Arrays, Owners
  <2>3. \A j \in 0..eta[e].high-1 : \A b \in Blocks :
          Owns(e, i, b)' /\ Owns(e, j, b)' => i = j
        BY <1>2 DEF Arrays, Owners
  <2>. QED BY <2>1, <2>2, <2>3
<1>4. ASSUME NEW b \in Blocks, b < tail', b + 1 < PoolSize, ~Claiming(b)'
      PROVE  /\ eb'[b].type \in Types
             /\ \E i \in 0..eta'[eb'[b].type].high-1 : Owns(eb[b].type, i, b)'
  <2>1. b < tail /\ ~Claiming(b) /\ eb'[b].type = eb[b].type BY <1>4
  <2>2. eb[b].type \in Types BY <1>4, <2>1 DEF Arrays, Owners
  <2>3. PICK i \in 0..eta[eb[b].type].high-1 : Owns(eb[b].type, i, b)
        BY <1>4, <2>1 DEF Arrays, Owners
  <2>4. Owns(eb[b].type, i, b)' BY <1>2, <2>1, <2>3
  <2>. QED BY <2>1, <2>2, <2>3, <2>4
<1>5. Owners' BY <1>3, <1>4 DEF Owners
<1>6. Claims'
  <2>1. \A e \in Types : eta'[e].high < tail' BY DEF Arrays, Claims, EtaType
  <2>2. \A e \in Types : \A i \in 0..PoolSize-1 : i >= eta'[e].high => eta'[e].blocks[i] = 0
        BY DEF Arrays, Claims
  <2>3. ASSUME NEW t \in Threads, th'[t].pc = "push"
        PROVE  /\ th'[t].k < eta'[Op(t)'.type].high
               /\ eta'[Op(t)'.type].blocks[th'[t].k] = 0
               /\ \A u \in Threads : Pushes(u, Op(t).type, th[t].k)' => u = t
        BY <1>1, <2>3 DEF Arrays, Claims, Pushes
  <2>. QED BY <2>1, <2>2, <2>3 DEF Claims
<1>. QED BY <1>5, <1>6 DEF Arrays

(* The owner of a place is a block that was handed out.                    *)
LEMMA OwnerHandedOut ==
  ASSUME IInv, Arrays, NEW e \in Types, NEW i \in 0..eta[e].high-1, NEW b \in Blocks,
         Owns(e, i, b)
  PROVE  b < tail
<1>1. ASSUME NEW t \in Threads, Pushes(t, e, i)
      PROVE  th[t].tmp < tail /\ eta[e].blocks[i] = 0
      BY <1>1, Working DEF Pushes, Arrays, Claims
<1>2. b # 0 BY DEF Blocks
<1>3. PICK d \in Blocks : d < tail /\ Owns(e, i, d) BY DEF Arrays, Owners
<1>. QED BY <1>1, <1>2, <1>3 DEF Owns

LEMMA NoArraySteps ==
  ASSUME IInv, NEW t \in Threads, Step(t),
         ~NewBlock(t), ~PoolExhausted(t), ~ClaimPlace(t), ~FillPlace(t)
  PROVE  /\ UNCHANGED <<eta, tail, work, phase>>
         /\ th[t].pc \notin ArrayPcs /\ th'[t].pc \notin ArrayPcs
<1>. USE DEF ArrayPcs
<1>1. th \in [Threads -> Locals] /\ th[t] \in Locals BY DEF IInv, TypeOK
<1>2. UNCHANGED <<eta, tail, work, phase>>
      BY Zenon
         DEF Step, Take, ReadActive, CasActive, RefuseLoop, EtypeBegin, EtypeWalk, EtypeStep,
             FindBlock, FindSlot, FindNext, FindEnd, Rescan, ScanFrom, ScanBlock, ScanSlot,
             ScanNext, LockSlot, Recheck, Release, LockLink, UnlockLink, LinkBlock, SetNeighbor,
             CountEdge, ResetSmall, ResetLarge, CountDegrees, RaiseHigh, UnlockSlot, ReadWeight,
             ChangeTotal, WriteWeight, CheckSmall, CheckLarge, CompareLarge, LockStamp, StoreLarge, UnlockStamp, WriteRecent,
             RestoreFirst, LockWeight, RecheckRemove, Uncount, ClearSlot, poolVars, batchVars
<1>3. CASE \/ FindBlock(t) \/ FindSlot(t) \/ (FindEnd(t) /\ Op(t).kind # "remove")
           \/ ScanBlock(t) \/ ScanSlot(t) \/ LockSlot(t) \/ Recheck(t) \/ Release(t)
           \/ SetNeighbor(t) \/ CountEdge(t) \/ ResetSmall(t) \/ ResetLarge(t) \/ CountDegrees(t)
           \/ RaiseHigh(t) \/ UnlockSlot(t) \/ ReadWeight(t) \/ ChangeTotal(t)
           \/ WriteWeight(t) \/ CheckSmall(t) \/ CheckLarge(t) \/ CompareLarge(t) \/ LockStamp(t) \/ StoreLarge(t) \/ UnlockStamp(t)
           \/ (WriteRecent(t) /\ th[t].held) \/ LockWeight(t)
           \/ (RecheckRemove(t) /\ Slot(t).nbr = Op(t).to) \/ Uncount(t)
      BY <1>2, <1>3, WithinSteps DEF Within, WithinPcs, LinkPcs, CreatingPcs
<1>4. CASE \/ \E i \in DOMAIN res : Take(t, i)
           \/ ReadActive(t) \/ CasActive(t) \/ RefuseLoop(t)
           \/ (FindEnd(t) /\ Op(t).kind = "remove") \/ (WriteRecent(t) /\ ~th[t].held)
           \/ RestoreFirst(t) \/ (RecheckRemove(t) /\ Slot(t).nbr # Op(t).to) \/ ClearSlot(t)
      BY <1>2, <1>4, EarlySteps DEF EarlyPcs, LinkPcs, CreatingPcs
<1>5. CASE EtypeBegin(t) BY <1>1, <1>2, <1>5, SMT DEF EtypeBegin, EtypeStep, At, Goto, Locals
<1>6. CASE EtypeWalk(t) BY <1>1, <1>2, <1>6, SMT DEF EtypeWalk, EtypeStep, At, Goto, Locals
<1>7. CASE FindNext(t) BY <1>1, <1>2, <1>7, SMT DEF FindNext, At, Goto, Locals
<1>8. CASE Rescan(t) BY <1>1, <1>2, <1>8, SMT DEF Rescan, ScanFrom, At, Goto, Locals
<1>9. CASE ScanNext(t) BY <1>1, <1>2, <1>9, SMT DEF ScanNext, ScanFrom, At, Goto, Locals
<1>10. CASE LockLink(t) BY <1>1, <1>2, <1>10, SMT DEF LockLink, At, Goto, Locals
<1>11. CASE UnlockLink(t) BY <1>1, <1>2, <1>11, MovedPc DEF UnlockLink, At
<1>12. CASE LinkBlock(t) BY <1>1, <1>2, <1>12 DEF LinkBlock, At, Finish, Goto, Idle
<1>. QED BY <1>3, <1>4, <1>5, <1>6, <1>7, <1>8, <1>9, <1>10, <1>11, <1>12, Zenon DEF Step

LEMMA StepLeavesArrays ==
  ASSUME IInv, IInv', Arrays, NEW t \in Threads, Step(t), ~ClaimPlace(t), ~FillPlace(t)
  PROVE  Arrays'
<1>. USE DEF ArrayPcs
<1>1. /\ EtaType /\ tail \in Nat /\ tail' \in Nat /\ tail' \in 1..PoolSize
      /\ th \in [Threads -> Locals] /\ th[t] \in Locals
      BY DEF IInv, TypeOK, EtaType
<1>2. \A u \in Threads \ {t} : th'[u] = th[u] BY <1>1, OthersRest
<1>3. \A e \in Types : \A i \in 0..eta[e].high-1 : \A b \in Blocks : Owns(e, i, b) => b < tail
      BY OwnerHandedOut
<1>4. \A u \in Threads : th[u].pc = "push" => Op(u).type \in Types BY OpFields
<1>5. CASE ~NewBlock(t) /\ ~PoolExhausted(t)
  <2>1. /\ UNCHANGED <<eta, tail, work, phase>>
        /\ th[t].pc \notin ArrayPcs /\ th'[t].pc \notin ArrayPcs
        BY <1>5, NoArraySteps
  <2>2. \A b \in Blocks : eb'[b].type = eb[b].type BY <1>5, StepEdits DEF Edit
  <2>3. \A b \in Blocks : Claiming(b)' <=> Claiming(b) BY <1>2, <2>1 DEF Claiming
  <2>4. /\ \A u \in Threads : th'[u].pc = "push" <=> th[u].pc = "push"
        /\ \A u \in Threads : th[u].pc = "push" => th'[u] = th[u] /\ Op(u)' = Op(u)
        BY <1>2, <2>1 DEF Op
  <2>. QED BY <1>1, <1>3, <1>4, <2>1, <2>2, <2>3, <2>4, ArraysStay
<1>6. CASE NewBlock(t)
  <2>1. /\ th[t].pc = "newblock" /\ UNCHANGED <<eta, work, phase>>
        /\ th' = [th EXCEPT ![t] = [th[t] EXCEPT !.tmp = tail, !.pc = "claim"]]
        BY <1>6, Zenon DEF NewBlock, At, Goto, batchVars
  <2>2. /\ tail' = tail + 1 /\ tail \in Blocks /\ \A b \in Blocks \ {tail} : eb'[b] = eb[b]
        BY <1>6, BlockAdded
  <2>3. th'[t].pc = "claim" /\ th'[t].tmp = tail BY <1>1, <2>1, SMT DEF Locals
  <2>4. \A b \in Blocks : b < tail => eb'[b].type = eb[b].type
    <3>1. \A b \in Blocks : b < tail => b # tail BY DEF Blocks
    <3>. QED BY <2>2, <3>1
  <2>5. ASSUME NEW b \in Blocks, b < tail PROVE Claiming(b)' <=> Claiming(b)
    <3>1. b # tail BY <2>5 DEF Blocks
    <3>2. ASSUME NEW u \in Threads
          PROVE  (th'[u].pc = "claim" /\ th'[u].tmp = b)
                   <=> (th[u].pc = "claim" /\ th[u].tmp = b)
          BY <1>2, <2>1, <2>3, <3>1
    <3>. QED BY <3>2 DEF Claiming
  <2>6. ASSUME NEW b \in Blocks, b < tail', ~(b < tail) PROVE Claiming(b)'
    <3>1. b = tail BY <1>1, <2>2, <2>6 DEF Blocks
    <3>. QED BY <2>3, <3>1 DEF Claiming
  <2>7. /\ \A u \in Threads : th'[u].pc = "push" <=> th[u].pc = "push"
        /\ \A u \in Threads : th[u].pc = "push" => th'[u] = th[u] /\ Op(u)' = Op(u)
        BY <1>2, <2>1, <2>3 DEF Op
  <2>8. tail <= tail' BY <1>1, <2>2
  <2>. QED BY <1>1, <1>3, <1>4, <2>1, <2>4, <2>5, <2>6, <2>7, <2>8, ArraysStay
<1>7. CASE PoolExhausted(t)
  <2>1. /\ tail + 1 >= PoolSize /\ tail' = tail + 1
        /\ UNCHANGED <<work, phase, eb, eta, th>>
        BY <1>7, Zenon DEF PoolExhausted, batchVars, edgeVars
  <2>2. \A b \in Blocks : b < tail' /\ b + 1 < PoolSize => b < tail
        BY <1>1, <2>1, SizesPositive DEF Blocks
  <2>3. \A b \in Blocks : Claiming(b)' <=> Claiming(b) BY <2>1 DEF Claiming
  <2>4. \A u \in Threads : Op(u)' = Op(u) BY <2>1 DEF Op
  <2>5. tail <= tail' BY <1>1, <2>1
  <2>. QED BY <1>1, <1>3, <1>4, <2>1, <2>2, <2>3, <2>4, <2>5, ArraysStay
<1>. QED BY <1>5, <1>6, <1>7

------------------------------------------------------------------------------
(* There is a block for each place of an array, and one more when a thread *)
(* is about to claim a place.                                              *)
LEMMA RoomForClaim ==
  ASSUME IInv, Arrays, NEW t \in Threads, th[t].pc = "claim", NEW e \in Types
  PROVE  eta[e].high + 1 < tail
<1>. DEFINE n == eta[e].high
            S == 0..n-1
            T == (1..tail-1) \ {th[t].tmp}
            f == [i \in S |-> CHOOSE b \in Blocks : b < tail /\ Owns(e, i, b)]
<1>1. n \in Nat /\ n < tail /\ tail \in Nat BY DEF IInv, TypeOK, Arrays, Claims
<1>2. th[t].tmp \in 1..tail-1
  <2>1. th[t].tmp \in Blocks /\ th[t].tmp < tail BY Working, AtBlock DEF Fits, BlockPcs
  <2>. QED BY <1>1, <2>1 DEF Blocks
<1>3. IsFiniteSet(S) /\ Cardinality(S) = n
  <2>1. 0 \in Int /\ n - 1 \in Int BY <1>1
  <2>2. IsFiniteSet(S) /\ Cardinality(S) = IF 0 > n - 1 THEN 0 ELSE (n - 1) - 0 + 1
        BY <2>1, FS_Interval, Zenon
  <2>. QED BY <1>1, <2>2
<1>4. IsFiniteSet(1..tail-1) /\ Cardinality(1..tail-1) = tail - 1
  <2>1. 1 \in Int /\ tail - 1 \in Int /\ ~(1 > tail - 1) BY <1>1, <1>2
  <2>2. /\ IsFiniteSet(1..tail-1)
        /\ Cardinality(1..tail-1) = IF 1 > tail - 1 THEN 0 ELSE (tail - 1) - 1 + 1
        BY <2>1, FS_Interval, Zenon
  <2>. QED BY <1>1, <2>1, <2>2
<1>5. IsFiniteSet(T) /\ Cardinality(T) = tail - 2
  <2>1. /\ IsFiniteSet(T)
        /\ Cardinality(T) = IF th[t].tmp \in 1..tail-1 THEN Cardinality(1..tail-1) - 1
                            ELSE Cardinality(1..tail-1)
        BY <1>4, FS_RemoveElement, Zenon
  <2>. QED BY <1>1, <1>2, <1>4, <2>1
<1>6. \A i \in S : f[i] \in Blocks /\ f[i] < tail /\ Owns(e, i, f[i])
  <2>. SUFFICES ASSUME NEW i \in S
                PROVE  f[i] \in Blocks /\ f[i] < tail /\ Owns(e, i, f[i])
       OBVIOUS
  <2>1. \E b \in Blocks : b < tail /\ Owns(e, i, b) BY DEF Arrays, Owners
  <2>. QED BY <2>1, Zenon
<1>. HIDE DEF f
<1>7. f \in [S -> T]
  <2>1. ASSUME NEW i \in S PROVE f[i] \in T
    <3>1. ~Claiming(f[i]) BY <1>6 DEF Arrays, Owners
    <3>2. f[i] # th[t].tmp BY <3>1 DEF Claiming
    <3>. QED BY <1>1, <1>6, <3>2 DEF Blocks
  <2>2. f = [i \in S |-> f[i]] BY DEF f
  <2>. QED BY <2>1, <2>2
<1>8. \A i, j \in S : f[i] = f[j] => i = j BY <1>6 DEF Arrays, Owners
<1>. HIDE DEF S, T
<1>9. ~(tail - 2 < n) BY <1>3, <1>5, <1>7, <1>8, FS_PigeonHole
<1>. QED BY <1>1, <1>9

LEMMA StepClaims ==
  ASSUME IInv, Lists, Arrays, NEW t \in Threads, ClaimPlace(t)
  PROVE  Arrays'
<1>. SUFFICES ASSUME NEW e, NEW n, NEW m, e = Op(t).type, n = eta[e].high, m = th[t].tmp
              PROVE  Arrays'
     OBVIOUS
<1>1. /\ EtaType /\ th \in [Threads -> Locals] /\ th[t] \in Locals /\ tail \in 1..PoolSize
      BY DEF IInv, TypeOK, EtaType
<1>2. /\ th[t].pc = "claim" /\ ~aborted /\ eta' = [eta EXCEPT ![e].high = @ + 1]
      /\ UNCHANGED <<work, phase, eb, tail>>
      BY Zenon DEF ClaimPlace, At, batchVars, edgeVars
<1>3. /\ th'[t].pc = "push" /\ th'[t].k = n /\ th'[t].tmp = m /\ th'[t].op = th[t].op
      BY <1>1, SMT DEF ClaimPlace, Goto, Locals
<1>4. \A u \in Threads \ {t} : th'[u] = th[u] BY <1>1 DEF ClaimPlace, Goto
<1>5. /\ e \in Types /\ n \in Nat /\ n + 1 < tail /\ tail < PoolSize
      BY <1>1, <1>2, OpFields, RoomForClaim DEF EtaType, IInv, LinksInPool
<1>6. /\ \A a \in Types : eta'[a].blocks = eta[a].blocks
      /\ \A a \in Types : eta'[a].high = IF a = e THEN n + 1 ELSE eta[a].high
      BY <1>1, <1>2, <1>5, SMT DEF EtaType
<1>7. m \in Blocks /\ m < tail /\ eb[m].type = e
      BY <1>2, Working, AtBlock DEF Fits, BlockPcs, Lists, InList, CreatingPcs
<1>8. Claiming(m) BY <1>2 DEF Claiming
<1>9. \A u \in Threads \ {t} : th[u].pc = "claim" => th[u].tmp # m
      BY <1>2 DEF Lists, LinkHeld, CreatingPcs
<1>10. \A u \in Threads : Op(u)' = Op(u) BY <1>2, <1>3, <1>4 DEF Op
<1>11. ASSUME NEW u \in Threads, NEW a, NEW i
       PROVE  Pushes(u, a, i)' <=> (Pushes(u, a, i) \/ (u = t /\ a = e /\ i = n))
       BY <1>2, <1>3, <1>4, <1>10 DEF Pushes
<1>12. ASSUME NEW a \in Types, NEW i, NEW b
       PROVE  Owns(a, i, b)' <=> (Owns(a, i, b) \/ (a = e /\ i = n /\ b = m))
  <2>1. \A u \in Threads : Pushes(u, a, i) => th'[u].tmp = th[u].tmp
        BY <1>2, <1>4 DEF Pushes
  <2>. QED BY <1>3, <1>6, <1>11, <2>1 DEF Owns
<1>13. \A b : b # m => (Claiming(b)' <=> Claiming(b))
       BY <1>2, <1>3, <1>4 DEF Claiming
<1>14. ~Claiming(m)' BY <1>3, <1>4, <1>9 DEF Claiming
<1>15. ASSUME NEW a \in Types, NEW i \in 0..eta[a].high-1 PROVE ~Owns(a, i, m)
       BY <1>7, <1>8 DEF Arrays, Owners
<1>16. ASSUME NEW u \in Threads, th[u].pc = "push"
       PROVE  /\ Op(u).type \in Types /\ th[u].k \in Nat /\ th[u].k < eta[Op(u).type].high
              /\ eta[Op(u).type].blocks[th[u].k] = 0
       BY <1>16, OpFields, Working DEF Arrays, Claims
<1>17. eta[e].blocks[n] = 0
  <2>1. n \in 0..PoolSize-1 /\ n >= eta[e].high BY <1>1, <1>5, SizesPositive
  <2>. QED BY <1>5, <2>1 DEF Arrays, Claims
<1>18. \A b \in Blocks : ~Owns(e, n, b)
  <2>1. \A u \in Threads : ~Pushes(u, e, n) BY <1>5, <1>16 DEF Pushes
  <2>. QED BY <1>17, <2>1 DEF Owns, Blocks
<1>19. ASSUME NEW a \in Types, NEW i \in 0..eta'[a].high-1
       PROVE  /\ i \in 0..eta[a].high-1 \/ (a = e /\ i = n)
              /\ eta[a].high \in Nat
       BY <1>1, <1>5, <1>6 DEF EtaType
<1>20. Owners'
  <2>1. ASSUME NEW a \in Types, NEW i \in 0..eta'[a].high-1
        PROVE  \E b \in Blocks : b < tail' /\ Owns(a, i, b)'
    <3>1. CASE i \in 0..eta[a].high-1
      <4>1. PICK b \in Blocks : b < tail /\ Owns(a, i, b) BY <3>1 DEF Arrays, Owners
      <4>. QED BY <1>2, <1>12, <4>1
    <3>2. CASE a = e /\ i = n
      <4>1. Owns(a, i, m)' BY <1>12, <3>2
      <4>. QED BY <1>2, <1>7, <4>1
    <3>. QED BY <1>19, <3>1, <3>2
  <2>2. ASSUME NEW a \in Types, NEW i \in 0..eta'[a].high-1, NEW b \in Blocks, Owns(a, i, b)'
        PROVE  ~Claiming(b)'
    <3>1. CASE i \in 0..eta[a].high-1 /\ Owns(a, i, b)
      <4>1. ~Claiming(b) BY <3>1 DEF Arrays, Owners
      <4>. QED BY <1>8, <1>13, <4>1
    <3>2. CASE b = m BY <1>14, <3>2
    <3>3. CASE a = e /\ i = n /\ b # m BY <1>12, <1>18, <2>2, <3>3
    <3>. QED BY <1>12, <1>19, <2>2, <3>1, <3>2, <3>3
  <2>3. ASSUME NEW a \in Types, NEW i \in 0..eta'[a].high-1, NEW j \in 0..eta'[a].high-1,
               NEW b \in Blocks, Owns(a, i, b)', Owns(a, j, b)'
        PROVE  i = j
    <3>1. CASE b = m
      <4>1. i \notin 0..eta[a].high-1 /\ j \notin 0..eta[a].high-1
        <5>1. ASSUME NEW k \in 0..eta[a].high-1, Owns(a, k, m)' PROVE FALSE
          <6>1. ~Owns(a, k, m) BY <1>15
          <6>2. ~(a = e /\ k = n) BY <1>5
          <6>. QED BY <1>12, <5>1, <6>1, <6>2
        <5>. QED BY <2>3, <3>1, <5>1
      <4>. QED BY <1>19, <4>1
    <3>2. CASE b # m
      <4>1. Owns(a, i, b) /\ Owns(a, j, b) BY <1>12, <2>3, <3>2
      <4>2. ~(a = e /\ i = n) /\ ~(a = e /\ j = n) BY <1>18, <4>1
      <4>3. i \in 0..eta[a].high-1 /\ j \in 0..eta[a].high-1 BY <1>19, <4>2
      <4>. QED BY <4>1, <4>3 DEF Arrays, Owners
    <3>. QED BY <3>1, <3>2
  <2>4. ASSUME NEW b \in Blocks, b < tail', b + 1 < PoolSize, ~Claiming(b)'
        PROVE  /\ eb'[b].type \in Types
               /\ \E i \in 0..eta'[eb'[b].type].high-1 : Owns(eb[b].type, i, b)'
    <3>1. CASE b = m
      <4>1. n \in 0..eta'[e].high-1 BY <1>5, <1>6
      <4>2. Owns(e, n, m)' BY <1>5, <1>12
      <4>3. eb'[b].type = e BY <1>2, <1>7, <3>1
      <4>4. Owns(eb[b].type, n, b)' BY <3>1, <4>2, <4>3
      <4>. QED BY <1>5, <4>1, <4>3, <4>4
    <3>2. CASE b # m
      <4>. SUFFICES ASSUME NEW a, a = eb[b].type
                    PROVE  a \in Types /\ \E i \in 0..eta'[a].high-1 : Owns(a, i, b)'
           BY <1>2
      <4>1. ~Claiming(b) BY <1>13, <2>4, <3>2
      <4>2. a \in Types BY <1>2, <2>4, <4>1 DEF Arrays, Owners
      <4>3. PICK i \in 0..eta[a].high-1 : Owns(a, i, b)
            BY <1>2, <2>4, <4>1 DEF Arrays, Owners
      <4>4. Owns(a, i, b)' BY <1>12, <4>2, <4>3
      <4>5. i \in 0..eta'[a].high-1 BY <1>1, <1>5, <1>6, <4>2, <4>3 DEF EtaType
      <4>. QED BY <4>2, <4>4, <4>5
    <3>. QED BY <3>1, <3>2
  <2>. QED BY <2>1, <2>2, <2>3, <2>4 DEF Owners
<1>21. Claims'
  <2>1. \A a \in Types : eta'[a].high < tail'
        BY <1>2, <1>5, <1>6 DEF Arrays, Claims
  <2>2. \A a \in Types : \A i \in 0..PoolSize-1 : i >= eta'[a].high => eta'[a].blocks[i] = 0
        BY <1>1, <1>5, <1>6 DEF Arrays, Claims, EtaType
  <2>3. ASSUME NEW u \in Threads, th'[u].pc = "push"
        PROVE  /\ th'[u].k < eta'[Op(u)'.type].high
               /\ eta'[Op(u)'.type].blocks[th'[u].k] = 0
               /\ \A w \in Threads : Pushes(w, Op(u).type, th[u].k)' => w = u
    <3>1. CASE u = t
      <4>1. \A w \in Threads : Pushes(w, e, n)' => w = t
        <5>1. \A w \in Threads : ~Pushes(w, e, n) BY <1>5, <1>16 DEF Pushes
        <5>. QED BY <1>11, <5>1
      <4>. QED BY <1>3, <1>5, <1>6, <1>10, <1>17, <3>1, <4>1
    <3>2. CASE u # t
      <4>. SUFFICES ASSUME NEW a, NEW i, a = Op(u).type, i = th[u].k
                    PROVE  /\ i < eta'[a].high /\ eta'[a].blocks[i] = 0
                           /\ \A w \in Threads : Pushes(w, a, i)' => w = u
           BY <1>4, <1>10, <3>2
      <4>1. th[u].pc = "push" BY <1>4, <2>3, <3>2
      <4>2. a \in Types /\ i \in Nat /\ i < eta[a].high /\ eta[a].blocks[i] = 0
            BY <1>16, <4>1
      <4>3. \A w \in Threads : Pushes(w, a, i) => w = u BY <4>1 DEF Arrays, Claims
      <4>4. ~(a = e /\ i = n) BY <1>5, <4>2
      <4>5. eta[a].high \in Nat BY <1>1, <4>2 DEF EtaType
      <4>. QED BY <1>5, <1>6, <1>11, <4>2, <4>3, <4>4, <4>5
    <3>. QED BY <3>1, <3>2
  <2>. QED BY <2>1, <2>2, <2>3 DEF Claims
<1>. QED BY <1>20, <1>21 DEF Arrays

(* Filling a place changes nobody's ownership: it makes the block that the *)
(* thread was about to put there the one that is there.                    *)
LEMMA StepFills ==
  ASSUME IInv, Arrays, NEW t \in Threads, FillPlace(t)
  PROVE  Arrays'
<1>. SUFFICES ASSUME NEW e, NEW n, NEW m, e = Op(t).type, n = th[t].k, m = th[t].tmp
              PROVE  Arrays'
     OBVIOUS
<1>1. /\ EtaType /\ th \in [Threads -> Locals] /\ th[t] \in Locals /\ tail \in 1..PoolSize
      BY DEF IInv, TypeOK, EtaType
<1>2. /\ th[t].pc = "push" /\ eta' = [eta EXCEPT ![e].blocks[n] = m]
      /\ UNCHANGED <<work, phase, eb, tail>>
      BY Zenon DEF FillPlace, At, batchVars, edgeVars
<1>3. th'[t].pc = "link" BY <1>1, SMT DEF FillPlace, Move, Goto, Locals
<1>4. \A u \in Threads \ {t} : th'[u] = th[u] BY <1>1 DEF FillPlace, Move, Goto
<1>5. /\ e \in Types /\ n \in Nat /\ n < eta[e].high /\ eta[e].high \in Nat
      /\ eta[e].high < tail /\ eta[e].blocks[n] = 0 /\ n \in 0..PoolSize-1
  <2>1. e \in Types /\ n \in Nat BY <1>2, OpFields, Working
  <2>2. n < eta[e].high /\ eta[e].blocks[n] = 0 /\ eta[e].high < tail
        BY <1>2, <2>1 DEF Arrays, Claims
  <2>3. eta[e].high \in Nat BY <1>1, <2>1 DEF EtaType
  <2>. QED BY <1>1, <2>1, <2>2, <2>3, SizesPositive
<1>6. /\ \A a \in Types \ {e} : eta'[a] = eta[a]
      /\ eta'[e] = [eta[e] EXCEPT !.blocks = [eta[e].blocks EXCEPT ![n] = m]]
      BY <1>1, <1>2, <1>5 DEF EtaType
<1>7. /\ \A a \in Types : eta'[a].high = eta[a].high
      /\ \A a \in Types : \A i \in 0..PoolSize-1 :
           eta'[a].blocks[i] = IF a = e /\ i = n THEN m ELSE eta[a].blocks[i]
  <2>1. /\ eta[e] \in [high : Nat, blocks : [0..PoolSize-1 -> 0..PoolSize-1]]
        /\ eta[e].blocks \in [0..PoolSize-1 -> 0..PoolSize-1]
        BY <1>1, <1>5 DEF EtaType
  <2>2. /\ eta'[e].high = eta[e].high
        /\ eta'[e].blocks = [eta[e].blocks EXCEPT ![n] = m]
        BY <1>6, <2>1
  <2>3. \A i \in 0..PoolSize-1 : eta'[e].blocks[i] = IF i = n THEN m ELSE eta[e].blocks[i]
        BY <2>1, <2>2
  <2>4. \A a \in Types : a # e => eta'[a] = eta[a] BY <1>6
  <2>. QED BY <2>2, <2>3, <2>4
<1>8. \A u \in Threads : Op(u)' = Op(u)
  <2>1. th'[t].op = th[t].op BY <1>1, SMT DEF FillPlace, Move, Goto, Locals
  <2>. QED BY <1>2, <1>4, <2>1 DEF Op
<1>9. ASSUME NEW u \in Threads, NEW a, NEW i
      PROVE  Pushes(u, a, i)' <=> (Pushes(u, a, i) /\ u # t)
      BY <1>3, <1>4, <1>8 DEF Pushes
<1>10. Pushes(t, e, n) /\ \A u \in Threads : Pushes(u, e, n) => u = t
       BY <1>2 DEF Arrays, Claims, Pushes
<1>11. \A a, i : Pushes(t, a, i) => a = e /\ i = n BY DEF Pushes
<1>12. ASSUME NEW a \in Types, NEW i \in 0..PoolSize-1, NEW b \in Blocks
       PROVE  Owns(a, i, b)' <=> Owns(a, i, b)
  <2>1. \A u \in Threads \ {t} : Pushes(u, a, i)' <=> Pushes(u, a, i) BY <1>9
  <2>2. \A u \in Threads \ {t} : th'[u].tmp = th[u].tmp BY <1>4
  <2>3. CASE a = e /\ i = n
    <3>1. \A u \in Threads : ~Pushes(u, a, i)' BY <1>9, <1>10, <2>3
    <3>2. Owns(a, i, b)' <=> b = m BY <1>7, <2>3, <3>1 DEF Owns
    <3>3. Owns(a, i, b) <=> b = m BY <1>5, <1>10, <2>3 DEF Owns, Blocks
    <3>. QED BY <3>2, <3>3
  <2>4. CASE ~(a = e /\ i = n)
    <3>1. eta'[a].blocks[i] = eta[a].blocks[i] BY <1>7, <2>4
    <3>2. \A u \in Threads : Pushes(u, a, i)' <=> Pushes(u, a, i) BY <1>9, <1>11, <2>4
    <3>3. \A u \in Threads : Pushes(u, a, i) => th'[u].tmp = th[u].tmp
          BY <1>11, <2>2, <2>4
    <3>. QED BY <3>1, <3>2, <3>3 DEF Owns
  <2>. QED BY <2>3, <2>4
<1>13. \A b : Claiming(b)' <=> Claiming(b)
       BY <1>2, <1>3, <1>4 DEF Claiming
<1>14. \A a \in Types : \A i \in 0..eta[a].high-1 : i \in 0..PoolSize-1
       BY <1>1, SizesPositive DEF Arrays, Claims, EtaType
<1>15. Owners'
  <2>1. ASSUME NEW a \in Types, NEW i \in 0..eta'[a].high-1
        PROVE  /\ \E b \in Blocks : b < tail' /\ Owns(a, i, b)'
               /\ \A b \in Blocks : Owns(a, i, b)' => ~Claiming(b)'
               /\ \A j \in 0..eta'[a].high-1 : \A b \in Blocks :
                    Owns(a, i, b)' /\ Owns(a, j, b)' => i = j
    <3>1. i \in 0..eta[a].high-1 /\ i \in 0..PoolSize-1 BY <1>7, <1>14
    <3>2. PICK b \in Blocks : b < tail /\ Owns(a, i, b) BY <3>1 DEF Arrays, Owners
    <3>3. \E d \in Blocks : d < tail' /\ Owns(a, i, d)' BY <1>2, <1>12, <3>1, <3>2
    <3>4. \A d \in Blocks : Owns(a, i, d)' => ~Claiming(d)'
          BY <1>12, <1>13, <3>1 DEF Arrays, Owners
    <3>5. ASSUME NEW j \in 0..eta'[a].high-1, NEW d \in Blocks, Owns(a, i, d)', Owns(a, j, d)'
          PROVE  i = j
      <4>1. j \in 0..eta[a].high-1 /\ j \in 0..PoolSize-1 BY <1>7, <1>14
      <4>2. Owns(a, i, d) /\ Owns(a, j, d) BY <1>12, <3>1, <3>5, <4>1
      <4>. QED BY <3>1, <4>1, <4>2 DEF Arrays, Owners
    <3>. QED BY <3>3, <3>4, <3>5
  <2>2. ASSUME NEW b \in Blocks, b < tail', b + 1 < PoolSize, ~Claiming(b)'
        PROVE  /\ eb'[b].type \in Types
               /\ \E i \in 0..eta'[eb'[b].type].high-1 : Owns(eb[b].type, i, b)'
    <3>. SUFFICES ASSUME NEW a, a = eb[b].type
                  PROVE  a \in Types /\ \E i \in 0..eta'[a].high-1 : Owns(a, i, b)'
         BY <1>2
    <3>1. ~Claiming(b) /\ b < tail BY <1>2, <1>13, <2>2
    <3>2. a \in Types BY <2>2, <3>1 DEF Arrays, Owners
    <3>3. PICK i \in 0..eta[a].high-1 : Owns(a, i, b) BY <2>2, <3>1 DEF Arrays, Owners
    <3>4. i \in 0..PoolSize-1 /\ i \in 0..eta'[a].high-1 BY <1>7, <1>14, <3>2
    <3>. QED BY <1>12, <3>2, <3>3, <3>4
  <2>. QED BY <2>1, <2>2 DEF Owners
<1>16. Claims'
  <2>1. \A a \in Types : eta'[a].high < tail' BY <1>2, <1>7 DEF Arrays, Claims
  <2>2. ASSUME NEW a \in Types, NEW i \in 0..PoolSize-1, i >= eta'[a].high
        PROVE  eta'[a].blocks[i] = 0
    <3>1. ~(a = e /\ i = n) BY <1>5, <1>7, <2>2
    <3>2. eta[a].blocks[i] = 0 BY <1>7, <2>2 DEF Arrays, Claims
    <3>. QED BY <1>7, <3>1, <3>2
  <2>3. ASSUME NEW u \in Threads, th'[u].pc = "push"
        PROVE  /\ th'[u].k < eta'[Op(u)'.type].high
               /\ eta'[Op(u)'.type].blocks[th'[u].k] = 0
               /\ \A w \in Threads : Pushes(w, Op(u).type, th[u].k)' => w = u
    <3>1. u # t BY <1>3, <2>3
    <3>. SUFFICES ASSUME NEW a, NEW i, a = Op(u).type, i = th[u].k
                  PROVE  /\ i < eta'[a].high /\ eta'[a].blocks[i] = 0
                         /\ \A w \in Threads : Pushes(w, a, i)' => w = u
         BY <1>4, <1>8, <3>1
    <3>2. th[u].pc = "push" BY <1>4, <2>3, <3>1
    <3>3. /\ a \in Types /\ i \in Nat /\ i < eta[a].high /\ eta[a].blocks[i] = 0
          BY <3>2, OpFields, Working DEF Arrays, Claims
    <3>4. \A w \in Threads : Pushes(w, a, i) => w = u BY <3>2 DEF Arrays, Claims
    <3>5. eta[a].high \in Nat BY <1>1, <3>3 DEF EtaType
    <3>6. i \in 0..PoolSize-1 BY <1>14, <3>3, <3>5
    <3>7. ~(a = e /\ i = n) BY <1>10, <3>1, <3>2 DEF Pushes
    <3>8. \A w \in Threads : Pushes(w, a, i)' => w = u BY <1>9, <3>4
    <3>. QED BY <1>7, <3>3, <3>6, <3>7, <3>8
  <2>. QED BY <2>1, <2>2, <2>3 DEF Claims
<1>. QED BY <1>15, <1>16 DEF Arrays

------------------------------------------------------------------------------
(* Every step, and the initial states.                                     *)
LEMMA ThreadArrays ==
  ASSUME IInv, IInv', Lists, Arrays, NEW t \in Threads, Step(t)
  PROVE  Arrays'
<1>1. CASE ClaimPlace(t) BY <1>1, StepClaims
<1>2. CASE FillPlace(t) BY <1>2, StepFills
<1>3. CASE ~ClaimPlace(t) /\ ~FillPlace(t) BY <1>3, StepLeavesArrays
<1>. QED BY <1>1, <1>2, <1>3

LEMMA NextArrays == IInv /\ IInv' /\ Lists /\ Arrays /\ [Next]_vars => Arrays'
<1>. SUFFICES ASSUME IInv, IInv', Lists, Arrays, [Next]_vars PROVE Arrays'
     OBVIOUS
<1>1. ASSUME UNCHANGED <<eb, eta, tail, th>>,
             \A t \in Threads : th[t].pc = "idle" \/ Op(t)' = Op(t)
      PROVE  Arrays'
  <2>1. /\ EtaType /\ tail \in Nat /\ tail' \in Nat /\ tail <= tail' /\ ~(tail < tail')
        BY <1>1 DEF IInv, TypeOK, EtaType
  <2>2. \A b \in Blocks : Claiming(b)' <=> Claiming(b) BY <1>1 DEF Claiming
  <2>3. \A e \in Types : \A i \in 0..eta[e].high-1 : \A b \in Blocks : Owns(e, i, b) => b < tail
        BY OwnerHandedOut
  <2>4. \A t \in Threads : th[t].pc = "push" =>
          th'[t] = th[t] /\ Op(t)' = Op(t) /\ Op(t).type \in Types
    <3>. SUFFICES ASSUME NEW t \in Threads, th[t].pc = "push"
                  PROVE  th'[t] = th[t] /\ Op(t)' = Op(t) /\ Op(t).type \in Types
         OBVIOUS
    <3>. QED BY <1>1, OpFields
  <2>. QED BY <1>1, <2>1, <2>2, <2>3, <2>4, ArraysStay
<1>2. CASE Barrier
  <2>1. UNCHANGED <<eb, eta, tail, th>>
        BY <1>2 DEF Barrier, edgeVars, poolVars, countVars
  <2>2. ASSUME NEW t \in Threads, th[t].pc # "idle" PROVE FALSE
    <3>1. /\ phase \in DOMAIN work /\ th[t].op \in DOMAIN work[phase]
          /\ res[th[t].op] = Taken /\ DOMAIN res = OpsOf(work, phase)
          BY <2>2 DEF IInv, Assigned, TypeOK
    <3>2. \A i \in DOMAIN res : res[i] \notin {ToDo, Taken} BY <1>2, Zenon DEF Barrier
    <3>. QED BY <3>1, <3>2 DEF OpsOf
  <2>. QED BY <1>1, <2>1, <2>2
<1>3. CASE Over \/ UNCHANGED vars BY <1>1, <1>3 DEF Over, vars, Op
<1>4. ASSUME NEW t \in Threads, Step(t) PROVE Arrays' BY <1>4, ThreadArrays
<1>. QED BY <1>2, <1>3, <1>4, Zenon DEF Next

LEMMA InitArrays == Init => Arrays
<1>. SUFFICES ASSUME Init PROVE Arrays
     OBVIOUS
<1>1. /\ tail = 1 /\ \A t \in Threads : th[t].pc = "idle"
      /\ \A e \in Types : eta[e].high = 0 /\ \A i \in 0..PoolSize-1 : eta[e].blocks[i] = 0
      BY DEF Init, Idle, Unwritten
<1>2. \A b \in Blocks : ~(b < tail) BY <1>1, SizesPositive DEF Blocks
<1>3. Owners BY <1>1, <1>2 DEF Owners
<1>4. Claims BY <1>1 DEF Claims
<1>. QED BY <1>3, <1>4 DEF Arrays

LEMMA ArraysHold == Spec => []Arrays
<1>1. IInv /\ Lists /\ Arrays /\ IInv' /\ [Next]_vars => Arrays' BY NextArrays
<1>. QED BY <1>1, Invariance, ListsHold, InitArrays, PTL DEF Spec

(* A traversal by type sees every block that a traversal by vertex can     *)
(* reach, and sees it once, however many blocks are pushed at a time: the  *)
(* claim gives every block a place of its own, and the block is filled in  *)
(* before it is linked (push_ebs, called before the link is written).      *)
THEOREM Published == Spec => []ListedIsPublished
<1>1. IInv /\ Arrays => ListedIsPublished
  <2>. SUFFICES ASSUME IInv, Arrays, NEW b \in Listed, NEW e, e = eb[b].type
                PROVE  Cardinality({i \in 0..eta[e].high-1 : eta[e].blocks[i] = b}) = 1
       BY DEF ListedIsPublished
  <2>1. b \in Blocks /\ b < tail /\ b + 1 < PoolSize /\ ~Private(b) BY DEF Listed
  <2>2. ~Claiming(b) BY <2>1 DEF Private, Claiming
  <2>3. e \in Types BY <2>1, <2>2 DEF Arrays, Owners
  <2>4. PICK i \in 0..eta[e].high-1 : Owns(e, i, b) BY <2>1, <2>2 DEF Arrays, Owners
  <2>5. eta[e].blocks[i] = b BY <2>1, <2>4 DEF Owns, Private, Pushes
  <2>6. ASSUME NEW j \in 0..eta[e].high-1, eta[e].blocks[j] = b PROVE j = i
    <3>1. Owns(e, j, b) BY <2>6 DEF Owns
    <3>. QED BY <2>1, <2>3, <2>4, <3>1 DEF Arrays, Owners
  <2>7. {j \in 0..eta[e].high-1 : eta[e].blocks[j] = b} = {i} BY <2>5, <2>6
  <2>8. Cardinality({i}) = 1 BY FS_Singleton, Zenon
  <2>. QED BY <2>7, <2>8, Zenon
<1>. QED BY <1>1, Invariance, ArraysHold, PTL
===============================================================================

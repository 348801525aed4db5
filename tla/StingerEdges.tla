---------------------------- MODULE StingerEdges -----------------------------
(***************************************************************************)
(* The edge store of src/core/stinger.c under the threads that update it:  *)
(* stinger_insert_edge, stinger_incr_edge and stinger_remove_edge, with    *)
(* every access that another thread can see as a step of its own.          *)
(*                                                                         *)
(* The edges of a vertex are a linked list of blocks of BlockSize slots.   *)
(* Readers take no lock.  Three kinds of cells are locks, taken by readfe  *)
(* (which leaves MARKER behind) and given back by writeef or writexf: the  *)
(* timeFirst of a slot, the link that ends a list, and the smallStamp of a *)
(* block.  A removal locks the weight of its slot.                         *)
(*                                                                         *)
(* The operations come in phases, as the batch loops issue them: the       *)
(* threads of an "omp for" take the operations of a phase in any order,    *)
(* and its barrier ends the phase.                                         *)
(***************************************************************************)
EXTENDS Integers, Sequences, FiniteSets

CONSTANTS
  Threads,    \* the threads of the parallel region
  NumVertices,\* STINGER_MAX_LVERTICES
  Types,      \* edge types, 0 .. STINGER_NUMETYPES-1
  BlockSize,  \* STINGER_EDGEBLOCKSIZE
  PoolSize,   \* EBPOOL_SIZE
  Workloads   \* the sequences of phases; a phase is a sequence of operations

Vertices == 0..NumVertices-1
Slots    == 0..BlockSize-1
Blocks   == 1..PoolSize-1     \* block index 0 is the null link

ASSUME SizesPositive ==
  /\ NumVertices \in Nat \ {0}
  /\ BlockSize \in Nat \ {0}
  /\ PoolSize \in Nat \ {0, 1}
  /\ Types \subseteq Nat

(* MARKER is UINT64_MAX, which a signed field reads as -1.  Stamps of a    *)
(* new block lie above and below every timestamp of a workload.            *)
MARKER    == -1
INT64_MAX == 99
INT64_MIN == -99

Operations ==
  [kind : {"insert", "incr", "remove"}, type : Types, from : Vertices,
   to : Vertices, weight : Int, ts : Nat]

(* The batch loops of server.cpp and stinger-workflow.c insert or remove:   *)
(* none does both.                                                         *)
ASSUME WorkloadsOK ==
  /\ Workloads \subseteq Seq(Seq(Operations))
  /\ \A w \in Workloads : \A p \in DOMAIN w : \A i, j \in DOMAIN w[p] :
       w[p][i].kind = "remove" => w[p][j].kind = "remove"

VARIABLES
  work,      \* the workload this run executes
  phase,     \* the phase in progress, Len(work)+1 when none is left
  res,       \* res[i]: operation i of the phase is ToDo, Taken, or its result
  eb,        \* eb[b]: the edge block b of the pool
  link,      \* vertices[v].edges and eb[b].next, by cell
  tail,      \* ebpool_tail
  eta,       \* eta[e]: the edge type array of e
  deg,       \* deg[v]: in- and out-degree of vertex v
  total,     \* total_weight
  active,    \* max_active_vertex
  aborted,   \* abort() was called
  th         \* th[t]: program counter and locals of thread t

vars == <<work, phase, res, eb, link, tail, eta, deg, total, active, aborted, th>>

ToDo  == -3
Taken == -2

(* A cell that holds the index of a block, and is locked while it holds    *)
(* MARKER: the head of a vertex's list, or the next field of a block.      *)
HeadOf(v)   == <<"head", v>>
NextOf(b) == <<"next", b>>
Cells     == ({"head"} \X Vertices) \cup ({"next"} \X Blocks)

Complement(v) == -v - 1       \* ~v

ZeroEdge == [nbr |-> 0, weight |-> 0, first |-> 0, recent |-> 0]

(* The pool and the arrays come from xmalloc, unwritten.  A block is       *)
(* cleared by new_eb before anyone reads it; a place of an array is not,   *)
(* and no place is ever given block 0, which stands for that.              *)
Unwritten == 0
NoBlock  == [type |-> 0, vertex |-> 0, num |-> 0, high |-> 0,
             small |-> INT64_MAX, large |-> INT64_MIN,
             edges |-> [k \in Slots |-> ZeroEdge]]

(* th[t].op    index of the operation     th[t].loc   curs.loc             *)
(* th[t].tmp   tmp, 0 past the list       th[t].ptr   block_ptr            *)
(* th[t].k, endk   scan position          th[t].rv    value to return      *)
(* th[t].sv    saved timeFirst, link, weight or max_active_vertex          *)
(* th[t].sm    saved smallStamp           th[t].nw    weight to store      *)
(* th[t].held  an update under the slot's lock                             *)
Idle == [pc |-> "idle", op |-> 0, loc |-> HeadOf(0), ptr |-> HeadOf(0), tmp |-> 0,
         k |-> 0, endk |-> 0, sv |-> 0, sm |-> 0, nw |-> 0, rv |-> 0,
         held |-> FALSE]

Op(t)   == work[phase][th[t].op]
Slot(t) == eb[th[t].tmp].edges[th[t].k]

(* The operations of phase p, and the results when it begins.              *)
OpsOf(w, p) == IF p \in DOMAIN w THEN DOMAIN w[p] ELSE {}
Begun(w, p) == [i \in OpsOf(w, p) |-> ToDo]

Init ==
  /\ work \in Workloads
  /\ phase = 1
  /\ res = Begun(work, 1)
  /\ eb = [b \in Blocks |-> NoBlock]
  /\ link = [c \in Cells |-> 0]
  /\ tail = 1
  /\ eta = [e \in Types |-> [high |-> 0, blocks |-> [i \in 0..PoolSize-1 |-> Unwritten]]]
  /\ deg = [v \in Vertices |-> [in |-> 0, out |-> 0]]
  /\ total = 0
  /\ active = -1
  /\ aborted = FALSE
  /\ th = [t \in Threads |-> Idle]

------------------------------------------------------------------------------
(* Steps: thread t at pc from moves to pc to, with the locals in upd.      *)
At(t, from) == ~aborted /\ th[t].pc = from

Goto(t, upd) == th' = [th EXCEPT ![t] = upd]

Move(t, to) == Goto(t, [th[t] EXCEPT !.pc = to])

batchVars == <<work, phase>>
edgeVars  == <<eb, link>>
poolVars  == <<tail, eta>>
countVars == <<deg, total, active, aborted>>

Finish(t, r) ==
  /\ res' = [res EXCEPT ![th[t].op] = r]
  /\ Goto(t, Idle)

(* "omp for": an idle thread takes an operation nobody has taken.          *)
Take(t, i) ==
  /\ At(t, "idle") /\ phase \in DOMAIN work
  /\ i \in DOMAIN work[phase] /\ res[i] = ToDo
  /\ res' = [res EXCEPT ![i] = Taken]
  /\ th' = [th EXCEPT ![t] = [Idle EXCEPT !.op = i,
              !.nw = work[phase][i].weight,
              !.pc = IF work[phase][i].kind = "remove" THEN "begin" ELSE "activate"]]
  /\ UNCHANGED <<batchVars, edgeVars, poolVars, countVars>>

(* The implicit barrier of the loop, and the loop after it.                *)
Barrier ==
  /\ ~aborted /\ phase \in DOMAIN work
  /\ \A i \in DOMAIN res : res[i] \notin {ToDo, Taken}
  /\ phase' = phase + 1
  /\ res' = Begun(work, phase + 1)
  /\ UNCHANGED <<work, edgeVars, poolVars, countVars, th>>

(* stinger_activate_up_to_vertex_: the loop goes on after a swap that      *)
(* succeeded and ends after one that failed.                               *)
Bigger(t) == IF Op(t).from > Op(t).to THEN Op(t).from ELSE Op(t).to

ReadActive(t) ==
  /\ At(t, "activate")
  /\ IF Bigger(t) > active
     THEN Goto(t, [th[t] EXCEPT !.sv = active, !.pc = "cas"])
     ELSE Move(t, "begin")
  /\ UNCHANGED <<batchVars, res, edgeVars, poolVars, countVars>>

CasActive(t) ==
  /\ At(t, "cas")
  /\ IF active = th[t].sv
     THEN active' = Bigger(t) /\ Move(t, "activate")
     ELSE UNCHANGED active /\ Move(t, "begin")
  /\ UNCHANGED <<batchVars, res, edgeVars, poolVars, deg, total, aborted>>

(* A self-loop is refused.                                                 *)
RefuseLoop(t) ==
  /\ At(t, "begin") /\ Op(t).from = Op(t).to
  /\ Finish(t, -1)
  /\ UNCHANGED <<batchVars, edgeVars, poolVars, countVars>>

OtherType(t, b) == b # 0 /\ eb[b].type # Op(t).type

(* etype_begin: follow the list to the first block of the type, or its end.*)
EtypeStep(t, c) ==
  /\ link[c] # MARKER
  /\ Goto(t, [th[t] EXCEPT !.loc = c, !.tmp = link[c],
                !.pc = IF OtherType(t, link[c]) THEN "etype" ELSE "find"])
  /\ UNCHANGED <<batchVars, res, edgeVars, poolVars, countVars>>

EtypeBegin(t) ==
  /\ At(t, "begin") /\ Op(t).from # Op(t).to
  /\ EtypeStep(t, HeadOf(Op(t).from))

EtypeWalk(t) ==
  /\ At(t, "etype")
  /\ EtypeStep(t, NextOf(th[t].tmp))

------------------------------------------------------------------------------
(* Possibility 1, and all of stinger_remove_edge: look for the edge in the *)
(* slots below the high-water mark of each block of the type.              *)
FindBlock(t) ==
  /\ At(t, "find") /\ th[t].tmp # 0
  /\ LET b == th[t].tmp
     IN  Goto(t, [th[t] EXCEPT !.k = 0, !.endk = eb[b].high,
                    !.pc = IF OtherType(t, b) \/ eb[b].high = 0
                           THEN "findnext" ELSE "findslot"])
  /\ UNCHANGED <<batchVars, res, edgeVars, poolVars, countVars>>

(* Where an edge that is there already leads: stinger_incr_edge_ reads the *)
(* weight it adds to, stinger_insert_edge_ brings the weight to store.     *)
Existing(t) == CASE Op(t).kind = "remove" -> "lockweight"
                 [] Op(t).kind = "incr"   -> "readweight"
                 [] Op(t).kind = "insert" -> "change"

FindSlot(t) ==
  /\ At(t, "findslot")
  /\ IF Slot(t).nbr = Op(t).to
     THEN Move(t, Existing(t))
     ELSE IF th[t].k + 1 < th[t].endk
     THEN Goto(t, [th[t] EXCEPT !.k = @ + 1])
     ELSE Move(t, "findnext")
  /\ UNCHANGED <<batchVars, res, edgeVars, poolVars, countVars>>

FindNext(t) ==
  /\ At(t, "findnext")
  /\ LET c == NextOf(th[t].tmp)
     IN  /\ link[c] # MARKER
         /\ Goto(t, [th[t] EXCEPT !.tmp = link[c], !.pc = "find"])
  /\ UNCHANGED <<batchVars, res, edgeVars, poolVars, countVars>>

FindEnd(t) ==
  /\ At(t, "find") /\ th[t].tmp = 0
  /\ IF Op(t).kind = "remove"
     THEN Finish(t, -1)
     ELSE Move(t, "rescan") /\ UNCHANGED res
  /\ UNCHANGED <<batchVars, edgeVars, poolVars, countVars>>

------------------------------------------------------------------------------
(* Possibility 2: look again for the edge, and for a slot to put it in.    *)
ScanFrom(t, c) ==
  /\ link[c] # MARKER
  /\ Goto(t, [th[t] EXCEPT !.ptr = c, !.tmp = link[c],
                !.pc = IF link[c] = 0 THEN "append" ELSE "scan"])
  /\ UNCHANGED <<batchVars, res, edgeVars, poolVars, countVars>>

Rescan(t) == At(t, "rescan") /\ ScanFrom(t, th[t].loc)

ScanNext(t) == At(t, "scannext") /\ ScanFrom(t, NextOf(th[t].tmp))

ScanBlock(t) ==
  /\ At(t, "scan")
  /\ Goto(t, [th[t] EXCEPT !.k = 0, !.endk = eb[th[t].tmp].high,
                !.pc = IF OtherType(t, th[t].tmp) THEN "scannext" ELSE "slot"])
  /\ UNCHANGED <<batchVars, res, edgeVars, poolVars, countVars>>

(* The thread's locals at the slot after this one.                         *)
NextSlot(t) ==
  IF th[t].k + 1 < BlockSize
  THEN [th[t] EXCEPT !.k = @ + 1, !.pc = "slot"]
  ELSE [th[t] EXCEPT !.pc = "scannext"]

ScanSlot(t) ==
  /\ At(t, "slot")
  /\ LET nbr == Slot(t).nbr
         below == th[t].k < th[t].endk
     IN  IF nbr = Op(t).to /\ below THEN Move(t, Existing(t))
         ELSE IF nbr < 0 \/ ~below THEN Move(t, "lockslot")
         ELSE Goto(t, NextSlot(t))
  /\ UNCHANGED <<batchVars, res, edgeVars, poolVars, countVars>>

(* Mutant of LockSlot: the slot is taken without waiting for its lock.     *)
LockSlot_NoWait(t) ==
  /\ At(t, "lockslot")
  /\ eb' = [eb EXCEPT ![th[t].tmp].edges[th[t].k].first = MARKER]
  /\ Goto(t, [th[t] EXCEPT !.sv = Slot(t).first, !.pc = "recheck"])
  /\ UNCHANGED <<batchVars, res, link, poolVars, countVars>>

(* readfe of timeFirst: the slot may be free, so take its lock ...         *)
LockSlot(t) ==
  /\ At(t, "lockslot")
  /\ Slot(t).first # MARKER
  /\ eb' = [eb EXCEPT ![th[t].tmp].edges[th[t].k].first = MARKER]
  /\ Goto(t, [th[t] EXCEPT !.sv = Slot(t).first, !.pc = "recheck"])
  /\ UNCHANGED <<batchVars, res, link, poolVars, countVars>>

(* Mutant of Recheck: the slot is taken when another edge is not in it,    *)
(* and skipped when the edge itself is.                                    *)
Recheck_MissEdge(t) ==
  /\ At(t, "recheck")
  /\ LET high == eb[th[t].tmp].high
     IN  Goto(t, IF Slot(t).nbr < 0 \/ th[t].k >= high
                 THEN [th[t] EXCEPT !.endk = high, !.rv = 1, !.pc = "setnbr"]
                 ELSE [th[t] EXCEPT !.endk = high, !.pc = "release"])
  /\ UNCHANGED <<batchVars, res, edgeVars, poolVars, countVars>>

(* ... and look at it again: still free, the edge itself, or another edge. *)
Recheck(t) ==
  /\ At(t, "recheck")
  /\ LET high == eb[th[t].tmp].high
         nbr == Slot(t).nbr
     IN  Goto(t, IF nbr < 0 \/ th[t].k >= high
                 THEN [th[t] EXCEPT !.endk = high, !.rv = 1, !.pc = "setnbr"]
                 ELSE IF nbr = Op(t).to
                 THEN [th[t] EXCEPT !.endk = high, !.held = TRUE, !.pc = Existing(t)]
                 ELSE [th[t] EXCEPT !.endk = high, !.pc = "release"])
  /\ UNCHANGED <<batchVars, res, edgeVars, poolVars, countVars>>

Release(t) ==
  /\ At(t, "release")
  /\ eb' = [eb EXCEPT ![th[t].tmp].edges[th[t].k].first = th[t].sv]
  /\ Goto(t, NextSlot(t))
  /\ UNCHANGED <<batchVars, res, link, poolVars, countVars>>

------------------------------------------------------------------------------
(* Mutant of LockLink: the link is not looked at again once it is locked.  *)
LockLink_NoRecheck(t) ==
  /\ At(t, "append")
  /\ link[th[t].ptr] # MARKER
  /\ link' = [link EXCEPT ![th[t].ptr] = MARKER]
  /\ Goto(t, [th[t] EXCEPT !.sv = link[th[t].ptr], !.pc = "newblock"])
  /\ UNCHANGED <<batchVars, res, eb, poolVars, countVars>>

(* Possibility 3: no block has room.  readfe of the link that ended the    *)
(* list; when it ends the list no longer, put it back and scan again.      *)
LockLink(t) ==
  /\ At(t, "append")
  /\ link[th[t].ptr] # MARKER
  /\ link' = [link EXCEPT ![th[t].ptr] = MARKER]
  /\ Goto(t, [th[t] EXCEPT !.sv = link[th[t].ptr],
                !.pc = IF link[th[t].ptr] = 0 THEN "newblock" ELSE "unlink"])
  /\ UNCHANGED <<batchVars, res, eb, poolVars, countVars>>

UnlockLink(t) ==
  /\ At(t, "unlink")
  /\ link[th[t].ptr] = MARKER
  /\ link' = [link EXCEPT ![th[t].ptr] = th[t].sv]
  /\ Move(t, "rescan")
  /\ UNCHANGED <<batchVars, res, eb, poolVars, countVars>>

FirstEdge(o) ==
  [nbr |-> o.to, weight |-> o.weight, first |-> o.ts, recent |-> o.ts]

BlockWith(o) ==
  [type |-> o.type, vertex |-> o.from, num |-> 1, high |-> 1, small |-> o.ts, large |-> o.ts,
   edges |-> [k \in Slots |-> IF k = 0 THEN FirstEdge(o) ELSE ZeroEdge]]

(* Mutant of NewBlock: the tail of the pool is read, not advanced.         *)
NewBlock_SameTail(t) ==
  /\ At(t, "newblock") /\ tail + 1 < PoolSize
  /\ LET o == Op(t)
     IN  /\ eb' = [eb EXCEPT ![tail] = BlockWith(o)]
         /\ deg' = [deg EXCEPT ![o.from].out = @ + 1, ![o.to].in = @ + 1]
         /\ total' = total + o.weight
  /\ link' = [link EXCEPT ![NextOf(tail)] = 0]
  /\ Goto(t, [th[t] EXCEPT !.tmp = tail, !.pc = "claim"])
  /\ UNCHANGED <<batchVars, res, tail, eta, active, aborted>>

(* get_from_ebpool, new_eb and update_edge_data on a block that no other   *)
(* thread can reach yet.                                                   *)
NewBlock(t) ==
  /\ At(t, "newblock") /\ tail + 1 < PoolSize
  /\ LET o == Op(t)
     IN  /\ eb' = [eb EXCEPT ![tail] = BlockWith(o)]
         /\ deg' = [deg EXCEPT ![o.from].out = @ + 1, ![o.to].in = @ + 1]
         /\ total' = total + o.weight
  /\ link' = [link EXCEPT ![NextOf(tail)] = 0]
  /\ tail' = tail + 1
  /\ Goto(t, [th[t] EXCEPT !.tmp = tail, !.pc = "claim"])
  /\ UNCHANGED <<batchVars, res, eta, active, aborted>>

PoolExhausted(t) ==
  /\ At(t, "newblock") /\ tail + 1 >= PoolSize
  /\ tail' = tail + 1
  /\ aborted' = TRUE
  /\ UNCHANGED <<batchVars, res, edgeVars, eta, deg, total, active, th>>

(* Mutant of ClaimPlace: the place is read, not claimed.                   *)
ClaimPlace_NotClaimed(t) ==
  /\ At(t, "claim")
  /\ Goto(t, [th[t] EXCEPT !.k = eta[Op(t).type].high, !.pc = "push"])
  /\ UNCHANGED <<batchVars, res, edgeVars, poolVars, countVars>>

(* push_ebs: claim a place in the edge type array, then fill it.           *)
ClaimPlace(t) ==
  /\ At(t, "claim")
  /\ eta' = [eta EXCEPT ![Op(t).type].high = @ + 1]
  /\ Goto(t, [th[t] EXCEPT !.k = eta[Op(t).type].high, !.pc = "push"])
  /\ UNCHANGED <<batchVars, res, edgeVars, tail, countVars>>

FillPlace(t) ==
  /\ At(t, "push")
  /\ eta' = [eta EXCEPT ![Op(t).type].blocks[th[t].k] = th[t].tmp]
  /\ Move(t, "link")
  /\ UNCHANGED <<batchVars, res, edgeVars, tail, countVars>>

LinkBlock(t) ==
  /\ At(t, "link")
  /\ link[th[t].ptr] = MARKER
  /\ link' = [link EXCEPT ![th[t].ptr] = th[t].tmp]
  /\ Finish(t, 1)
  /\ UNCHANGED <<batchVars, eb, poolVars, countVars>>

------------------------------------------------------------------------------
(* update_edge_data, a new edge in a slot whose lock the thread holds.     *)
SetNeighbor(t) ==
  /\ At(t, "setnbr")
  /\ eb' = [eb EXCEPT ![th[t].tmp].edges[th[t].k].nbr = Op(t).to]
  /\ Move(t, "count")
  /\ UNCHANGED <<batchVars, res, link, poolVars, countVars>>

(* Mutant of CountEdge: only an edge in a new slot is counted.             *)
CountEdge_NotHoles(t) ==
  /\ At(t, "count")
  /\ eb' = [eb EXCEPT ![th[t].tmp].num = @ + (IF th[t].k < eb[th[t].tmp].high THEN 0 ELSE 1)]
  /\ Move(t, IF eb[th[t].tmp].num = 0 THEN "onlyedge" ELSE "degrees")
  /\ UNCHANGED <<batchVars, res, link, poolVars, countVars>>

CountEdge(t) ==
  /\ At(t, "count")
  /\ eb' = [eb EXCEPT ![th[t].tmp].num = @ + 1]
  /\ Move(t, IF eb[th[t].tmp].num = 0 THEN "onlyedge" ELSE "degrees")
  /\ UNCHANGED <<batchVars, res, link, poolVars, countVars>>

(* "only edge in block? - assuming we have block effectively locked": two  *)
(* plain stores.                                                           *)
ResetSmall(t) ==
  /\ At(t, "onlyedge")
  /\ eb' = [eb EXCEPT ![th[t].tmp].small = Op(t).ts]
  /\ Move(t, "onlylarge")
  /\ UNCHANGED <<batchVars, res, link, poolVars, countVars>>

ResetLarge(t) ==
  /\ At(t, "onlylarge")
  /\ eb' = [eb EXCEPT ![th[t].tmp].large = Op(t).ts]
  /\ Move(t, "degrees")
  /\ UNCHANGED <<batchVars, res, link, poolVars, countVars>>

CountDegrees(t) ==
  /\ At(t, "degrees")
  /\ deg' = [deg EXCEPT ![eb[th[t].tmp].vertex].out = @ + 1, ![Op(t).to].in = @ + 1]
  /\ total' = total + th[t].nw
  /\ Move(t, "high")
  /\ UNCHANGED <<batchVars, res, edgeVars, poolVars, active, aborted>>

(* Mutant of RaiseHigh: one slot too many.                                 *)
RaiseHigh_OffByOne(t) ==
  /\ At(t, "high")
  /\ IF th[t].k >= eb[th[t].tmp].high
     THEN eb' = [eb EXCEPT ![th[t].tmp].high = th[t].k + 2]
     ELSE UNCHANGED eb
  /\ Move(t, "unlockslot")
  /\ UNCHANGED <<batchVars, res, link, poolVars, countVars>>

(* Mutant of RaiseHigh: the mark follows the slot, also downwards.         *)
RaiseHigh_Always(t) ==
  /\ At(t, "high")
  /\ eb' = [eb EXCEPT ![th[t].tmp].high = th[t].k + 1]
  /\ Move(t, "unlockslot")
  /\ UNCHANGED <<batchVars, res, link, poolVars, countVars>>

RaiseHigh(t) ==
  /\ At(t, "high")
  /\ IF th[t].k >= eb[th[t].tmp].high
     THEN eb' = [eb EXCEPT ![th[t].tmp].high = th[t].k + 1]
     ELSE UNCHANGED eb
  /\ Move(t, "unlockslot")
  /\ UNCHANGED <<batchVars, res, link, poolVars, countVars>>

UnlockSlot(t) ==
  /\ At(t, "unlockslot")
  /\ eb' = [eb EXCEPT ![th[t].tmp].edges[th[t].k].first = Op(t).ts]
  /\ Move(t, "weight")
  /\ UNCHANGED <<batchVars, res, link, poolVars, countVars>>

------------------------------------------------------------------------------
(* update_edge_data, an edge that is there already.                        *)
ReadWeight(t) ==
  /\ At(t, "readweight")
  /\ Goto(t, [th[t] EXCEPT !.nw = Slot(t).weight + Op(t).weight, !.pc = "change"])
  /\ UNCHANGED <<batchVars, res, edgeVars, poolVars, countVars>>

(* The update looks at the slot once more: without its edge, it would be   *)
(* filled as a new one, with or without its lock.                          *)
ChangeTotal(t) ==
  /\ At(t, "change")
  /\ IF Slot(t).nbr < 0 \/ th[t].k >= eb[th[t].tmp].high
     THEN Move(t, "setnbr") /\ UNCHANGED total
     ELSE total' = total + (th[t].nw - Slot(t).weight) /\ Move(t, "weight")
  /\ UNCHANGED <<batchVars, res, edgeVars, poolVars, deg, active, aborted>>

(* Both kinds of update end with the weight, the stamps of the block, and  *)
(* the slot's own recent timestamp.                                        *)
WriteWeight(t) ==
  /\ At(t, "weight")
  /\ eb' = [eb EXCEPT ![th[t].tmp].edges[th[t].k].weight = th[t].nw]
  /\ Move(t, "stamps")
  /\ UNCHANGED <<batchVars, res, link, poolVars, countVars>>

(* Mutant of CheckSmall: only the smaller stamp is looked at.              *)
CheckSmall_Only(t) ==
  /\ At(t, "stamps")
  /\ eb[th[t].tmp].small # MARKER
  /\ Move(t, IF Op(t).ts < eb[th[t].tmp].small THEN "lockstamp" ELSE "recent")
  /\ UNCHANGED <<batchVars, res, edgeVars, poolVars, countVars>>

(* The stamps are compared without their lock: the smaller one through     *)
(* readff, which waits while it is locked, and the larger one, if need be, *)
(* by a plain load, whoever holds the lock by then.                        *)
CheckSmall(t) ==
  /\ At(t, "stamps")
  /\ eb[th[t].tmp].small # MARKER
  /\ Move(t, IF Op(t).ts < eb[th[t].tmp].small THEN "lockstamp" ELSE "checklarge")
  /\ UNCHANGED <<batchVars, res, edgeVars, poolVars, countVars>>

CheckLarge(t) ==
  /\ At(t, "checklarge")
  /\ Move(t, IF Op(t).ts > eb[th[t].tmp].large THEN "lockstamp" ELSE "recent")
  /\ UNCHANGED <<batchVars, res, edgeVars, poolVars, countVars>>

LockStamp(t) ==
  /\ At(t, "lockstamp")
  /\ eb[th[t].tmp].small # MARKER
  /\ eb' = [eb EXCEPT ![th[t].tmp].small = MARKER]
  /\ Goto(t, [th[t] EXCEPT !.sm = eb[th[t].tmp].small, !.pc = "widen"])
  /\ UNCHANGED <<batchVars, res, link, poolVars, countVars>>

Lesser(x, y)  == IF x < y THEN x ELSE y
Greater(x, y) == IF x > y THEN x ELSE y

(* The larger stamp is compared again and stored, and then the writeef of  *)
(* the smaller one gives the lock back.                                    *)
CompareLarge(t) ==
  /\ At(t, "widen")
  /\ Move(t, IF Op(t).ts > eb[th[t].tmp].large THEN "raise" ELSE "unlockstamp")
  /\ UNCHANGED <<batchVars, res, edgeVars, poolVars, countVars>>

StoreLarge(t) ==
  /\ At(t, "raise")
  /\ eb' = [eb EXCEPT ![th[t].tmp].large = Op(t).ts]
  /\ Move(t, "unlockstamp")
  /\ UNCHANGED <<batchVars, res, link, poolVars, countVars>>

(* Mutant of UnlockStamp: the smaller stamp stays locked.                  *)
UnlockStamp_Forgotten(t) ==
  /\ At(t, "unlockstamp")
  /\ Move(t, "recent")
  /\ UNCHANGED <<batchVars, res, edgeVars, poolVars, countVars>>

UnlockStamp(t) ==
  /\ At(t, "unlockstamp")
  /\ eb[th[t].tmp].small = MARKER
  /\ eb' = [eb EXCEPT ![th[t].tmp].small = Lesser(th[t].sm, Op(t).ts)]
  /\ Move(t, "recent")
  /\ UNCHANGED <<batchVars, res, link, poolVars, countVars>>

WriteRecent(t) ==
  /\ At(t, "recent")
  /\ eb' = [eb EXCEPT ![th[t].tmp].edges[th[t].k].recent = Op(t).ts]
  /\ IF th[t].held
     THEN Move(t, "restore") /\ UNCHANGED res
     ELSE Finish(t, th[t].rv)
  /\ UNCHANGED <<batchVars, link, poolVars, countVars>>

(* The edge was found under the slot's lock: give timeFirst back.          *)
RestoreFirst(t) ==
  /\ At(t, "restore")
  /\ eb' = [eb EXCEPT ![th[t].tmp].edges[th[t].k].first = th[t].sv]
  /\ Finish(t, 0)
  /\ UNCHANGED <<batchVars, link, poolVars, countVars>>

------------------------------------------------------------------------------
(* stinger_remove_edge, once the edge is found: readfe of its weight,      *)
(* another look, and the deleting branch of update_edge_data, which leaves *)
(* MARKER in the weight.                                                   *)
LockWeight(t) ==
  /\ At(t, "lockweight")
  /\ Slot(t).weight # MARKER
  /\ eb' = [eb EXCEPT ![th[t].tmp].edges[th[t].k].weight = MARKER]
  /\ Goto(t, [th[t] EXCEPT !.sv = Slot(t).weight, !.pc = "reremove"])
  /\ UNCHANGED <<batchVars, res, link, poolVars, countVars>>

RecheckRemove(t) ==
  /\ At(t, "reremove")
  /\ IF Slot(t).nbr = Op(t).to
     THEN Move(t, "uncount") /\ UNCHANGED <<eb, res>>
     ELSE /\ Slot(t).weight = MARKER
          /\ eb' = [eb EXCEPT ![th[t].tmp].edges[th[t].k].weight = th[t].sv]
          /\ Finish(t, 0)
  /\ UNCHANGED <<batchVars, link, poolVars, countVars>>

Uncount(t) ==
  /\ At(t, "uncount")
  /\ deg' = [deg EXCEPT ![eb[th[t].tmp].vertex].out = @ - 1, ![Slot(t).nbr].in = @ - 1]
  /\ eb' = [eb EXCEPT ![th[t].tmp].num = @ - 1]
  /\ Move(t, "clear")
  /\ UNCHANGED <<batchVars, res, link, poolVars, total, active, aborted>>

(* Mutant of ClearSlot: the neighbor stays.                                *)
ClearSlot_KeepNeighbor(t) ==
  /\ At(t, "clear")
  /\ total' = total - Slot(t).weight
  /\ Finish(t, 1)
  /\ UNCHANGED <<batchVars, edgeVars, poolVars, deg, active, aborted>>

ClearSlot(t) ==
  /\ At(t, "clear")
  /\ eb' = [eb EXCEPT ![th[t].tmp].edges[th[t].k].nbr = Complement(Op(t).to)]
  /\ total' = total - Slot(t).weight
  /\ Finish(t, 1)
  /\ UNCHANGED <<batchVars, link, poolVars, deg, active, aborted>>

------------------------------------------------------------------------------
Step(t) ==
  \/ \E i \in DOMAIN res : Take(t, i)
  \/ ReadActive(t) \/ CasActive(t) \/ RefuseLoop(t)
  \/ EtypeBegin(t) \/ EtypeWalk(t)
  \/ FindBlock(t) \/ FindSlot(t) \/ FindNext(t) \/ FindEnd(t)
  \/ Rescan(t) \/ ScanBlock(t) \/ ScanSlot(t) \/ ScanNext(t)
  \/ LockSlot(t) \/ Recheck(t) \/ Release(t)
  \/ LockLink(t) \/ UnlockLink(t)
  \/ NewBlock(t) \/ PoolExhausted(t) \/ ClaimPlace(t) \/ FillPlace(t) \/ LinkBlock(t)
  \/ SetNeighbor(t) \/ CountEdge(t) \/ ResetSmall(t) \/ ResetLarge(t) \/ CountDegrees(t)
  \/ RaiseHigh(t) \/ UnlockSlot(t)
  \/ ReadWeight(t) \/ ChangeTotal(t) \/ WriteWeight(t)
  \/ CheckSmall(t) \/ CheckLarge(t) \/ LockStamp(t) \/ CompareLarge(t) \/ StoreLarge(t)
  \/ UnlockStamp(t) \/ WriteRecent(t)
  \/ RestoreFirst(t)
  \/ LockWeight(t) \/ RecheckRemove(t) \/ Uncount(t) \/ ClearSlot(t)

(* The last barrier has been passed, or the process is gone.               *)
Over ==
  /\ aborted \/ phase \notin DOMAIN work
  /\ UNCHANGED vars

Next == Barrier \/ Over \/ \E t \in Threads : Step(t)

Spec == Init /\ [][Next]_vars

(* Every thread of the team is scheduled, and so is the barrier.           *)
FairSpec ==
  /\ Spec
  /\ WF_vars(Barrier)
  /\ \A t \in Threads : WF_vars(Step(t))
------------------------------------------------------------------------------
(* The state the properties speak of.                                      *)

(* A block is private to its creator until a link leads to it.  The last   *)
(* of the pool is never handed out.                                        *)
Private(b) == \E t \in Threads : th[t].pc \in {"claim", "push", "link"} /\ th[t].tmp = b
Listed     == {b \in Blocks : b < tail /\ b + 1 < PoolSize /\ ~Private(b)}

(* A slot holds an edge when a scan of the block would take it for one.    *)
Occupied(b, k) == k < eb[b].high /\ eb[b].edges[k].nbr >= 0
Occupants(b)   == {k \in Slots : Occupied(b, k)}
EdgeSlots      == {p \in Listed \X Slots : Occupied(p[1], p[2])}
EdgeIn(b, k)   == <<eb[b].type, eb[b].vertex, eb[b].edges[k].nbr>>
Edges          == {EdgeIn(p[1], p[2]) : p \in EdgeSlots}

AllIdle == ~aborted /\ \A t \in Threads : th[t].pc = "idle"

(* The thread is between the readfe of a slot's timeFirst and the store    *)
(* that gives it back.                                                     *)
HoldsSlot(t) ==
  \/ th[t].pc \in {"recheck", "release", "setnbr", "count", "onlyedge",
                   "onlylarge", "degrees", "high", "unlockslot", "restore"}
  \/ th[t].held

HoldsLink(t) == th[t].pc \in {"newblock", "unlink", "claim", "push", "link"}

ProgramCounters ==
  {"idle", "activate", "cas", "begin", "etype", "find", "findslot", "findnext",
   "rescan", "scan", "slot", "scannext", "lockslot", "recheck", "release",
   "append", "newblock", "unlink", "claim", "push", "link", "setnbr", "count",
   "onlyedge", "onlylarge", "degrees", "high", "unlockslot", "readweight", "change",
   "weight", "stamps", "checklarge", "lockstamp", "widen", "raise", "unlockstamp", "recent",
   "restore", "lockweight", "reremove", "uncount", "clear"}

Edge == [nbr : Int, weight : Int, first : Int, recent : Int]
EdgeBlock == [type : Int, vertex : Int, num : Int, high : 0..BlockSize,
              small : Int, large : Int, edges : [Slots -> Edge]]
Locals == [pc : ProgramCounters, op : Nat, loc : Cells, ptr : Cells, tmp : 0..PoolSize-1,
           k : Nat, endk : Nat, sv : Int, sm : Int, nw : Int, rv : {0, 1},
           held : BOOLEAN]

(* Type invariant: indices stay inside the pool and inside a block.        *)
TypeOK ==
  /\ work \in Workloads
  /\ phase \in Nat
  /\ res \in [OpsOf(work, phase) -> {ToDo, Taken, -1, 0, 1}]
  /\ eb \in [Blocks -> EdgeBlock]
  /\ link \in [Cells -> {MARKER} \cup 0..PoolSize-1]
  /\ tail \in 1..PoolSize
  /\ eta \in [Types -> [high : Nat, blocks : [0..PoolSize-1 -> 0..PoolSize-1]]]
  /\ deg \in [Vertices -> [in : Int, out : Int]]
  /\ total \in Int
  /\ active \in {-1} \cup Vertices
  /\ aborted \in BOOLEAN
  /\ th \in [Threads -> Locals]

(* The timeFirst of a slot is a lock: two threads never hold it at once,   *)
(* and while a thread holds it, it reads MARKER (the "slot lock" of        *)
(* stinger_insert_edge_).                                                  *)
SlotLockExclusive ==
  /\ \A t, u \in Threads :
       HoldsSlot(t) /\ HoldsSlot(u) /\ t # u
         => <<th[t].tmp, th[t].k>> # <<th[u].tmp, th[u].k>>
  /\ \A t \in Threads : HoldsSlot(t) => Slot(t).first = MARKER

(* No scan ever finds one edge in two slots, whatever inserts race for it: *)
(* the duplicates stinger_consistency_check looks for (0x400).             *)
NoDuplicateEdge ==
  \A p, q \in EdgeSlots : EdgeIn(p[1], p[2]) = EdgeIn(q[1], q[2]) => p = q

(* The block that c leads to, also while a thread holds c locked.          *)
LeadsTo(c, b) ==
  \/ link[c] = b
  \/ \E t \in Threads : th[t].pc = "unlink" /\ th[t].ptr = c /\ th[t].sv = b

(* No block is lost when threads race to append, and no list has a fork or *)
(* a cycle: exactly one link leads to a block in a list, from the head of  *)
(* the block's own vertex or from an older block of the same list.         *)
NoBlockLost ==
  \A b \in Listed :
    \E c \in Cells :
      /\ LeadsTo(c, b)
      /\ \A d \in Cells : LeadsTo(d, b) => d = c
      /\ \/ c = HeadOf(eb[b].vertex)
         \/ \E a \in Listed : c = NextOf(a) /\ a < b /\ eb[a].vertex = eb[b].vertex

(* A block is in the edge type array of its type, once, before any list    *)
(* leads to it: a traversal by type sees whatever one by vertex has seen.  *)
ListedIsPublished ==
  \A b \in Listed :
    Cardinality({i \in 0..eta[eb[b].type].high-1 : eta[eb[b].type].blocks[i] = b}) = 1

StampsCover(b) ==
  \A k \in Occupants(b) : LET e == eb[b].edges[k] IN
    /\ eb[b].small <= Lesser(e.first, e.recent)
    /\ Greater(e.first, e.recent) <= eb[b].large

(* What stinger_consistency_check counts is right whenever no update is    *)
(* running: the edges of a block (0x8), nothing above its high-water mark  *)
(* (0x40), degrees (0x80, 0x100) and no self-loop (0x200).                 *)
CountsWhenIdle ==
  AllIdle =>
    /\ \A b \in Listed :
         /\ eb[b].num = Cardinality(Occupants(b))
         /\ \A k \in Slots : k >= eb[b].high => eb[b].edges[k] = ZeroEdge
         /\ \A k \in Occupants(b) : eb[b].edges[k].nbr # eb[b].vertex
    /\ \A v \in Vertices :
         /\ deg[v].out = Cardinality({p \in EdgeSlots : eb[p[1]].vertex = v})
         /\ deg[v].in = Cardinality({p \in EdgeSlots : eb[p[1]].edges[p[2]].nbr = v})

(* So are the stamps of a block, which bound those of its edges (0x10,     *)
(* 0x20), unless two insertions have met in an emptied block.              *)
StampsWhenIdle == AllIdle => \A b \in Listed : StampsCover(b)

(* No two threads are ever given the same block, and the process aborts    *)
(* for want of blocks only when every block that can be used is: the last  *)
(* of the pool never is.                                                   *)
PoolHandedOut ==
  /\ \A t, u \in Threads :
       th[t].pc \in {"claim", "push", "link"} /\ th[u].pc \in {"claim", "push", "link"}
         /\ th[t].tmp = th[u].tmp => t = u
  /\ aborted => \A b \in 1..PoolSize-2 :
                  Private(b) \/ \E c \in Cells : LeadsTo(c, b)

(* A high-water mark never falls, and a slot below it never loses its edge *)
(* to another edge without having been removed first.                      *)
SlotsAreNotOverwritten ==
  [][\A b \in Blocks : \A k \in Slots :
       /\ eb[b].high <= eb'[b].high
       /\ Occupied(b, k) /\ eb'[b].edges[k].nbr # eb[b].edges[k].nbr
            => eb'[b].edges[k].nbr < 0]_vars

(* Every operation of every phase returns: no thread waits for ever for a  *)
(* slot, a link or a block's stamps.                                       *)
Termination == <>(aborted \/ phase \notin DOMAIN work)

------------------------------------------------------------------------------
(* What a comment of the code claims and the code does not do.             *)

(* update_edge_data: "assuming we have block effectively locked" when it   *)
(* resets the stamps, so that a thread that locked them finds its lock.    *)
StampLockKept ==
  \A t \in Threads :
    th[t].pc \in {"widen", "raise", "unlockstamp"} => eb[th[t].tmp].small = MARKER

(* stinger_remove_edge: "@return 1 on success, 0 if the edge is not        *)
(* found", of vertices that differ.                                        *)
RemovalAnswers ==
  \A i \in DOMAIN res :
    LET o == work[phase][i] IN
      o.kind = "remove" /\ o.from # o.to => res[i] \in {ToDo, Taken, 0, 1}

------------------------------------------------------------------------------
(* The result an operation is bound to return, from the step at which its  *)
(* effect is visible or the edge was seen: a new edge counts from the step *)
(* that lets a scan see it.                                                *)
Bound(t) ==
  IF Op(t).kind = "remove" THEN Taken
  ELSE IF th[t].rv = 1 /\ th[t].pc \notin {"setnbr"} /\ th[t].k < eb[th[t].tmp].high THEN 1
  ELSE IF th[t].rv = 0 /\ th[t].pc \in {"readweight", "change", "weight", "stamps",
            "checklarge", "lockstamp", "widen", "raise", "unlockstamp", "recent", "restore"} THEN 0
  ELSE Taken

ResultOf(i) ==
  IF res[i] # Taken THEN res[i]
  ELSE LET t == CHOOSE u \in Threads : th[u].pc # "idle" /\ th[u].op = i
       IN  IF Bound(t) = Taken THEN ToDo ELSE Bound(t)

(* The concurrent edge store implements an atomic set of edges: the calls  *)
(* return as if they had run one after another, an insertion what its      *)
(* comment promises and a removal 1 where it removed the edge.             *)
Abstract == INSTANCE EdgeSet WITH present <- Edges, res <- [i \in DOMAIN res |-> ResultOf(i)]

ImplementsEdgeSet == Abstract!Spec
==============================================================================

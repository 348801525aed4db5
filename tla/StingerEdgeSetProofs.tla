------------------------ MODULE StingerEdgeSetProofs -------------------------
(***************************************************************************)
(* The concurrent edge store of StingerEdges never holds an edge twice,    *)
(* and implements the atomic set of edges of EdgeSet, for every number of  *)
(* threads, vertices, blocks and slots and for every workload, on top of   *)
(* IInv, Places and Lists of StingerEdgesProofs.                           *)
(*                                                                         *)
(* First part, no edge twice.  An insertion puts its edge in the first     *)
(* free slot of its list, and that is all the synchronisation there is     *)
(* between two of them: a thread comes to a slot only when all before it   *)
(* are taken by other edges, and an edge that another thread put there     *)
(* after the thread had looked leaves no free slot before it.  So of two   *)
(* threads with one edge the one that fills a slot is in the other's way.  *)
(*                                                                         *)
(* Second part, the atomic set: each operation takes effect, and is bound  *)
(* to the result it returns, in one step.                                  *)
(*                                                                         *)
(* Third part, the counts: a slot is counted in its block, and weighed in  *)
(* the degrees, from one step to another that are not those in which its   *)
(* edge comes into sight and goes; between updates the two are the same.   *)
(*                                                                         *)
(* Fourth part, the stamps: those of a block span the times of its edges,  *)
(* or a thread is still to widen them, as long as nobody else is storing   *)
(* into the block when one thread resets them.                             *)
(***************************************************************************)
EXTENDS StingerEdgesProofs

(* The program counters of a thread that looks for its edge; that looks    *)
(* for a place for it, until the edge can be seen there; and of these, at  *)
(* a slot, in which the thread then fills in the edge.                     *)
FindPcs  == {"find", "findslot", "findnext"}
FillPcs  == {"setnbr", "count", "onlyedge", "onlylarge", "degrees", "high"}
ProbePcs == {"slot", "lockslot", "recheck", "release"} \cup FillPcs
EndPcs   == {"append", "newblock"} \cup CreatingPcs
NewPcs   == {"rescan", "scan", "scannext", "unlink"} \cup ProbePcs \cup EndPcs

(* Block d is one that operation o looks at; slot j of it holds o's edge,  *)
(* or another one.                                                         *)
Mine(d, o)    == d \in Listed /\ eb[d].vertex = o.from /\ eb[d].type = o.type
Has(d, j, o)  == Mine(d, o) /\ Occupied(d, j) /\ eb[d].edges[j].nbr = o.to
Full(d, j, o) == Occupied(d, j) /\ eb[d].edges[j].nbr # o.to

(* No slot that a scan comes to before slot j of block d is free.          *)
Tight(d, j, o) ==
  \A b \in Listed : \A i \in Slots :
    Mine(b, o) /\ (b < d \/ (b = d /\ i < j)) => Occupied(b, i)

(* What a thread with locals x has looked at in its first and its second   *)
(* scan of the list of v.                                                  *)
Looked(x, d, j) ==
  \/ x.pc = "find" /\ (x.tmp = 0 \/ d < x.tmp)
  \/ x.pc = "findslot" /\ (d < x.tmp \/ (d = x.tmp /\ (j < x.k \/ j >= x.endk)))
  \/ x.pc = "findnext" /\ d <= x.tmp

Passed(x, v, d, j) ==
  \/ x.pc = "scan" /\ d < x.tmp
  \/ x.pc = "scannext" /\ d <= x.tmp
  \/ x.pc \in ProbePcs /\ (d < x.tmp \/ (d = x.tmp /\ j < x.k))
  \/ x.pc = "release" /\ d = x.tmp /\ j = x.k
  \/ x.pc \in EndPcs /\ ~Before(x.ptr, d, v)

(* The list of a vertex is in the order of its blocks' numbers.            *)
Ordered ==
  \A c \in Cells : \A v \in Vertices : \A d \in Listed :
    Inside(c, v) /\ eb[d].vertex = v /\ Before(c, d, v) =>
      \E b \in Blocks : LeadsTo(c, b) /\ b <= d

(* Of a thread with locals x and operation o: no block of its type is      *)
(* before curs.loc; what its first scan has passed over holds its edge     *)
(* only with no free slot before it; and so does every slot, once it looks *)
(* for a free one, and those it has come past hold other edges.            *)
Begins(x, o) ==
  /\ x.pc \notin EarlyPcs => \A d \in Listed : Mine(d, o) => Before(x.loc, d, o.from)
  /\ x.pc = "etype" => \A d \in Listed : Mine(d, o) => x.tmp < d

Finds(x, o) ==
  x.pc \in FindPcs /\ o.kind # "remove" =>
    \A d \in Listed : \A j \in Slots : Has(d, j, o) /\ Looked(x, d, j) => Tight(d, j, o)

Chooses(x, o) ==
  x.pc \in NewPcs =>
    \A d \in Listed : \A j \in Slots :
      /\ Has(d, j, o) => Tight(d, j, o)
      /\ Mine(d, o) /\ Passed(x, o.from, d, j) => Full(d, j, o)

Scan(x, o) == Begins(x, o) /\ Finds(x, o) /\ Chooses(x, o)

(* A thread at a slot is in a block of its type; and what it has put in    *)
(* its slot, or in its block.                                              *)
Fills(t) ==
  /\ th[t].pc \in ProbePcs => eb[th[t].tmp].type = Op(t).type
  /\ th[t].pc \in FillPcs \ {"setnbr"} => Slot(t).nbr = Op(t).to
  /\ th[t].pc \in CreatingPcs =>
       eb[th[t].tmp].high = 1 /\ eb[th[t].tmp].edges[0].nbr = Op(t).to

Single ==
  \A d, b \in Listed : \A i, j \in Slots : \A o :
    Has(d, j, o) /\ Has(b, i, o) => d = b /\ j = i

Uniqueness ==
  /\ Ordered /\ Single
  /\ \A t \in Threads : Scan(th[t], Op(t)) /\ Fills(t)

------------------------------------------------------------------------------
(* The order of a list.                                                    *)
LEMMA Numbers ==
  /\ Listed \subseteq Blocks
  /\ \A b \in Blocks : b \in Nat /\ b # 0
  /\ \A j \in Slots : j \in Nat
BY DEF Listed, Blocks, Slots

(* No step changes what list a block is in.                                *)
LEMMA ListedStay ==
  ASSUME IInv, NEW t \in Threads, Step(t)
  PROVE  \A b \in Listed : eb'[b].vertex = eb[b].vertex /\ eb'[b].type = eb[b].type
<1>1. CASE NewBlock(t)
  <2>1. \A b \in Blocks \ {tail} : eb'[b] = eb[b] BY <1>1, BlockAdded
  <2>2. \A b \in Listed : b \in Blocks \ {tail}
    <3>1. tail \in Int BY DEF IInv, TypeOK
    <3>. QED BY <3>1 DEF Listed, Blocks
  <2>. QED BY <2>1, <2>2
<1>2. CASE ~NewBlock(t) BY <1>2, StepEdits, Numbers DEF Edit
<1>. QED BY <1>1, <1>2

LEMMA OrderedStays ==
  ASSUME Ordered, SameLists, \A b \in Listed : eb'[b].vertex = eb[b].vertex
  PROVE  Ordered'
<1>1. \A c, v : Inside(c, v)' <=> Inside(c, v) BY DEF Inside, SameLists
<1>2. \A c, b, v : Before(c, b, v)' <=> Before(c, b, v) BY DEF Before, SameLists
<1>. QED BY <1>1, <1>2 DEF Ordered, SameLists

(* A thread that adds a block adds it behind all others of its list.       *)
LEMMA AtTheEnd ==
  ASSUME IInv, Lists, Ordered, NEW t \in Threads, th[t].pc \in {"newblock"} \cup CreatingPcs,
         NEW d \in Listed, eb[d].vertex = Op(t).from
  PROVE  ~Before(th[t].ptr, d, Op(t).from) /\ (th[t].pc \in CreatingPcs => d < th[t].tmp)
<1>. SUFFICES ASSUME NEW p, NEW v, p = th[t].ptr, v = Op(t).from
              PROVE  ~Before(p, d, v) /\ (th[t].pc \in CreatingPcs => d < th[t].tmp)
     OBVIOUS
<1>1. th[t].pc \in LinkPcs BY DEF LinkPcs
<1>2. p \in Cells /\ v \in Vertices BY <1>1, Working, OpFields DEF LinkPcs, CreatingPcs
<1>3. Inside(p, v) /\ link[p] = MARKER BY <1>1 DEF Lists, LinkHeld, InList
<1>4. ASSUME NEW b \in Blocks PROVE ~LeadsTo(p, b)
  <2>1. b # MARKER BY SizesPositive DEF Blocks, MARKER
  <2>2. \A u \in Threads : th[u].pc = "unlink" /\ th[u].ptr = p => u = t
        BY <1>1 DEF Lists, LinkHeld, LinkPcs
  <2>3. th[t].pc # "unlink" BY DEF CreatingPcs
  <2>. QED BY <1>3, <2>1, <2>2, <2>3 DEF LeadsTo
<1>5. ~Before(p, d, v) BY <1>2, <1>3, <1>4 DEF Ordered
<1>6. ASSUME th[t].pc \in CreatingPcs PROVE d < th[t].tmp
  <2>1. Before(p, th[t].tmp, v) BY <1>6 DEF Lists, InList
  <2>2. p # HeadOf(v) BY <1>5 DEF Before
  <2>3. PICK a \in Listed : p = NextOf(a) /\ a < th[t].tmp /\ eb[a].vertex = v
        BY <2>1, <2>2 DEF Before
  <2>4. ~(a < d) BY <1>5, <2>3 DEF Before
  <2>5. th[t].tmp \in Nat BY <1>1, Working DEF LinkPcs, CreatingPcs
  <2>. QED BY <2>3, <2>4, <2>5, Numbers
<1>. QED BY <1>5, <1>6

LEMMA OrderedLinks ==
  ASSUME IInv, Lists, Ordered, NEW t \in Threads, LinkBlock(t), Enlists(t)
  PROVE  Ordered'
<1>. SUFFICES ASSUME NEW p, NEW n, NEW w, p = th[t].ptr, n = th[t].tmp, w = Op(t).from
              PROVE  Ordered'
     OBVIOUS
<1>1. th[t].pc = "link" /\ eb' = eb BY Zenon DEF LinkBlock, At
<1>2. /\ Listed' = Listed \cup {n} /\ n \notin Listed
      /\ \A c \in Cells : \A b \in Blocks :
           LeadsTo(c, b)' <=> (LeadsTo(c, b) \/ (c = p /\ b = n))
      BY DEF Enlists
<1>3. n \in Blocks /\ p \in Cells /\ w \in Vertices
      BY <1>1, Working, AtBlock, OpFields DEF Fits, BlockPcs
<1>4. eb[n].vertex = w /\ Inside(p, w) /\ Before(p, n, w)
      BY <1>1 DEF Lists, InList, CreatingPcs, LinkPcs
<1>5. \A d \in Listed : eb[d].vertex = w => ~Before(p, d, w) /\ d < n
      BY <1>1, AtTheEnd DEF CreatingPcs
<1>6. \A c, b, v : Before(c, b, v)' <=>
        (Before(c, b, v) \/ (c = NextOf(n) /\ n < b /\ eb[n].vertex = v))
      BY <1>1, <1>2 DEF Before
<1>7. \A c, v : Inside(c, v)' <=> (Inside(c, v) \/ (c = NextOf(n) /\ eb[n].vertex = v))
      BY <1>1, <1>2 DEF Inside
<1>. SUFFICES ASSUME NEW c \in Cells, NEW v \in Vertices, NEW d \in Listed \cup {n},
                     Inside(c, v)', eb[d].vertex = v, Before(c, d, v)'
              PROVE  \E b \in Blocks : LeadsTo(c, b)' /\ b <= d
     BY <1>1, <1>2 DEF Ordered
<1>8. d \in Nat /\ n \in Nat /\ (v = w => d <= n) BY <1>3, <1>4, <1>5, Numbers
<1>9. ~(c = NextOf(n) /\ n < d /\ eb[n].vertex = v) BY <1>4, <1>8, Numbers
<1>10. Before(c, d, v) BY <1>6, <1>9
<1>11. Inside(c, v)
  <2>1. c # NextOf(n) \/ eb[n].vertex # v
    <3>1. ASSUME c = NextOf(n) PROVE FALSE
      <4>1. \A a \in Listed : c # NextOf(a) BY <1>2, <3>1, CellNames
      <4>2. c # HeadOf(v) BY <3>1, CellNames
      <4>. QED BY <1>10, <4>1, <4>2 DEF Before
    <3>. QED BY <3>1
  <2>. QED BY <1>7, <2>1
<1>12. CASE d \in Listed
  <2>1. PICK b \in Blocks : LeadsTo(c, b) /\ b <= d BY <1>10, <1>11, <1>12 DEF Ordered
  <2>. QED BY <1>2, <2>1
<1>13. CASE d = n
  <2>1. v = w BY <1>4, <1>13
  <2>2. CASE c = p
    <3>1. LeadsTo(c, n)' BY <1>2, <1>3, <2>2
    <3>. QED BY <1>3, <1>13, <3>1, Numbers
  <2>3. CASE c # p
    <3>1. PICK a \in Listed : eb[a].vertex = v /\ Before(c, a, v)
      <4>1. CASE p = HeadOf(v)
        <5>1. \A a \in Listed : eb[a].vertex # v BY <1>5, <2>1, <4>1 DEF Before
        <5>. QED BY <1>11, <2>3, <4>1, <5>1 DEF Inside
      <4>2. CASE p # HeadOf(v)
        <5>1. PICK a \in Listed : p = NextOf(a) /\ eb[a].vertex = v
              BY <1>4, <2>1, <4>2 DEF Inside
        <5>2. CASE c = HeadOf(v) BY <5>1, <5>2 DEF Before
        <5>3. CASE c # HeadOf(v)
          <6>1. PICK e \in Listed : c = NextOf(e) /\ eb[e].vertex = v
                BY <1>11, <5>3 DEF Inside
          <6>2. e # a BY <2>3, <5>1, <6>1
          <6>3. ~(a < e) BY <1>5, <2>1, <5>1, <6>1 DEF Before
          <6>4. e < a BY <6>2, <6>3, Numbers
          <6>. QED BY <5>1, <6>1, <6>4 DEF Before
        <5>. QED BY <5>2, <5>3
      <4>. QED BY <4>1, <4>2
    <3>2. PICK b \in Blocks : LeadsTo(c, b) /\ b <= a BY <1>11, <3>1 DEF Ordered
    <3>3. a < n BY <1>5, <2>1, <3>1
    <3>4. b <= d BY <1>3, <1>13, <3>2, <3>3, Numbers
    <3>. QED BY <1>2, <3>2, <3>4
  <2>. QED BY <2>2, <2>3
<1>. QED BY <1>12, <1>13

------------------------------------------------------------------------------
(* What a step leaves of another thread's findings.  Lists grow at their   *)
(* ends, slots that are taken stay so, and what can be seen for the first  *)
(* time has no free slot before it.                                        *)
ListsGrow ==
  /\ Listed \subseteq Listed'
  /\ \A d \in Listed : eb'[d].vertex = eb[d].vertex /\ eb'[d].type = eb[d].type
  /\ \A d \in Listed' \ Listed : \A b \in Listed : eb[b].vertex = eb'[d].vertex => b < d

SlotsGrow ==
  \A d \in Listed : \A j \in Slots : Occupied(d, j) =>
    Occupied(d, j)' /\ eb'[d].edges[j].nbr = eb[d].edges[j].nbr

Fresh ==
  \A d \in Listed' : \A j \in Slots : \A o : Has(d, j, o)' => Has(d, j, o) \/ Tight(d, j, o)'

(* Where locals x of an operation o point.                                 *)
Points(x, o) ==
  /\ x.pc \notin EarlyPcs => Inside(x.loc, o.from)
  /\ x.pc \in EndPcs => Inside(x.ptr, o.from)
  /\ x.pc \in {"etype", "find", "findslot", "findnext", "scan", "scannext"} \cup ProbePcs =>
       x.tmp = 0 \/ (x.tmp \in Listed /\ eb[x.tmp].vertex = o.from)
  /\ x.pc \in {"etype", "findslot", "findnext", "scan", "scannext"} \cup ProbePcs => x.tmp # 0

LEMMA MineStays ==
  ASSUME ListsGrow
  PROVE  \A d \in Listed : \A o : Mine(d, o)' <=> Mine(d, o)
BY DEF ListsGrow, Mine

LEMMA InsideStays ==
  ASSUME ListsGrow, NEW c, NEW v, Inside(c, v)
  PROVE  /\ \A d \in Listed : Before(c, d, v)' <=> Before(c, d, v)
         /\ \A d \in Listed' \ Listed : eb'[d].vertex = v => Before(c, d, v)'
<1>1. ASSUME NEW d \in Listed PROVE Before(c, d, v)' <=> Before(c, d, v)
  <2>1. ASSUME NEW a \in Listed', c = NextOf(a), a < d, eb'[a].vertex = v PROVE a \in Listed
    <3>1. CASE c = HeadOf(v) BY <2>1, <3>1, CellNames
    <3>2. CASE c # HeadOf(v) BY <2>1, <3>2, CellNames DEF Inside
    <3>. QED BY <3>1, <3>2
  <2>. QED BY <2>1 DEF Before, ListsGrow
<1>2. ASSUME NEW d \in Listed' \ Listed, eb'[d].vertex = v PROVE Before(c, d, v)'
  <2>1. CASE c = HeadOf(v) BY <2>1 DEF Before
  <2>2. CASE c # HeadOf(v)
    <3>1. PICK a \in Listed : c = NextOf(a) /\ eb[a].vertex = v BY <2>2 DEF Inside
    <3>2. a < d /\ a \in Listed' /\ eb'[a].vertex = v BY <1>2, <3>1 DEF ListsGrow
    <3>. QED BY <3>1, <3>2 DEF Before
  <2>. QED BY <2>1, <2>2
<1>. QED BY <1>1, <1>2

LEMMA TightStays ==
  ASSUME ListsGrow, SlotsGrow, NEW d \in Listed, NEW j, NEW o, Mine(d, o), Tight(d, j, o)
  PROVE  Tight(d, j, o)'
<1>. SUFFICES ASSUME NEW b \in Listed', NEW i \in Slots, Mine(b, o)',
                     b < d \/ (b = d /\ i < j)
              PROVE  Occupied(b, i)'
     BY DEF Tight
<1>1. CASE b \in Listed
  <2>1. Mine(b, o) BY <1>1, MineStays
  <2>2. Occupied(b, i) BY <1>1, <2>1 DEF Tight
  <2>. QED BY <1>1, <2>2 DEF SlotsGrow
<1>2. CASE b \notin Listed
  <2>1. d < b BY <1>2 DEF ListsGrow, Mine
  <2>2. b \in Nat /\ d \in Nat BY Numbers DEF Listed, Blocks
  <2>. QED BY <2>1, <2>2
<1>. QED BY <1>1, <1>2

LEMMA BeginsStay ==
  ASSUME ListsGrow, NEW x, NEW o, Points(x, o), Begins(x, o)
  PROVE  Begins(x, o)'
<1>1. ASSUME x.pc \notin EarlyPcs, NEW d \in Listed', Mine(d, o)' PROVE Before(x.loc, d, o.from)'
  <2>1. Inside(x.loc, o.from) BY <1>1 DEF Points
  <2>2. CASE d \in Listed
    <3>1. Mine(d, o) BY <1>1, <2>2, MineStays
    <3>. QED BY <1>1, <2>1, <2>2, <3>1, InsideStays DEF Begins
  <2>3. CASE d \notin Listed
    <3>1. eb'[d].vertex = o.from BY <1>1 DEF Mine
    <3>. QED BY <2>1, <2>3, <3>1, InsideStays
  <2>. QED BY <2>2, <2>3
<1>2. ASSUME x.pc = "etype", NEW d \in Listed', Mine(d, o)' PROVE x.tmp < d
  <2>1. x.tmp \in Listed /\ eb[x.tmp].vertex = o.from BY <1>2 DEF Points
  <2>2. CASE d \in Listed BY <1>2, <2>2, MineStays DEF Begins
  <2>3. CASE d \notin Listed BY <1>2, <2>1, <2>3 DEF ListsGrow, Mine
  <2>. QED BY <2>2, <2>3
<1>. QED BY <1>1, <1>2 DEF Begins

(* A block that enters the list was not in anyone's way.                   *)
LEMMA NotPassed ==
  ASSUME ListsGrow, NEW x, NEW o, Points(x, o), NEW d \in Listed', NEW j \in Slots, Mine(d, o)',
         Passed(x, o.from, d, j)'
  PROVE  d \in Listed /\ Mine(d, o) /\ Passed(x, o.from, d, j)
<1>. SUFFICES ASSUME NEW v, v = o.from, Passed(x, v, d, j)'
              PROVE  d \in Listed /\ Mine(d, o) /\ Passed(x, v, d, j)
     OBVIOUS
<1>1. CASE x.pc \in EndPcs
  <2>1. x.pc \notin {"scan", "scannext", "release"} \cup ProbePcs
        BY <1>1 DEF EndPcs, CreatingPcs, ProbePcs, FillPcs
  <2>2. ~Before(x.ptr, d, v)' BY <2>1 DEF Passed
  <2>3. Inside(x.ptr, v) BY <1>1 DEF Points
  <2>4. d \in Listed
    <3>1. eb'[d].vertex = v BY DEF Mine
    <3>. QED BY <2>2, <2>3, <3>1, InsideStays
  <2>5. ~Before(x.ptr, d, v) BY <2>2, <2>3, <2>4, InsideStays
  <2>. QED BY <1>1, <2>4, <2>5, MineStays DEF Passed
<1>2. CASE x.pc \notin EndPcs
  <2>1. Passed(x, v, d, j) BY <1>2 DEF Passed
  <2>2. x.pc \in {"scan", "scannext"} \cup ProbePcs BY <1>2, <2>1 DEF Passed, ProbePcs
  <2>3. x.tmp \in Listed /\ eb[x.tmp].vertex = v BY <2>2 DEF Points
  <2>4. x.tmp \in Nat /\ d \in Nat BY <2>3, Numbers DEF Listed, Blocks
  <2>5. d <= x.tmp BY <1>2, <2>1, <2>4 DEF Passed
  <2>6. d \in Listed
    <3>1. d \notin Listed => x.tmp < d BY <2>3 DEF ListsGrow, Mine
    <3>. QED BY <2>4, <2>5, <3>1
  <2>. QED BY <2>1, <2>6, MineStays
<1>. QED BY <1>1, <1>2

LEMMA ScanStays ==
  ASSUME ListsGrow, SlotsGrow, Fresh, NEW x, NEW o, Points(x, o), Scan(x, o)
  PROVE  Scan(x, o)'
<1>1. Begins(x, o)' BY BeginsStay DEF Scan
<1>2. ASSUME NEW d \in Listed', NEW j \in Slots, Has(d, j, o)',
             Has(d, j, o) => Tight(d, j, o)
      PROVE  Tight(d, j, o)'
  <2>1. CASE Has(d, j, o)
    <3>1. d \in Listed /\ Mine(d, o) BY <2>1 DEF Has, Mine
    <3>. QED BY <1>2, <2>1, <3>1, TightStays
  <2>2. CASE ~Has(d, j, o) BY <1>2, <2>2 DEF Fresh
  <2>. QED BY <2>1, <2>2
<1>3. \A d, j : Has(d, j, o) => d \in Listed BY DEF Has, Mine
<1>4. Finds(x, o)'
  <2>. SUFFICES ASSUME x.pc \in FindPcs, o.kind # "remove", NEW d \in Listed', NEW j \in Slots,
                       Has(d, j, o)', Looked(x, d, j)
                PROVE  Tight(d, j, o)'
       BY DEF Finds, Looked
  <2>. QED BY <1>2, <1>3 DEF Scan, Finds
<1>5. Chooses(x, o)'
  <2>. SUFFICES ASSUME x.pc \in NewPcs, NEW d \in Listed', NEW j \in Slots
                PROVE  /\ Has(d, j, o)' => Tight(d, j, o)'
                       /\ Mine(d, o)' /\ Passed(x, o.from, d, j)' => Full(d, j, o)'
       BY DEF Chooses
  <2>1. Has(d, j, o)' => Tight(d, j, o)' BY <1>2, <1>3 DEF Scan, Chooses
  <2>2. ASSUME Mine(d, o)', Passed(x, o.from, d, j)' PROVE Full(d, j, o)'
    <3>1. d \in Listed /\ Mine(d, o) /\ Passed(x, o.from, d, j) BY <2>2, NotPassed
    <3>2. Full(d, j, o) BY <3>1 DEF Scan, Chooses
    <3>. QED BY <3>1, <3>2 DEF Full, SlotsGrow
  <2>. QED BY <2>1, <2>2
<1>. QED BY <1>1, <1>4, <1>5 DEF Scan

------------------------------------------------------------------------------
(* What a thread has found after a step of its own, in the store as it was *)
(* before the step.                                                        *)

(* Following a link that ends a list or leads to the next block of it.     *)
LEMMA NextInList ==
  ASSUME IInv, Lists, Ordered, NEW c \in Cells, NEW v \in Vertices, Inside(c, v),
         link[c] # MARKER, NEW d \in Listed, eb[d].vertex = v, Before(c, d, v)
  PROVE  link[c] # 0 /\ link[c] <= d
<1>1. PICK b \in Blocks : LeadsTo(c, b) /\ b <= d
      BY DEF Ordered
<1>2. link[c] = b BY <1>1 DEF LeadsTo, Lists, LinkHeld, LinkPcs
<1>. QED BY <1>1, <1>2, Numbers

LEMMA ThreadPoints ==
  ASSUME IInv, Lists, NEW t \in Threads
  PROVE  Points(th[t], Op(t))
<1>1. InList(t) BY DEF Lists
<1>2. th[t].pc \in BlockPcs => th[t].tmp # 0 BY Working DEF Fits, BlockPcs, SlotPcs
<1>. QED BY <1>1, <1>2
     DEF InList, Points, EarlyPcs, LinkPcs, CreatingPcs, EndPcs, ProbePcs, FillPcs, BlockPcs,
         SlotPcs

(* A step after which the thread looks for nothing.                        *)
LEMMA LooksNoMore ==
  ASSUME NEW x, NEW y, NEW o, Scan(x, o),
         \/ y.pc \in EarlyPcs
         \/ y.loc = x.loc /\ x.pc \notin EarlyPcs /\ y.pc \notin {"etype"} \cup FindPcs \cup NewPcs
  PROVE  Scan(y, o)
<1>. USE DEF EarlyPcs, FindPcs, NewPcs, ProbePcs, FillPcs, EndPcs, CreatingPcs
<1>. QED BY DEF Scan, Begins, Finds, Chooses

(* One that stays at its place in the second scan, or at the end of it.    *)
LEMMA ScansOn ==
  ASSUME NEW x, NEW y, NEW o, Scan(x, o), y.loc = x.loc,
         \/ /\ x.pc \in ProbePcs /\ y.pc \in ProbePcs \ {"release"}
            /\ y.tmp = x.tmp /\ y.k = x.k
         \/ x.pc \in EndPcs /\ y.pc \in EndPcs /\ y.ptr = x.ptr
         \/ x.pc \in NewPcs /\ y.pc \in {"rescan", "unlink"}
  PROVE  Scan(y, o)
<1>. USE DEF EarlyPcs, FindPcs, NewPcs, ProbePcs, FillPcs, EndPcs, CreatingPcs
<1>1. x.pc \in NewPcs /\ y.pc \in NewPcs /\ x.pc \notin EarlyPcs OBVIOUS
<1>2. Begins(y, o) /\ Finds(y, o) BY DEF Scan, Begins, Finds
<1>3. \A d, j : Passed(y, o.from, d, j) => Passed(x, o.from, d, j) BY DEF Passed
<1>4. Chooses(y, o) BY <1>1, <1>3 DEF Scan, Chooses
<1>. QED BY <1>2, <1>4 DEF Scan

(* One that has found another edge in its slot.                            *)
LEMMA ScansPast ==
  ASSUME NEW x, NEW y, NEW o, Scan(x, o), y.loc = x.loc, x.tmp \in Nat, x.k \in Nat,
         x.pc \in ProbePcs, x.pc # "release" => Full(x.tmp, x.k, o),
         y.tmp = x.tmp,
         \/ y.pc = "release" /\ y.k = x.k
         \/ y.pc = "slot" /\ y.k = x.k + 1
         \/ y.pc = "scannext" /\ BlockSize <= x.k + 1
  PROVE  Scan(y, o)
<1>. USE DEF EarlyPcs, FindPcs, NewPcs, ProbePcs, FillPcs, EndPcs, CreatingPcs
<1>1. x.pc \in NewPcs /\ y.pc \in NewPcs /\ x.pc \notin EarlyPcs OBVIOUS
<1>2. Begins(y, o) /\ Finds(y, o) BY DEF Scan, Begins, Finds
<1>3. ASSUME NEW d \in Listed, NEW j \in Slots, Passed(y, o.from, d, j)
      PROVE  Passed(x, o.from, d, j) \/ (d = x.tmp /\ j = x.k)
  <2>1. d \in Nat /\ j \in Nat /\ j < BlockSize /\ BlockSize \in Nat
        BY Numbers, SizesPositive DEF Listed, Blocks, Slots
  <2>. QED BY <1>3, <2>1 DEF Passed
<1>4. ASSUME x.pc = "release" PROVE \A d, j : d = x.tmp /\ j = x.k => Passed(x, o.from, d, j)
      BY <1>4 DEF Passed
<1>5. Chooses(y, o) BY <1>1, <1>3, <1>4 DEF Scan, Chooses
<1>. QED BY <1>2, <1>5 DEF Scan

(* The steps that follow a link.                                           *)
LEMMA FollowScans ==
  ASSUME IInv, Lists, Uniqueness, NEW t \in Threads, NEW x, NEW y, NEW o,
         x = th[t], y = th'[t], o = Op(t), Scan(x, o),
         EtypeBegin(t) \/ EtypeWalk(t) \/ FindNext(t) \/ Rescan(t) \/ ScanNext(t)
  PROVE  Scan(y, o)
<1>. USE DEF EarlyPcs, FindPcs, NewPcs, ProbePcs, FillPcs, EndPcs, CreatingPcs
<1>1. /\ th \in [Threads -> Locals] /\ th[t] \in Locals /\ Ordered
      /\ link \in [Cells -> {MARKER} \cup 0..PoolSize-1]
      BY DEF IInv, TypeOK, Uniqueness
<1>2. o.from \in Vertices /\ o.type = Op(t).type
      BY <1>1, OpFields DEF EtypeBegin, EtypeWalk, FindNext, Rescan, ScanNext, At
<1>3. ASSUME x.pc \in {"etype", "findnext", "scannext"}
      PROVE  /\ x.tmp \in Listed /\ eb[x.tmp].vertex = o.from /\ x.tmp \in Nat
             /\ NextOf(x.tmp) \in Cells /\ Inside(NextOf(x.tmp), o.from)
             /\ \A d \in Listed : Before(NextOf(x.tmp), d, o.from) <=> x.tmp < d
  <2>1. x.tmp \in Listed /\ eb[x.tmp].vertex = o.from BY <1>3, ThreadPoints DEF Points
  <2>. QED BY <2>1, Numbers, CellNames DEF Inside, Before
<1>4. ASSUME NEW c \in Cells, Inside(c, o.from), link[c] # MARKER
      PROVE  \A d \in Listed : Mine(d, o) /\ Before(c, d, o.from) => link[c] # 0 /\ link[c] <= d
      BY <1>1, <1>2, <1>4, NextInList DEF Mine
<1>5. \A d \in Listed : d \in Nat BY Numbers
<1>6. ASSUME NEW c \in Cells, Inside(c, o.from), EtypeStep(t, c),
             \A d \in Listed : Mine(d, o) => Before(c, d, o.from)
      PROVE  Scan(y, o)
  <2>1. /\ link[c] # MARKER /\ y.loc = c /\ y.tmp = link[c]
        /\ y.pc = IF OtherType(t, link[c]) THEN "etype" ELSE "find"
        BY <1>1, <1>6, SMT DEF EtypeStep, Goto, Locals
  <2>2. \A d \in Listed : Mine(d, o) => link[c] # 0 /\ link[c] <= d BY <1>4, <1>6, <2>1
  <2>3. link[c] \in Nat BY <1>1, <2>1, SizesPositive
  <2>4. OtherType(t, link[c]) => \A d \in Listed : Mine(d, o) => d # link[c]
        BY <1>2 DEF OtherType, Mine
  <2>5. Begins(y, o) BY <1>5, <1>6, <2>1, <2>2, <2>3, <2>4 DEF Begins
  <2>6. \A d \in Listed : \A j : Looked(y, d, j) /\ Mine(d, o) => FALSE
        BY <1>5, <2>1, <2>2, <2>3 DEF Looked
  <2>7. Finds(y, o) BY <2>6 DEF Finds, Has
  <2>8. Chooses(y, o) BY <2>1 DEF Chooses
  <2>. QED BY <2>5, <2>7, <2>8 DEF Scan
<1>7. ASSUME NEW c \in Cells, Inside(c, o.from), ScanFrom(t, c), x.pc \in {"rescan", "scannext"},
             \A d \in Listed : \A j : Mine(d, o) /\ ~Before(c, d, o.from) =>
               Passed(x, o.from, d, j)
      PROVE  Scan(y, o)
  <2>1. /\ link[c] # MARKER /\ y.loc = x.loc /\ y.tmp = link[c] /\ y.ptr = c
        /\ y.pc = IF link[c] = 0 THEN "append" ELSE "scan"
        BY <1>1, <1>7, SMT DEF ScanFrom, Goto, Locals
  <2>2. \A d \in Listed : Mine(d, o) /\ Before(c, d, o.from) => link[c] # 0 /\ link[c] <= d
        BY <1>4, <1>7, <2>1
  <2>3. link[c] \in Nat BY <1>1, <2>1, SizesPositive
  <2>4. ASSUME NEW d \in Listed, NEW j, Mine(d, o), Passed(y, o.from, d, j)
        PROVE  Passed(x, o.from, d, j)
    <3>1. CASE link[c] = 0
      <4>1. ~Before(c, d, o.from) BY <2>1, <2>4, <3>1 DEF Passed
      <4>. QED BY <1>7, <2>4, <4>1
    <3>2. CASE link[c] # 0
      <4>1. d < link[c] BY <2>1, <2>4, <3>2 DEF Passed
      <4>2. ~Before(c, d, o.from) BY <1>5, <2>2, <2>3, <2>4, <4>1
      <4>. QED BY <1>7, <2>4, <4>2
    <3>. QED BY <3>1, <3>2
  <2>5. Begins(y, o) /\ Finds(y, o) BY <1>7, <2>1 DEF Scan, Begins, Finds
  <2>6. Chooses(y, o) BY <1>7, <2>4 DEF Scan, Chooses
  <2>. QED BY <2>5, <2>6 DEF Scan
<1>8. CASE EtypeBegin(t)
  <2>1. EtypeStep(t, HeadOf(o.from)) BY <1>8 DEF EtypeBegin
  <2>2. HeadOf(o.from) \in Cells /\ Inside(HeadOf(o.from), o.from)
        BY <1>2, CellNames DEF Inside
  <2>3. \A d : Before(HeadOf(o.from), d, o.from) BY DEF Before
  <2>. QED BY <1>6, <2>1, <2>2, <2>3
<1>9. CASE EtypeWalk(t)
  <2>1. x.pc = "etype" /\ EtypeStep(t, NextOf(x.tmp)) BY <1>9 DEF EtypeWalk, At
  <2>2. \A d \in Listed : Mine(d, o) => Before(NextOf(x.tmp), d, o.from)
        BY <1>3, <2>1 DEF Scan, Begins
  <2>. QED BY <1>3, <1>6, <2>1, <2>2
<1>10. CASE Rescan(t)
  <2>1. x.pc = "rescan" /\ ScanFrom(t, x.loc) BY <1>10 DEF Rescan, At
  <2>2. x.loc \in Cells BY <1>1, FieldTypes
  <2>3. Inside(x.loc, o.from) BY <2>1, ThreadPoints DEF Points
  <2>4. \A d \in Listed : Mine(d, o) => Before(x.loc, d, o.from)
        BY <2>1 DEF Scan, Begins
  <2>. QED BY <1>7, <2>1, <2>2, <2>3, <2>4
<1>11. CASE ScanNext(t)
  <2>1. x.pc = "scannext" /\ ScanFrom(t, NextOf(x.tmp)) BY <1>11 DEF ScanNext, At
  <2>2. \A d \in Listed : \A j : Mine(d, o) /\ ~Before(NextOf(x.tmp), d, o.from) =>
          Passed(x, o.from, d, j)
        BY <1>3, <1>5, <2>1 DEF Passed
  <2>. QED BY <1>3, <1>7, <2>1, <2>2
<1>12. CASE FindNext(t)
  <2>. SUFFICES ASSUME NEW c, c = NextOf(x.tmp) PROVE Scan(y, o)
       OBVIOUS
  <2>1. /\ x.pc = "findnext" /\ link[c] # MARKER
        /\ Goto(t, [th[t] EXCEPT !.tmp = link[c], !.pc = "find"])
        BY <1>12 DEF FindNext, At
  <2>2. y.pc = "find" /\ y.tmp = link[c] /\ y.loc = x.loc
        BY <1>1, <2>1, SMT DEF Goto, Locals
  <2>3. c \in Cells /\ Inside(c, o.from) /\ x.tmp \in Nat
        /\ \A d \in Listed : Before(c, d, o.from) <=> x.tmp < d
        BY <1>3, <2>1
  <2>4. \A d \in Listed : Mine(d, o) /\ x.tmp < d => link[c] # 0 /\ link[c] <= d
        BY <1>4, <2>1, <2>3
  <2>5. link[c] \in Nat BY <1>1, <2>1, <2>3, SizesPositive
  <2>6. \A d \in Listed : \A j : Mine(d, o) /\ Looked(y, d, j) => Looked(x, d, j)
        BY <1>5, <2>1, <2>2, <2>3, <2>4, <2>5 DEF Looked
  <2>7. Begins(y, o) BY <2>1, <2>2 DEF Scan, Begins
  <2>8. Finds(y, o) BY <2>1, <2>2, <2>6 DEF Scan, Finds, Has
  <2>9. Chooses(y, o) BY <2>2 DEF Chooses
  <2>. QED BY <2>7, <2>8, <2>9 DEF Scan
<1>. QED BY <1>8, <1>9, <1>10, <1>11, <1>12

(* The first scan, and its end.                                            *)
LEMMA FindScans ==
  ASSUME IInv, Lists, Uniqueness, NEW t \in Threads, NEW x, NEW y, NEW o,
         x = th[t], y = th'[t], o = Op(t), Scan(x, o),
         FindBlock(t) \/ FindSlot(t) \/ (FindEnd(t) /\ o.kind # "remove")
  PROVE  Scan(y, o)
<1>. USE DEF EarlyPcs, FindPcs, NewPcs, ProbePcs, FillPcs, EndPcs, CreatingPcs
<1>1. /\ th \in [Threads -> Locals] /\ th[t] \in Locals
      BY DEF IInv, TypeOK
<1>2. \A d \in Listed : d \in Nat BY Numbers
<1>3. \A j \in Slots : j \in Nat BY Numbers
<1>4. ASSUME x.pc \in FindPcs, y.pc \in FindPcs, y.loc = x.loc,
             \A d \in Listed : \A j \in Slots :
               Has(d, j, o) /\ Looked(y, d, j) => Looked(x, d, j)
      PROVE  Scan(y, o)
  <2>1. Begins(y, o) BY <1>4 DEF Scan, Begins
  <2>2. Finds(y, o) BY <1>4 DEF Scan, Finds
  <2>3. Chooses(y, o) BY <1>4 DEF Chooses
  <2>. QED BY <2>1, <2>2, <2>3 DEF Scan
<1>5. CASE FindBlock(t)
  <2>1. /\ x.pc = "find" /\ x.tmp # 0 /\ y.tmp = x.tmp /\ y.loc = x.loc
        /\ y.k = 0 /\ y.endk = eb[x.tmp].high
        /\ y.pc = IF OtherType(t, x.tmp) \/ eb[x.tmp].high = 0 THEN "findnext" ELSE "findslot"
        BY <1>1, <1>5, SMT DEF FindBlock, At, Goto, Locals
  <2>2. x.tmp \in Listed /\ x.tmp \in Nat BY <1>2, <2>1, ThreadPoints DEF Points
  <2>3. eb[x.tmp].high \in Nat BY <2>2, Numbers, BlockTypes DEF IInv, TypeOK
  <2>4. ASSUME NEW d \in Listed, NEW j \in Slots, Has(d, j, o), Looked(y, d, j)
        PROVE  Looked(x, d, j)
    <3>1. CASE d = x.tmp
      <4>1. ~OtherType(t, x.tmp) BY <2>4, <3>1 DEF Has, Mine, OtherType
      <4>2. j < eb[x.tmp].high BY <2>4, <3>1 DEF Has, Occupied
      <4>3. j \in Nat BY <1>3
      <4>4. y.pc = "findslot" BY <2>1, <2>3, <4>1, <4>2, <4>3
      <4>. QED BY <2>1, <2>2, <2>3, <2>4, <3>1, <4>2, <4>3, <4>4 DEF Looked
    <3>2. CASE d # x.tmp BY <1>2, <2>1, <2>2, <2>4, <3>2 DEF Looked
    <3>. QED BY <3>1, <3>2
  <2>. QED BY <1>4, <2>1, <2>4
<1>6. CASE FindSlot(t)
  <2>1. x.pc = "findslot" BY <1>6 DEF FindSlot, At
  <2>2. x.tmp \in Nat /\ x.k \in Nat /\ x.endk \in Nat BY <2>1, Working
  <2>3. CASE Slot(t).nbr = o.to
    <3>1. Move(t, Existing(t)) BY <1>6, <2>3 DEF FindSlot
    <3>2. y.pc \in {"lockweight", "readweight", "change"} /\ y.loc = x.loc
          BY <1>1, <2>1, <3>1, MovedPc, ExistingPc
    <3>. QED BY <2>1, <3>2, LooksNoMore
  <2>4. CASE Slot(t).nbr # o.to
    <3>1. \/ /\ x.k + 1 < x.endk /\ Goto(t, [th[t] EXCEPT !.k = @ + 1])
          \/ ~(x.k + 1 < x.endk) /\ Move(t, "findnext")
          BY <1>6, <2>4 DEF FindSlot
    <3>2. /\ y.tmp = x.tmp /\ y.loc = x.loc
          /\ \/ y.pc = "findslot" /\ y.k = x.k + 1 /\ y.endk = x.endk
             \/ y.pc = "findnext" /\ x.endk <= x.k + 1
      <4>1. CASE Move(t, "findnext") /\ ~(x.k + 1 < x.endk)
            BY <1>1, <2>2, <4>1, MovedPc
      <4>2. CASE Goto(t, [th[t] EXCEPT !.k = @ + 1])
            BY <1>1, <2>1, <4>2, SMT DEF Goto, Locals
      <4>. QED BY <3>1, <4>1, <4>2
    <3>3. ASSUME NEW d \in Listed, NEW j \in Slots, Has(d, j, o), Looked(y, d, j)
          PROVE  Looked(x, d, j)
      <4>1. ~(d = x.tmp /\ j = x.k) BY <2>4, <3>3 DEF Has, Slot
      <4>2. d \in Nat /\ j \in Nat BY <1>2, <1>3
      <4>. QED BY <2>1, <2>2, <3>2, <3>3, <4>1, <4>2 DEF Looked
    <3>. QED BY <1>4, <2>1, <3>2, <3>3
  <2>. QED BY <2>3, <2>4
<1>7. CASE FindEnd(t) /\ o.kind # "remove"
  <2>1. x.pc = "find" /\ x.tmp = 0 /\ Move(t, "rescan") BY <1>7 DEF FindEnd, At
  <2>2. y.pc = "rescan" /\ y.loc = x.loc BY <1>1, <2>1, MovedPc
  <2>3. Begins(y, o) /\ Finds(y, o) BY <2>1, <2>2 DEF Scan, Begins, Finds
  <2>4. \A d, j : Looked(x, d, j) BY <2>1 DEF Looked
  <2>5. \A d, j : ~Passed(y, o.from, d, j) BY <2>2 DEF Passed
  <2>6. Chooses(y, o) BY <1>7, <2>1, <2>4, <2>5 DEF Scan, Finds, Chooses
  <2>. QED BY <2>3, <2>6 DEF Scan
<1>. QED BY <1>5, <1>6, <1>7

(* The second scan, and what a thread does at the place it has found.      *)
LEMMA PlaceScans ==
  ASSUME IInv, Lists, NEW t \in Threads, NEW x, NEW y, NEW o,
         x = th[t], y = th'[t], o = Op(t), Scan(x, o),
         \/ ScanBlock(t) \/ ScanSlot(t) \/ LockSlot(t) \/ Recheck(t) \/ Release(t)
         \/ SetNeighbor(t) \/ CountEdge(t) \/ ResetSmall(t) \/ ResetLarge(t) \/ CountDegrees(t)
  PROVE  Scan(y, o)
<1>. USE DEF EarlyPcs, FindPcs, NewPcs, ProbePcs, FillPcs, EndPcs, CreatingPcs
<1>1. th \in [Threads -> Locals] /\ th[t] \in Locals BY DEF IInv, TypeOK
<1>2. ASSUME x.pc \in {"slot", "lockslot", "recheck", "release"}
      PROVE  /\ x.tmp \in Nat /\ x.k \in Nat /\ x.endk \in Nat /\ eb[x.tmp].high \in Nat
             /\ Slot(t).nbr \in Int /\ x.endk <= eb[x.tmp].high
  <2>1. x.pc \in SlotPcs /\ x.pc # "idle" BY <1>2 DEF SlotPcs
  <2>. QED BY <1>2, <2>1, AtSlot, Working DEF Fits, ScanPcs
<1>3. ASSUME NEW p \in ProbePcs \ {"release"}, Move(t, p), x.pc \in ProbePcs PROVE Scan(y, o)
  <2>1. y.pc = p /\ y.tmp = x.tmp /\ y.k = x.k /\ y.loc = x.loc BY <1>1, <1>3, MovedPc
  <2>. QED BY <1>3, <2>1, ScansOn
<1>4. ASSUME x.pc \in {"slot", "release"}, Goto(t, NextSlot(t)),
             x.pc # "release" => Full(x.tmp, x.k, o)
      PROVE  Scan(y, o)
  <2>1. /\ y.tmp = x.tmp /\ y.loc = x.loc
        /\ \/ y.pc = "slot" /\ y.k = x.k + 1
           \/ y.pc = "scannext" /\ ~(x.k + 1 < BlockSize)
        BY <1>1, <1>4, SMT DEF NextSlot, Goto, Locals
  <2>2. x.tmp \in Nat /\ x.k \in Nat /\ BlockSize \in Nat BY <1>2, <1>4, SizesPositive
  <2>3. \/ y.pc = "slot" /\ y.k = x.k + 1
        \/ y.pc = "scannext" /\ BlockSize <= x.k + 1
        BY <2>1, <2>2
  <2>. QED BY <1>4, <2>1, <2>2, <2>3, ScansPast
<1>5. CASE ScanBlock(t)
  <2>1. /\ x.pc = "scan" /\ y.tmp = x.tmp /\ y.loc = x.loc /\ y.k = 0
        /\ y.pc = IF OtherType(t, x.tmp) THEN "scannext" ELSE "slot"
        BY <1>1, <1>5, SMT DEF ScanBlock, At, Goto, Locals
  <2>2. \A d \in Listed : d \in Nat BY Numbers
  <2>3. x.tmp \in Listed /\ x.tmp \in Nat BY <2>1, <2>2, ThreadPoints DEF Points
  <2>4. ASSUME NEW d \in Listed, NEW j \in Slots, Mine(d, o), Passed(y, o.from, d, j)
        PROVE  Passed(x, o.from, d, j)
    <3>1. OtherType(t, x.tmp) => d # x.tmp BY <2>4 DEF Mine, OtherType
    <3>2. j \in Nat /\ d \in Nat BY <2>2, Numbers
    <3>3. d < x.tmp BY <2>1, <2>3, <2>4, <3>1, <3>2 DEF Passed
    <3>. QED BY <2>1, <3>3 DEF Passed
  <2>5. Begins(y, o) /\ Finds(y, o) BY <2>1 DEF Scan, Begins, Finds
  <2>6. x.pc \in NewPcs BY <2>1
  <2>7. Chooses(y, o) BY <2>4, <2>6 DEF Scan, Chooses
  <2>. QED BY <2>5, <2>7 DEF Scan
<1>6. CASE ScanSlot(t)
  <2>1. x.pc = "slot" BY <1>6 DEF ScanSlot, At
  <2>2. \/ Move(t, Existing(t))
        \/ Move(t, "lockslot")
        \/ /\ ~(Slot(t).nbr < 0) /\ x.k < x.endk /\ Slot(t).nbr # o.to
           /\ Goto(t, NextSlot(t))
        BY <1>6, Zenon DEF ScanSlot
  <2>3. CASE Move(t, Existing(t))
    <3>1. y.pc \in {"lockweight", "readweight", "change"} /\ y.loc = x.loc
          BY <1>1, <2>1, <2>3, MovedPc, ExistingPc
    <3>. QED BY <2>1, <3>1, LooksNoMore
  <2>4. CASE Move(t, "lockslot") BY <1>3, <2>1, <2>4
  <2>5. CASE /\ ~(Slot(t).nbr < 0) /\ x.k < x.endk /\ Slot(t).nbr # o.to
             /\ Goto(t, NextSlot(t))
    <3>1. Full(x.tmp, x.k, o) BY <1>2, <2>1, <2>5 DEF Full, Occupied, Slot
    <3>. QED BY <1>4, <2>1, <2>5, <3>1
  <2>. QED BY <2>2, <2>3, <2>4, <2>5
<1>7. CASE LockSlot(t)
  <2>1. /\ x.pc = "lockslot" /\ y.pc = "recheck" /\ y.tmp = x.tmp /\ y.k = x.k
        /\ y.loc = x.loc
        BY <1>1, <1>7, SMT DEF LockSlot, At, Goto, Locals
  <2>. QED BY <2>1, ScansOn
<1>8. CASE Recheck(t)
  <2>1. x.pc = "recheck" BY <1>8 DEF Recheck, At
  <2>. SUFFICES ASSUME NEW high, high = eb[x.tmp].high PROVE Scan(y, o)
       OBVIOUS
  <2>2. \/ Goto(t, [th[t] EXCEPT !.endk = high, !.rv = 1, !.pc = "setnbr"])
        \/ Goto(t, [th[t] EXCEPT !.endk = high, !.held = TRUE, !.pc = Existing(t)])
        \/ /\ ~(Slot(t).nbr < 0 \/ x.k >= high) /\ Slot(t).nbr # o.to
           /\ Goto(t, [th[t] EXCEPT !.endk = high, !.pc = "release"])
        BY <1>8, Zenon DEF Recheck
  <2>3. CASE Goto(t, [th[t] EXCEPT !.endk = high, !.rv = 1, !.pc = "setnbr"])
    <3>1. y.pc = "setnbr" /\ y.tmp = x.tmp /\ y.k = x.k /\ y.loc = x.loc
          BY <1>1, <2>3, SMT DEF Goto, Locals
    <3>. QED BY <2>1, <3>1, ScansOn
  <2>4. CASE Goto(t, [th[t] EXCEPT !.endk = high, !.held = TRUE, !.pc = Existing(t)])
    <3>1. y.pc = Existing(t) /\ y.loc = x.loc
          BY <1>1, <2>4, SMT DEF Goto, Locals
    <3>2. y.pc \in {"lockweight", "readweight", "change"} BY <2>1, <3>1, ExistingPc
    <3>. QED BY <2>1, <3>1, <3>2, LooksNoMore
  <2>5. CASE /\ ~(Slot(t).nbr < 0 \/ x.k >= high) /\ Slot(t).nbr # o.to
             /\ Goto(t, [th[t] EXCEPT !.endk = high, !.pc = "release"])
    <3>1. y.pc = "release" /\ y.tmp = x.tmp /\ y.k = x.k /\ y.loc = x.loc
          BY <1>1, <2>5, SMT DEF Goto, Locals
    <3>2. Full(x.tmp, x.k, o) BY <1>2, <2>1, <2>5 DEF Full, Occupied, Slot
    <3>. QED BY <1>2, <2>1, <3>1, <3>2, ScansPast
  <2>. QED BY <2>2, <2>3, <2>4, <2>5
<1>9. CASE Release(t)
  <2>1. x.pc = "release" /\ Goto(t, NextSlot(t)) BY <1>9, Zenon DEF Release, At
  <2>. QED BY <1>4, <2>1
<1>10. CASE SetNeighbor(t) \/ CountEdge(t) \/ ResetSmall(t) \/ ResetLarge(t) \/ CountDegrees(t)
  <2>1. /\ x.pc \in {"setnbr", "count", "onlyedge", "onlylarge", "degrees"}
        /\ \/ Move(t, "count") \/ Move(t, "onlyedge") \/ Move(t, "onlylarge")
           \/ Move(t, "degrees") \/ Move(t, "high")
        BY <1>10, Zenon DEF SetNeighbor, CountEdge, ResetSmall, ResetLarge, CountDegrees, At
  <2>. QED BY <1>3, <2>1
<1>. QED BY <1>5, <1>6, <1>7, <1>8, <1>9, <1>10

(* The end of the list, and a new block.                                   *)
LEMMA EndScans ==
  ASSUME IInv, Lists, NEW t \in Threads, NEW x, NEW y, NEW o,
         x = th[t], y = th'[t], o = Op(t), Scan(x, o),
         \/ LockLink(t) \/ UnlockLink(t) \/ NewBlock(t) \/ PoolExhausted(t)
         \/ ClaimPlace(t) \/ FillPlace(t) \/ LinkBlock(t)
  PROVE  Scan(y, o)
<1>. USE DEF EarlyPcs, FindPcs, NewPcs, ProbePcs, FillPcs, EndPcs, CreatingPcs
<1>1. th \in [Threads -> Locals] /\ th[t] \in Locals BY DEF IInv, TypeOK
<1>2. CASE LockLink(t)
  <2>1. /\ x.pc = "append" /\ y.pc \in {"newblock", "unlink"} /\ y.ptr = x.ptr
        /\ y.loc = x.loc
        BY <1>1, <1>2, SMT DEF LockLink, At, Goto, Locals
  <2>. QED BY <2>1, ScansOn
<1>3. CASE UnlockLink(t)
  <2>1. x.pc = "unlink" /\ Move(t, "rescan") BY <1>3, Zenon DEF UnlockLink, At
  <2>2. y.pc = "rescan" /\ y.loc = x.loc BY <1>1, <2>1, MovedPc
  <2>. QED BY <2>1, <2>2, ScansOn
<1>4. CASE NewBlock(t)
  <2>1. /\ x.pc = "newblock"
        /\ th' = [th EXCEPT ![t] = [th[t] EXCEPT !.tmp = tail, !.pc = "claim"]]
        BY <1>4, Zenon DEF NewBlock, At, Goto
  <2>2. y.pc = "claim" /\ y.ptr = x.ptr /\ y.loc = x.loc BY <1>1, <2>1, SMT DEF Locals
  <2>. QED BY <2>1, <2>2, ScansOn
<1>5. CASE PoolExhausted(t)
  <2>1. y = x BY <1>5 DEF PoolExhausted
  <2>. QED BY <2>1
<1>6. CASE ClaimPlace(t)
  <2>1. x.pc = "claim" /\ y.pc = "push" /\ y.ptr = x.ptr /\ y.loc = x.loc
        BY <1>1, <1>6, SMT DEF ClaimPlace, At, Goto, Locals
  <2>. QED BY <2>1, ScansOn
<1>7. CASE FillPlace(t)
  <2>1. x.pc = "push" /\ Move(t, "link") BY <1>7, Zenon DEF FillPlace, At
  <2>2. y.pc = "link" /\ y.loc = x.loc /\ y.ptr = x.ptr BY <1>1, <2>1, MovedPc
  <2>. QED BY <2>1, <2>2, ScansOn
<1>8. CASE LinkBlock(t)
  <2>1. y.pc = "idle" BY <1>1, <1>8 DEF LinkBlock, Finish, Goto, Idle
  <2>. QED BY <2>1, LooksNoMore
<1>. QED BY <1>2, <1>3, <1>4, <1>5, <1>6, <1>7, <1>8

(* The third look of an update finds its edge where the second has.        *)
LEMMA ChangeMoves ==
  ASSUME IInv, NEW t \in Threads, ChangeTotal(t)
  PROVE  Move(t, "weight")
<1>1. th[t].pc = "change" BY DEF ChangeTotal, At
<1>2. /\ Occupied(th[t].tmp, th[t].k) /\ th[t].k \in Nat
      /\ eb[th[t].tmp].high \in Nat /\ Slot(t).nbr \in Int
      BY <1>1, AtSlot, Working DEF Fits, SlotPcs
<1>3. ~(Slot(t).nbr < 0 \/ th[t].k >= eb[th[t].tmp].high) BY <1>2 DEF Occupied, Slot
<1>. QED BY <1>3, Zenon DEF ChangeTotal

(* Every step leaves a thread with what it has found.                      *)
LEMMA OwnScan ==
  ASSUME IInv, Lists, Uniqueness, NEW t \in Threads, Step(t), NEW x, NEW y, NEW o,
         x = th[t], y = th'[t], o = Op(t)
  PROVE  Scan(y, o)
<1>. USE DEF EarlyPcs, FindPcs, NewPcs, ProbePcs, FillPcs, EndPcs, CreatingPcs
<1>1. th \in [Threads -> Locals] /\ th[t] \in Locals /\ Scan(x, o)
      BY DEF IInv, TypeOK, Uniqueness
<1>2. CASE \/ \E i \in DOMAIN res : Take(t, i)
           \/ ReadActive(t) \/ CasActive(t) \/ RefuseLoop(t)
           \/ (FindEnd(t) /\ Op(t).kind = "remove") \/ (WriteRecent(t) /\ ~th[t].held)
           \/ RestoreFirst(t) \/ (RecheckRemove(t) /\ Slot(t).nbr # Op(t).to) \/ ClearSlot(t)
  <2>1. y.pc \in EarlyPcs BY <1>2, EarlySteps
  <2>. QED BY <1>1, <2>1, LooksNoMore
<1>3. CASE EtypeBegin(t) \/ EtypeWalk(t) \/ FindNext(t) \/ Rescan(t) \/ ScanNext(t)
      BY <1>1, <1>3, FollowScans
<1>4. CASE FindBlock(t) \/ FindSlot(t) \/ (FindEnd(t) /\ o.kind # "remove")
      BY <1>1, <1>4, FindScans
<1>5. CASE \/ ScanBlock(t) \/ ScanSlot(t) \/ LockSlot(t) \/ Recheck(t) \/ Release(t)
           \/ SetNeighbor(t) \/ CountEdge(t) \/ ResetSmall(t) \/ ResetLarge(t) \/ CountDegrees(t)
      BY <1>1, <1>5, PlaceScans
<1>6. CASE \/ LockLink(t) \/ UnlockLink(t) \/ NewBlock(t) \/ PoolExhausted(t)
           \/ ClaimPlace(t) \/ FillPlace(t) \/ LinkBlock(t)
      BY <1>1, <1>6, EndScans
<1>7. CASE \/ RaiseHigh(t) \/ UnlockSlot(t) \/ ReadWeight(t) \/ ChangeTotal(t)
           \/ WriteWeight(t) \/ CheckSmall(t) \/ CheckLarge(t) \/ CompareLarge(t) \/ LockStamp(t) \/ StoreLarge(t) \/ UnlockStamp(t)
           \/ (WriteRecent(t) /\ th[t].held) \/ LockWeight(t)
           \/ (RecheckRemove(t) /\ Slot(t).nbr = Op(t).to) \/ Uncount(t)
  <2>1. Within(t) BY <1>7, WithinSteps
  <2>2. y.loc = x.loc /\ x.pc \notin EarlyPcs BY <2>1 DEF Within, WithinPcs
  <2>3. y.pc \in {"unlockslot", "weight", "change", "stamps", "checklarge", "lockstamp", "recent",
                  "widen", "raise", "unlockstamp", "restore", "reremove", "uncount", "clear"}
    <3>1. CASE ReadWeight(t) BY <1>1, <3>1, SMT DEF ReadWeight, Goto, Locals
    <3>2. CASE LockStamp(t) BY <1>1, <3>2, SMT DEF LockStamp, Goto, Locals
    <3>3. CASE LockWeight(t) BY <1>1, <3>3, SMT DEF LockWeight, Goto, Locals
    <3>4. CASE ChangeTotal(t) BY <1>1, <3>4, ChangeMoves, MovedPc
    <3>5. CASE \/ RaiseHigh(t) \/ UnlockSlot(t) \/ WriteWeight(t) \/ CheckSmall(t) \/ CheckLarge(t) \/ CompareLarge(t)
               \/ StoreLarge(t) \/ UnlockStamp(t) \/ (WriteRecent(t) /\ th[t].held)
               \/ (RecheckRemove(t) /\ Slot(t).nbr = Op(t).to) \/ Uncount(t)
      <4>1. \/ Move(t, "unlockslot") \/ Move(t, "weight") \/ Move(t, "stamps")
            \/ Move(t, "checklarge") \/ Move(t, "lockstamp") \/ Move(t, "raise")
            \/ Move(t, "unlockstamp") \/ Move(t, "recent") \/ Move(t, "restore")
            \/ Move(t, "uncount") \/ Move(t, "clear")
            BY <3>5, Zenon
               DEF RaiseHigh, UnlockSlot, WriteWeight, CheckSmall, CheckLarge, CompareLarge, StoreLarge, UnlockStamp, WriteRecent,
                   RecheckRemove, Uncount
      <4>. QED BY <1>1, <4>1, MovedPc
    <3>. QED BY <1>7, <3>1, <3>2, <3>3, <3>4, <3>5
  <2>. QED BY <1>1, <2>2, <2>3, LooksNoMore
<1>. QED BY <1>2, <1>3, <1>4, <1>5, <1>6, <1>7, Zenon DEF Step

------------------------------------------------------------------------------
(* What a step does to the lists and to what can be seen in them.          *)

LEMMA SamePhase ==
  ASSUME NEW t \in Threads, Step(t)
  PROVE  UNCHANGED <<work, phase>>
BY Zenon
   DEF Step, Take, ReadActive, CasActive, RefuseLoop, EtypeBegin, EtypeWalk, EtypeStep,
       FindBlock, FindSlot, FindNext, FindEnd, Rescan, ScanFrom, ScanBlock, ScanSlot,
       ScanNext, LockSlot, Recheck, Release, LockLink, UnlockLink, NewBlock, PoolExhausted,
       ClaimPlace, FillPlace, LinkBlock, SetNeighbor, CountEdge, ResetSmall, ResetLarge, CountDegrees,
       RaiseHigh, UnlockSlot, ReadWeight, ChangeTotal, WriteWeight, CheckSmall, CheckLarge, CompareLarge, LockStamp,
       StoreLarge, UnlockStamp, WriteRecent, RestoreFirst, LockWeight, RecheckRemove, Uncount,
       ClearSlot, batchVars

(* A step leaves a thread with its operation, or without any finding.      *)
LEMMA SameOp ==
  ASSUME IInv, NEW t \in Threads, Step(t)
  PROVE  th'[t].pc \in EarlyPcs \/ Op(t)' = Op(t)
<1>. USE DEF EarlyPcs
<1>1. th \in [Threads -> Locals] /\ th[t] \in Locals BY DEF IInv, TypeOK
<1>2. UNCHANGED <<work, phase>> BY SamePhase
<1>3. th'[t].op = th[t].op => Op(t)' = Op(t) BY <1>2 DEF Op
<1>4. CASE \/ \E i \in DOMAIN res : Take(t, i)
           \/ ReadActive(t) \/ CasActive(t) \/ RefuseLoop(t)
           \/ (FindEnd(t) /\ Op(t).kind = "remove") \/ (WriteRecent(t) /\ ~th[t].held)
           \/ RestoreFirst(t) \/ (RecheckRemove(t) /\ Slot(t).nbr # Op(t).to) \/ ClearSlot(t)
      BY <1>4, EarlySteps
<1>5. CASE \/ FindBlock(t) \/ FindSlot(t) \/ (FindEnd(t) /\ Op(t).kind # "remove")
           \/ ScanBlock(t) \/ ScanSlot(t) \/ LockSlot(t) \/ Recheck(t) \/ Release(t)
           \/ SetNeighbor(t) \/ CountEdge(t) \/ ResetSmall(t) \/ ResetLarge(t) \/ CountDegrees(t)
           \/ RaiseHigh(t) \/ UnlockSlot(t) \/ ReadWeight(t) \/ ChangeTotal(t)
           \/ WriteWeight(t) \/ CheckSmall(t) \/ CheckLarge(t) \/ CompareLarge(t) \/ LockStamp(t) \/ StoreLarge(t) \/ UnlockStamp(t)
           \/ (WriteRecent(t) /\ th[t].held) \/ LockWeight(t)
           \/ (RecheckRemove(t) /\ Slot(t).nbr = Op(t).to) \/ Uncount(t)
      BY <1>3, <1>5, WithinSteps DEF Within
<1>6. CASE EtypeBegin(t)
  <2>1. th'[t].op = th[t].op
        BY <1>1, <1>6, SMT DEF EtypeBegin, EtypeStep, Goto, Locals
  <2>. QED BY <1>3, <2>1
<1>7. CASE EtypeWalk(t)
  <2>1. th'[t].op = th[t].op BY <1>1, <1>7, SMT DEF EtypeWalk, EtypeStep, Goto, Locals
  <2>. QED BY <1>3, <2>1
<1>8. CASE FindNext(t)
  <2>1. th'[t].op = th[t].op BY <1>1, <1>8, SMT DEF FindNext, Goto, Locals
  <2>. QED BY <1>3, <2>1
<1>9. CASE Rescan(t) \/ ScanNext(t)
  <2>1. PICK c : ScanFrom(t, c) BY <1>9 DEF Rescan, ScanNext
  <2>2. th'[t].op = th[t].op BY <1>1, <2>1, SMT DEF ScanFrom, Goto, Locals
  <2>. QED BY <1>3, <2>2
<1>10. CASE LockLink(t)
  <2>1. th'[t].op = th[t].op BY <1>1, <1>10, SMT DEF LockLink, Goto, Locals
  <2>. QED BY <1>3, <2>1
<1>11. CASE NewBlock(t)
  <2>1. th' = [th EXCEPT ![t] = [th[t] EXCEPT !.tmp = tail, !.pc = "claim"]]
        BY <1>11, Zenon DEF NewBlock, Goto
  <2>2. th'[t].op = th[t].op BY <1>1, <2>1, SMT DEF Locals
  <2>. QED BY <1>3, <2>2
<1>12. CASE ClaimPlace(t)
  <2>1. th'[t].op = th[t].op BY <1>1, <1>12, SMT DEF ClaimPlace, Goto, Locals
  <2>. QED BY <1>3, <2>1
<1>13. CASE UnlockLink(t) \/ FillPlace(t)
  <2>1. Move(t, "rescan") \/ Move(t, "link") BY <1>13, Zenon DEF UnlockLink, FillPlace
  <2>. QED BY <1>1, <1>3, <2>1, MovedPc
<1>14. CASE PoolExhausted(t) BY <1>3, <1>14 DEF PoolExhausted
<1>15. CASE LinkBlock(t) BY <1>1, <1>15 DEF LinkBlock, Finish, Goto, Idle
<1>. QED BY <1>4, <1>5, <1>6, <1>7, <1>8, <1>9, <1>10, <1>11, <1>12, <1>13, <1>14, <1>15, Zenon
         DEF Step

(* Where it then points, seen from the store before the step.              *)
LEMMA OwnPoints ==
  ASSUME IInv, IInv', Lists, Lists', NEW t \in Threads, Step(t), NEW y, NEW o,
         y = th'[t], o = Op(t)'
  PROVE  Points(y, o)
<1>. USE DEF EarlyPcs, LinkPcs, CreatingPcs, EndPcs, ProbePcs, FillPcs
<1>1. CASE y.pc \in EarlyPcs BY <1>1 DEF Points
<1>2. CASE y.pc \notin EarlyPcs
  <2>1. SameLists
    <3>1. th \in [Threads -> Locals] BY DEF IInv, TypeOK
    <3>2. LinkBlock(t) => y.pc = "idle" BY <3>1 DEF LinkBlock, Finish, Goto, Idle
    <3>. QED BY <1>2, <3>2, ThreadLists
  <2>2. \A b \in Listed : eb'[b].vertex = eb[b].vertex BY ListedStay
  <2>3. \A c, v : Inside(c, v)' => Inside(c, v) BY <2>1, <2>2 DEF Inside, SameLists
  <2>4. /\ Inside(y.loc, o.from)'
        /\ y.pc \notin CreatingPcs /\ y.tmp # 0 => y.tmp \in Listed' /\ eb'[y.tmp].vertex = o.from
        /\ y.pc \in LinkPcs \cup {"append"} => Inside(y.ptr, o.from)'
        BY <1>2 DEF Lists, InList
  <2>5. y.pc \in BlockPcs => y.tmp # 0 BY DEF IInv, LocalOK, Fits
  <2>. QED BY <2>1, <2>2, <2>3, <2>4, <2>5 DEF Points, SameLists, BlockPcs, SlotPcs
<1>. QED BY <1>1, <1>2

LEMMA ListsOnlyGrow ==
  ASSUME IInv, Lists, Ordered, NEW t \in Threads, Step(t)
  PROVE  ListsGrow /\ Ordered'
<1>1. \A b \in Listed : eb'[b].vertex = eb[b].vertex /\ eb'[b].type = eb[b].type BY ListedStay
<1>2. CASE SameLists
  <2>1. ListsGrow BY <1>1, <1>2 DEF ListsGrow, SameLists
  <2>. QED BY <1>1, <1>2, <2>1, OrderedStays
<1>3. CASE LinkBlock(t) /\ Enlists(t)
  <2>1. th[t].pc = "link" /\ eb' = eb BY <1>3, Zenon DEF LinkBlock, At
  <2>2. eb[th[t].tmp].vertex = Op(t).from BY <2>1 DEF Lists, InList, CreatingPcs
  <2>3. \A b \in Listed : eb[b].vertex = Op(t).from => b < th[t].tmp
        BY <2>1, AtTheEnd DEF CreatingPcs
  <2>4. ListsGrow BY <1>1, <1>3, <2>1, <2>2, <2>3 DEF ListsGrow, Enlists
  <2>. QED BY <1>3, <2>4, OrderedLinks
<1>. QED BY <1>2, <1>3, ThreadLists

(* What a scan can see after a step that enlists no block it has seen      *)
(* before, but for an edge that the thread has filled in, in a slot that   *)
(* was free.                                                               *)
Shows(t, d, j) ==
  /\ th[t].pc \in {"setnbr", "high"} /\ d = th[t].tmp /\ j = th[t].k
  /\ eb'[d].edges[j].nbr = Op(t).to /\ ~Occupied(d, j)

LEMMA Shown ==
  ASSUME IInv, IInv', Places, NEW t \in Threads, Fills(t), Edit(t),
         NEW d \in Blocks, NEW j \in Slots, Occupied(d, j)'
  PROVE  (Occupied(d, j) /\ eb'[d].edges[j].nbr = eb[d].edges[j].nbr) \/ Shows(t, d, j)
<1>1. /\ eb[d].high \in Nat /\ eb[d].edges[j].nbr \in Int /\ j \in Nat
      BY Numbers, BlockTypes DEF IInv, TypeOK
<1>2. j < eb'[d].high /\ eb'[d].edges[j].nbr >= 0 BY DEF Occupied
<1>3. ASSUME th[t].pc \in {"setnbr", "high"}
      PROVE  /\ th[t].k \in Nat /\ Op(t).to \in Nat /\ th[t].k <= eb[th[t].tmp].high
             /\ th[t].pc = "setnbr" => ~Occupied(th[t].tmp, th[t].k)
             /\ th[t].pc = "high" => Slot(t).nbr = Op(t).to
  <2>1. th[t].k \in Nat /\ Op(t).to \in Nat BY <1>3, Working, OpFields DEF Vertices
  <2>. QED BY <1>3, <2>1 DEF Places, PlaceOK, PlacePcs, Fills, FillPcs
<1>4. CASE eb'[d].edges[j].nbr # eb[d].edges[j].nbr
  <2>1. ~(th[t].pc = "clear" /\ eb'[d].edges[j].nbr < 0)
    <3>1. eb' \in [Blocks -> EdgeBlock] BY DEF IInv, TypeOK
    <3>2. eb'[d].edges[j].nbr \in Int BY <3>1, SMT DEF EdgeBlock, Edge
    <3>. QED BY <1>2, <3>2
  <2>2. /\ th[t].pc = "setnbr" /\ d = th[t].tmp /\ j = th[t].k
        /\ eb'[d].edges[j].nbr = Op(t).to
        BY <1>4, <2>1 DEF Edit
  <2>. QED BY <1>3, <2>2 DEF Shows
<1>5. CASE eb'[d].edges[j].nbr = eb[d].edges[j].nbr /\ eb'[d].high = eb[d].high
      BY <1>2, <1>5 DEF Occupied
<1>6. CASE eb'[d].edges[j].nbr = eb[d].edges[j].nbr /\ eb'[d].high # eb[d].high
  <2>1. /\ th[t].pc = "high" /\ d = th[t].tmp /\ eb[d].high <= th[t].k
        /\ eb'[d].high = th[t].k + 1
        BY <1>6 DEF Edit
  <2>2. th[t].k = eb[d].high BY <1>1, <1>3, <2>1
  <2>3. CASE j < eb[d].high BY <1>2, <1>6, <2>3 DEF Occupied
  <2>4. CASE ~(j < eb[d].high)
    <3>1. j = th[t].k BY <1>1, <1>2, <1>3, <2>1, <2>2, <2>4
    <3>. QED BY <1>3, <1>6, <2>1, <2>4, <3>1 DEF Shows, Occupied, Slot
  <2>. QED BY <2>3, <2>4
<1>. QED BY <1>4, <1>5, <1>6

LEMMA Seen ==
  ASSUME IInv, IInv', Places, Uniqueness, NEW t \in Threads, Step(t),
         NEW d \in Listed, NEW j \in Slots, Occupied(d, j)'
  PROVE  (Occupied(d, j) /\ eb'[d].edges[j].nbr = eb[d].edges[j].nbr) \/ Shows(t, d, j)
<1>1. d \in Blocks /\ d < tail /\ tail \in Int BY DEF Listed, IInv, TypeOK
<1>2. CASE NewBlock(t)
  <2>1. eb'[d] = eb[d] BY <1>1, <1>2, BlockAdded, Numbers
  <2>. QED BY <2>1 DEF Occupied
<1>3. CASE ~NewBlock(t)
  <2>1. Edit(t) /\ Fills(t) BY <1>3, StepEdits DEF Uniqueness
  <2>. QED BY <1>1, <2>1, Shown
<1>. QED BY <1>2, <1>3

LEMMA SlotsOnlyGrow ==
  ASSUME IInv, Places, NEW t \in Threads, Step(t), th[t].pc # "clear"
  PROVE  SlotsGrow
<1>. SUFFICES ASSUME NEW d \in Listed, NEW j \in Slots, Occupied(d, j)
              PROVE  Occupied(d, j)' /\ eb'[d].edges[j].nbr = eb[d].edges[j].nbr
     BY DEF SlotsGrow
<1>1. d \in Blocks /\ eb[d].high \in Nat /\ j \in Nat /\ d < tail /\ tail \in Int
      BY Numbers, BlockTypes DEF IInv, TypeOK, Listed
<1>2. CASE NewBlock(t)
  <2>1. d # tail BY <1>1, Numbers
  <2>2. eb'[d] = eb[d] BY <1>1, <1>2, <2>1, BlockAdded
  <2>. QED BY <2>2 DEF Occupied
<1>3. CASE ~NewBlock(t)
  <2>1. Edit(t) BY <1>3, StepEdits
  <2>2. eb'[d].edges[j].nbr = eb[d].edges[j].nbr
    <3>1. th[t].pc = "setnbr" => ~Occupied(th[t].tmp, th[t].k) BY DEF Places, PlaceOK
    <3>. QED BY <1>1, <2>1, <3>1 DEF Edit
  <2>3. j < eb'[d].high
    <3>1. j < eb[d].high BY DEF Occupied
    <3>2. th[t].pc = "high" => th[t].k \in Nat BY Working
    <3>. QED BY <1>1, <2>1, <3>1, <3>2 DEF Edit
  <2>. QED BY <2>2, <2>3 DEF Occupied
<1>. QED BY <1>2, <1>3

(* An edge that can be seen for the first time has no free slot before it, *)
(* and is nowhere else: before it, the thread has seen other edges, and    *)
(* behind it the edge would not have been put, as the slot was free.       *)
LEMMA Revealed ==
  ASSUME IInv, Lists, Places, Uniqueness, NEW t \in Threads,
         NEW d \in Listed, NEW j \in Slots, Shows(t, d, j)
  PROVE  /\ Mine(d, Op(t))
         /\ \A b \in Listed : \A i \in Slots :
              Mine(b, Op(t)) /\ (b < d \/ (b = d /\ i < j)) => Full(b, i, Op(t))
         /\ \A b \in Listed : \A i \in Slots : ~Has(b, i, Op(t))
<1>. USE DEF NewPcs, ProbePcs, FillPcs
<1>. SUFFICES ASSUME NEW x, NEW o, x = th[t], o = Op(t)
              PROVE  /\ Mine(d, o)
                     /\ \A b \in Listed : \A i \in Slots :
                          Mine(b, o) /\ (b < d \/ (b = d /\ i < j)) => Full(b, i, o)
                     /\ \A b \in Listed : \A i \in Slots : ~Has(b, i, o)
     OBVIOUS
<1>1. x.pc \in {"setnbr", "high"} /\ d = x.tmp /\ j = x.k /\ ~Occupied(d, j) BY DEF Shows
<1>2. Points(x, o) BY ThreadPoints
<1>3. Mine(d, o)
  <2>1. eb[d].vertex = o.from BY <1>1, <1>2 DEF Points
  <2>2. eb[d].type = o.type BY <1>1 DEF Uniqueness, Fills
  <2>. QED BY <2>1, <2>2 DEF Mine
<1>4. Chooses(x, o) BY DEF Uniqueness, Scan
<1>5. ASSUME NEW b \in Listed, NEW i \in Slots, Mine(b, o), b < d \/ (b = d /\ i < j)
      PROVE  Full(b, i, o)
  <2>1. Passed(x, o.from, b, i) BY <1>1, <1>5 DEF Passed
  <2>. QED BY <1>1, <1>4, <1>5, <2>1 DEF Chooses
<1>6. ASSUME NEW b \in Listed, NEW i \in Slots, Has(b, i, o) PROVE FALSE
  <2>1. Mine(b, o) /\ Occupied(b, i) /\ eb[b].edges[i].nbr = o.to BY <1>6 DEF Has
  <2>2. ~(b < d \/ (b = d /\ i < j)) BY <1>5, <2>1 DEF Full
  <2>3. ~(b = d /\ i = j) BY <1>1, <2>1
  <2>4. b \in Nat /\ d \in Nat /\ i \in Nat /\ j \in Nat BY Numbers
  <2>5. d < b \/ (d = b /\ j < i) BY <2>2, <2>3, <2>4
  <2>6. Tight(b, i, o) BY <1>1, <1>4, <1>6 DEF Chooses
  <2>7. Occupied(d, j) BY <1>3, <2>5, <2>6 DEF Tight
  <2>. QED BY <1>1, <2>7
<1>. QED BY <1>3, <1>5, <1>6

LEMMA AlikeOps ==
  ASSUME NEW o, NEW p, o.from = p.from, o.type = p.type, o.to = p.to
  PROVE  \A d, j : (Mine(d, o) <=> Mine(d, p)) /\ (Has(d, j, o) <=> Has(d, j, p))
BY DEF Mine, Has

LEMMA StepSingle ==
  ASSUME IInv, IInv', Places, Lists, Uniqueness, NEW t \in Threads, Step(t), SameLists
  PROVE  Single' /\ (th[t].pc # "clear" => Fresh)
<1>1. \A d \in Listed : eb'[d].vertex = eb[d].vertex /\ eb'[d].type = eb[d].type BY ListedStay
<1>2. \A d, o : Mine(d, o)' <=> Mine(d, o) BY <1>1 DEF Mine, SameLists
<1>3. \A d \in Listed : \A j \in Slots : Occupied(d, j)' =>
        (Occupied(d, j) /\ eb'[d].edges[j].nbr = eb[d].edges[j].nbr) \/ Shows(t, d, j)
      BY Seen
<1>4. ASSUME NEW d \in Listed, NEW j \in Slots, NEW o, Has(d, j, o)'
      PROVE  Has(d, j, o) \/ Shows(t, d, j)
  <2>1. Mine(d, o) /\ Occupied(d, j)' /\ eb'[d].edges[j].nbr = o.to BY <1>2, <1>4 DEF Has
  <2>. QED BY <1>3, <2>1 DEF Has
<1>5. ASSUME NEW d \in Listed, NEW j \in Slots, NEW o, Has(d, j, o)', Shows(t, d, j)
      PROVE  o.from = Op(t).from /\ o.type = Op(t).type /\ o.to = Op(t).to
  <2>1. Mine(d, o) /\ eb'[d].edges[j].nbr = o.to BY <1>2, <1>5 DEF Has
  <2>2. Mine(d, Op(t)) BY <1>5, Revealed
  <2>. QED BY <1>5, <2>1, <2>2 DEF Shows, Mine
<1>6. Single'
  <2>. SUFFICES ASSUME NEW d \in Listed, NEW b \in Listed, NEW i \in Slots, NEW j \in Slots,
                       NEW o, Has(d, j, o)', Has(b, i, o)'
                PROVE  d = b /\ j = i
       BY DEF Single, SameLists
  <2>1. CASE Has(d, j, o) /\ Has(b, i, o) BY <2>1 DEF Uniqueness, Single
  <2>2. CASE Shows(t, d, j)
    <3>1. ~Has(b, i, o) BY <1>5, <2>2, AlikeOps, Revealed
    <3>. QED BY <1>4, <2>2, <3>1 DEF Shows
  <2>3. CASE Shows(t, b, i)
    <3>1. ~Has(d, j, o) BY <1>5, <2>3, AlikeOps, Revealed
    <3>. QED BY <1>4, <2>3, <3>1 DEF Shows
  <2>. QED BY <1>4, <2>1, <2>2, <2>3
<1>7. ASSUME th[t].pc # "clear" PROVE Fresh
  <2>. SUFFICES ASSUME NEW d \in Listed, NEW j \in Slots, NEW o, Has(d, j, o)', Shows(t, d, j)
                PROVE  Tight(d, j, o)'
       BY <1>4 DEF Fresh, SameLists
  <2>. SUFFICES ASSUME NEW b \in Listed, NEW i \in Slots, Mine(b, o)',
                       b < d \/ (b = d /\ i < j)
                PROVE  Occupied(b, i)'
       BY DEF Tight, SameLists
  <2>1. Mine(b, Op(t)) BY <1>2, <1>5, AlikeOps
  <2>2. Occupied(b, i) BY <2>1, Revealed DEF Full
  <2>. QED BY <1>7, <2>2, SlotsOnlyGrow DEF SlotsGrow
<1>. QED BY <1>6, <1>7

(* A block that enters its list is behind blocks that have no free slot.   *)
LEMMA LinkSingle ==
  ASSUME IInv, Lists, Uniqueness, NEW t \in Threads, LinkBlock(t), Enlists(t)
  PROVE  Single' /\ Fresh
<1>. USE DEF NewPcs, EndPcs, CreatingPcs
<1>. SUFFICES ASSUME NEW n, NEW o, n = th[t].tmp, o = Op(t) PROVE Single' /\ Fresh
     OBVIOUS
<1>1. th[t].pc = "link" /\ eb' = eb BY Zenon DEF LinkBlock, At
<1>2. Listed' = Listed \cup {n} /\ n \notin Listed BY DEF Enlists
<1>3. /\ eb[n].vertex = o.from /\ eb[n].type = o.type
      /\ eb[n].high = 1 /\ eb[n].edges[0].nbr = o.to
      BY <1>1 DEF Lists, InList, Uniqueness, Fills
<1>4. \A j \in Slots : j \in Nat BY Numbers
<1>5. ASSUME NEW b \in Listed, NEW i \in Slots, Mine(b, o) PROVE Full(b, i, o)
  <2>1. ~Before(th[t].ptr, b, o.from) BY <1>1, <1>5, AtTheEnd DEF Uniqueness, Mine
  <2>2. Passed(th[t], o.from, b, i) BY <1>1, <2>1 DEF Passed
  <2>3. Chooses(th[t], o) BY DEF Uniqueness, Scan
  <2>. QED BY <1>1, <1>5, <2>2, <2>3 DEF Chooses
<1>6. \A d \in Listed : \A j, p : (Mine(d, p)' <=> Mine(d, p)) /\ (Has(d, j, p)' <=> Has(d, j, p))
      BY <1>1, <1>2 DEF Has, Mine, Occupied
<1>7. ASSUME NEW j \in Slots, NEW p, Has(n, j, p)'
      PROVE  j = 0 /\ p.from = o.from /\ p.type = o.type /\ p.to = o.to
  <2>1. j < 1 /\ eb[n].edges[j].nbr = p.to /\ eb[n].vertex = p.from /\ eb[n].type = p.type
        BY <1>1, <1>3, <1>7 DEF Has, Mine, Occupied
  <2>2. j = 0 BY <1>4, <2>1
  <2>. QED BY <1>3, <2>1, <2>2
<1>8. ASSUME NEW j \in Slots, NEW p, Has(n, j, p)'
      PROVE  \A b \in Listed : \A i \in Slots : ~Has(b, i, p)
  <2>1. \A b \in Listed : \A i \in Slots : ~Has(b, i, o) BY <1>5 DEF Has, Full
  <2>. QED BY <1>7, <1>8, <2>1, AlikeOps
<1>9. Single'
  <2>. SUFFICES ASSUME NEW d \in Listed \cup {n}, NEW b \in Listed \cup {n},
                       NEW i \in Slots, NEW j \in Slots, NEW p, Has(d, j, p)', Has(b, i, p)'
                PROVE  d = b /\ j = i
       BY <1>2 DEF Single
  <2>1. CASE d \in Listed /\ b \in Listed BY <1>6, <2>1 DEF Uniqueness, Single
  <2>2. CASE d = n /\ b = n BY <1>7, <2>2
  <2>3. CASE d = n /\ b \in Listed BY <1>6, <1>8, <2>3
  <2>4. CASE d \in Listed /\ b = n BY <1>6, <1>8, <2>4
  <2>. QED BY <2>1, <2>2, <2>3, <2>4
<1>10. Fresh
  <2>. SUFFICES ASSUME NEW j \in Slots, NEW p, Has(n, j, p)' PROVE Tight(n, j, p)'
       BY <1>2, <1>6 DEF Fresh
  <2>. SUFFICES ASSUME NEW b \in Listed', NEW i \in Slots, Mine(b, p)',
                       b < n \/ (b = n /\ i < j)
                PROVE  Occupied(b, i)'
       BY DEF Tight
  <2>1. j = 0 /\ i \in Nat BY <1>4, <1>7
  <2>2. b \in Listed
    <3>1. n \in Nat BY <1>1, Working
    <3>. QED BY <1>2, <2>1, <3>1
  <2>3. Mine(b, o) BY <1>6, <1>7, <2>2, AlikeOps
  <2>4. Occupied(b, i) BY <1>5, <2>2, <2>3 DEF Full
  <2>. QED BY <1>1, <2>4 DEF Occupied
<1>. QED BY <1>9, <1>10

------------------------------------------------------------------------------
(* What a thread has filled in stays there.                                *)

(* Removals and insertions do not run together.                            *)
LEMMA KindsAgree ==
  ASSUME IInv, NEW t \in Threads, NEW u \in Threads, th[t].pc # "idle", th[u].pc # "idle",
         Op(t).kind = "remove"
  PROVE  Op(u).kind = "remove"
<1>1. /\ work \in Workloads /\ phase \in DOMAIN work
      /\ th[t].op \in DOMAIN work[phase] /\ th[u].op \in DOMAIN work[phase]
      BY DEF IInv, TypeOK, Assigned
<1>. QED BY <1>1, WorkloadsOK DEF Op

LEMMA OthersFill ==
  ASSUME IInv, Lists, Uniqueness, NEW t \in Threads, Step(t), NEW u \in Threads, u # t
  PROVE  Fills(u)'
<1>. USE DEF FillPcs, ProbePcs, CreatingPcs
<1>. SUFFICES ASSUME NEW x, NEW o, NEW d, x = th[u], o = Op(u), d = th[u].tmp PROVE Fills(u)'
     OBVIOUS
<1>1. th'[u] = x /\ Op(u)' = o /\ Fills(u)
      BY OthersRest, SamePhase DEF IInv, TypeOK, Op, Uniqueness
<1>2. Points(x, o) /\ Points(th[t], Op(t)) BY ThreadPoints
<1>3. x.pc \in ProbePcs => d \in Listed BY <1>2 DEF Points
<1>4. x.pc \in ProbePcs \cup CreatingPcs => d \in Blocks /\ d < tail /\ tail \in Int
      BY Working, AtBlock DEF Fits, BlockPcs, SlotPcs
<1>5. ASSUME x.pc \in FillPcs \cup CreatingPcs, NEW j \in Slots,
             th[t].pc = "setnbr" => d # th[t].tmp \/ j # th[t].k
      PROVE  eb'[d].edges[j].nbr = eb[d].edges[j].nbr
  <2>1. CASE NewBlock(t)
    <3>1. d # tail BY <1>4, <1>5, Numbers
    <3>. QED BY <1>4, <1>5, <2>1, <3>1, BlockAdded
  <2>2. CASE ~NewBlock(t)
    <3>1. Edit(t) BY <2>2, StepEdits
    <3>2. ASSUME th[t].pc = "clear" PROVE FALSE
      <4>1. Op(t).kind = "remove" BY <3>2, Working DEF Fits, RemovalPcs
      <4>2. Op(u).kind # "remove" BY <1>5, Working DEF Fits, InsertPcs
      <4>. QED BY <1>5, <3>2, <4>1, <4>2, KindsAgree
    <3>. QED BY <1>4, <1>5, <3>1, <3>2 DEF Edit
  <2>. QED BY <2>1, <2>2
<1>6. x.pc \in ProbePcs => eb'[d].type = o.type BY <1>1, <1>3, ListedStay DEF Fills
<1>7. ASSUME x.pc \in FillPcs \ {"setnbr"} PROVE eb'[d].edges[x.k].nbr = o.to
  <2>1. HoldsSlot(u) /\ x.k \in Slots BY <1>7, AtSlot DEF HoldsSlot, SlotPcs
  <2>2. th[t].pc = "setnbr" => d # th[t].tmp \/ x.k # th[t].k
        BY <2>1 DEF HoldsSlot, IInv, SlotLockExclusive
  <2>3. eb'[d].edges[x.k].nbr = eb[d].edges[x.k].nbr BY <1>5, <1>7, <2>1, <2>2
  <2>. QED BY <1>1, <1>7, <2>3 DEF Fills, Slot
<1>8. ASSUME x.pc \in CreatingPcs PROVE eb'[d].high = 1 /\ eb'[d].edges[0].nbr = o.to
  <2>1. d \notin Listed BY <1>8 DEF Listed, Private
  <2>2. th[t].pc \in ProbePcs => d # th[t].tmp BY <1>2, <2>1 DEF Points
  <2>3. 0 \in Slots BY SizesPositive DEF Slots
  <2>4. eb'[d].edges[0].nbr = eb[d].edges[0].nbr BY <1>5, <1>8, <2>2, <2>3
  <2>5. eb'[d].high = eb[d].high
    <3>1. CASE NewBlock(t)
      <4>1. d # tail BY <1>4, <1>8, Numbers
      <4>. QED BY <1>4, <1>8, <3>1, <4>1, BlockAdded
    <3>2. CASE ~NewBlock(t) BY <1>4, <1>8, <2>2, <3>2, StepEdits DEF Edit
    <3>. QED BY <3>1, <3>2
  <2>. QED BY <1>1, <1>8, <2>4, <2>5 DEF Fills
<1>. QED BY <1>1, <1>6, <1>7, <1>8 DEF Fills, Slot

LEMMA OwnFill ==
  ASSUME IInv, Lists, Uniqueness, NEW t \in Threads, Step(t)
  PROVE  Fills(t)'
<1>. USE DEF FillPcs, ProbePcs, CreatingPcs
<1>. SUFFICES ASSUME NEW x, NEW y, x = th[t], y = th'[t] PROVE Fills(t)'
     OBVIOUS
<1>1. /\ th \in [Threads -> Locals] /\ th[t] \in Locals /\ Fills(t)
      /\ eb \in [Blocks -> EdgeBlock]
      BY DEF IInv, TypeOK, Uniqueness
<1>2. CASE y.pc \notin ProbePcs \cup CreatingPcs BY <1>2 DEF Fills
<1>3. Op(t)' = Op(t) \/ y.pc \notin ProbePcs \cup CreatingPcs BY SameOp DEF EarlyPcs
<1>4. CASE \/ \E i \in DOMAIN res : Take(t, i)
           \/ ReadActive(t) \/ CasActive(t) \/ RefuseLoop(t)
           \/ (FindEnd(t) /\ Op(t).kind = "remove") \/ (WriteRecent(t) /\ ~th[t].held)
           \/ RestoreFirst(t) \/ (RecheckRemove(t) /\ Slot(t).nbr # Op(t).to) \/ ClearSlot(t)
      BY <1>2, <1>4, EarlySteps DEF EarlyPcs
<1>5. CASE \/ FindBlock(t) \/ FindSlot(t) \/ (FindEnd(t) /\ Op(t).kind # "remove")
           \/ RaiseHigh(t) \/ UnlockSlot(t) \/ ReadWeight(t)
           \/ WriteWeight(t) \/ CheckSmall(t) \/ CheckLarge(t) \/ CompareLarge(t) \/ LockStamp(t) \/ StoreLarge(t) \/ UnlockStamp(t)
           \/ (WriteRecent(t) /\ th[t].held) \/ LockWeight(t)
           \/ (RecheckRemove(t) /\ Slot(t).nbr = Op(t).to) \/ Uncount(t)
  <2>1. y.pc \notin LinkPcs BY <1>5, WithinSteps DEF Within, WithinPcs
  <2>2. y.pc \notin PlacePcs BY <1>5, NoPlaceSteps
  <2>. QED BY <1>2, <2>1, <2>2 DEF LinkPcs, PlacePcs
<1>6. CASE EtypeBegin(t) \/ EtypeWalk(t)
  <2>1. PICK c : EtypeStep(t, c) BY <1>6 DEF EtypeBegin, EtypeWalk
  <2>2. y.pc \in {"etype", "find"} BY <1>1, <2>1, SMT DEF EtypeStep, Goto, Locals
  <2>. QED BY <1>2, <2>2
<1>7. CASE Rescan(t) \/ ScanNext(t)
  <2>1. PICK c : ScanFrom(t, c) BY <1>7 DEF Rescan, ScanNext
  <2>2. y.pc \in {"append", "scan"} BY <1>1, <2>1, SMT DEF ScanFrom, Goto, Locals
  <2>. QED BY <1>2, <2>2
<1>8. CASE FindNext(t)
  <2>1. y.pc = "find" BY <1>1, <1>8, SMT DEF FindNext, Goto, Locals
  <2>. QED BY <1>2, <2>1
<1>9. CASE LockLink(t)
  <2>1. y.pc \in {"newblock", "unlink"} BY <1>1, <1>9, SMT DEF LockLink, Goto, Locals
  <2>. QED BY <1>2, <2>1
<1>10. CASE UnlockLink(t) \/ ChangeTotal(t)
  <2>1. Move(t, "rescan") \/ Move(t, "weight")
        BY <1>10, ChangeMoves, Zenon DEF UnlockLink
  <2>2. y.pc \in {"rescan", "weight"} BY <1>1, <2>1, MovedPc
  <2>. QED BY <1>2, <2>2
<1>11. CASE LinkBlock(t)
  <2>1. y.pc = "idle" BY <1>1, <1>11 DEF LinkBlock, Finish, Goto, Idle
  <2>. QED BY <1>2, <2>1
<1>12. CASE PoolExhausted(t)
  <2>1. UNCHANGED <<th, eb, work, phase>>
        BY <1>12, Zenon DEF PoolExhausted, batchVars, edgeVars
  <2>. QED BY <1>1, <2>1 DEF Fills, Slot, Op
<1>13. CASE NewBlock(t)
  <2>1. th' = [th EXCEPT ![t] = [th[t] EXCEPT !.tmp = tail, !.pc = "claim"]]
        BY <1>13, Zenon DEF NewBlock, Goto
  <2>2. y.pc = "claim" /\ y.tmp = tail BY <1>1, <2>1, SMT DEF Locals
  <2>3. eb'[tail] = BlockWith(Op(t)) BY <1>13, BlockAdded
  <2>4. 0 \in Slots BY SizesPositive DEF Slots
  <2>5. eb'[tail].high = 1 /\ eb'[tail].edges[0].nbr = Op(t).to
        BY <2>3, <2>4 DEF BlockWith, FirstEdge
  <2>. QED BY <1>3, <2>2, <2>5 DEF Fills
<1>14. CASE ClaimPlace(t) \/ FillPlace(t)
  <2>1. eb' = eb /\ x.pc \in {"claim", "push"}
        BY <1>14, Zenon DEF ClaimPlace, FillPlace, At, edgeVars
  <2>2. y.pc \in CreatingPcs /\ y.tmp = x.tmp
    <3>1. CASE ClaimPlace(t) BY <1>1, <3>1, SMT DEF ClaimPlace, Goto, Locals
    <3>2. CASE FillPlace(t) BY <1>1, <3>2, MovedPc DEF FillPlace
    <3>. QED BY <1>14, <3>1, <3>2
  <2>. QED BY <1>1, <1>3, <2>1, <2>2 DEF Fills
<1>15. CASE ScanBlock(t)
  <2>1. /\ x.pc = "scan" /\ y.tmp = x.tmp
        /\ y.pc = IF OtherType(t, x.tmp) THEN "scannext" ELSE "slot"
        BY <1>1, <1>15, SMT DEF ScanBlock, At, Goto, Locals
  <2>2. x.tmp # 0 BY <2>1, Working DEF Fits, BlockPcs
  <2>3. eb' = eb BY <1>15, Zenon DEF ScanBlock, edgeVars
  <2>. QED BY <1>2, <1>3, <2>1, <2>2, <2>3 DEF Fills, OtherType
<1>16. CASE \/ ScanSlot(t) \/ LockSlot(t) \/ Recheck(t) \/ Release(t)
            \/ SetNeighbor(t) \/ CountEdge(t) \/ ResetSmall(t) \/ ResetLarge(t) \/ CountDegrees(t)
  <2>1. x.pc \in ProbePcs
        BY <1>16
           DEF ScanSlot, LockSlot, Recheck, Release, SetNeighbor, CountEdge, ResetSmall, ResetLarge,
               CountDegrees, At
  <2>2. y.tmp = x.tmp /\ y.pc \notin LinkPcs BY <1>16, WithinSteps DEF Within, WithinPcs
  <2>3. Edit(t) BY <1>16, StepEdits DEF NewBlock, At, ScanSlot, LockSlot, Recheck, Release,
           SetNeighbor, CountEdge, ResetSmall, ResetLarge, CountDegrees
  <2>4. x.tmp \in Blocks /\ x.k \in Slots BY <2>1, AtSlot DEF SlotPcs
  <2>5. eb'[x.tmp].type = Op(t).type BY <1>1, <2>1, <2>3, <2>4 DEF Edit, Fills
  <2>6. ASSUME y.pc \in FillPcs \ {"setnbr"} PROVE eb'[y.tmp].edges[y.k].nbr = Op(t).to
    <3>1. CASE ScanSlot(t)
      <4>1. x.pc = "slot" BY <3>1 DEF ScanSlot, At
      <4>2. Move(t, Existing(t)) \/ Move(t, "lockslot") \/ Goto(t, NextSlot(t))
            BY <3>1, Zenon DEF ScanSlot
      <4>3. CASE Goto(t, NextSlot(t))
            BY <1>1, <2>6, <4>1, <4>3, SMT DEF NextSlot, Goto, Locals
      <4>. QED BY <1>1, <2>6, <4>1, <4>2, <4>3, ExistingPc, MovedPc
    <3>2. CASE LockSlot(t) BY <1>1, <2>6, <3>2, SMT DEF LockSlot, Goto, Locals
    <3>3. CASE Release(t) BY <1>1, <2>6, <3>3, SMT DEF Release, NextSlot, Goto, Locals
    <3>4. CASE Recheck(t)
      <4>1. x.pc = "recheck" BY <3>4 DEF Recheck, At
      <4>2. Existing(t) \notin FillPcs BY <4>1, ExistingPc
      <4>3. y.pc \in {"setnbr", Existing(t), "release"}
            BY <1>1, <3>4, SMT DEF Recheck, Goto, Locals
      <4>. QED BY <2>6, <4>2, <4>3
    <3>5. CASE SetNeighbor(t) \/ CountEdge(t) \/ ResetSmall(t) \/ ResetLarge(t) \/ CountDegrees(t)
      <4>1. /\ \/ Move(t, "count") \/ Move(t, "onlyedge") \/ Move(t, "onlylarge")
               \/ Move(t, "degrees") \/ Move(t, "high")
            /\ x.pc \in FillPcs
            BY <3>5, Zenon DEF SetNeighbor, CountEdge, ResetSmall, ResetLarge, CountDegrees, At
      <4>2. y.k = x.k BY <1>1, <4>1, MovedPc
      <4>3. CASE x.pc # "setnbr"
        <5>1. eb[x.tmp].edges[x.k].nbr = Op(t).to BY <1>1, <4>1, <4>3 DEF Fills, Slot
        <5>2. eb'[x.tmp].edges[x.k].nbr = eb[x.tmp].edges[x.k].nbr
              BY <2>3, <2>4, <4>1, <4>3 DEF Edit
        <5>. QED BY <2>2, <4>2, <5>1, <5>2
      <4>4. CASE x.pc = "setnbr"
        <5>1. eb' = [eb EXCEPT ![x.tmp].edges[x.k].nbr = Op(t).to]
              BY <3>5, <4>4, Zenon DEF SetNeighbor, CountEdge, ResetSmall, ResetLarge, CountDegrees, At
        <5>2. eb'[x.tmp].edges[x.k].nbr = Op(t).to
              BY <1>1, <2>4, <5>1, SMT DEF EdgeBlock, Edge
        <5>. QED BY <2>2, <4>2, <5>2
      <4>. QED BY <4>3, <4>4
    <3>. QED BY <1>16, <3>1, <3>2, <3>3, <3>4, <3>5
  <2>. QED BY <1>2, <1>3, <2>2, <2>5, <2>6 DEF Fills, Slot, LinkPcs
<1>. QED BY <1>4, <1>5, <1>6, <1>7, <1>8, <1>9, <1>10, <1>11, <1>12, <1>13, <1>14, <1>15, <1>16,
            Zenon DEF Step

------------------------------------------------------------------------------
(* Every step keeps what the threads have found.                           *)
LEMMA RemovalStays ==
  ASSUME ListsGrow, NEW x, NEW o, Points(x, o), Scan(x, o),
         x.pc \in EarlyPcs \/ (o.kind = "remove" /\ x.pc \notin NewPcs)
  PROVE  Scan(x, o)'
<1>1. Begins(x, o)' BY BeginsStay DEF Scan
<1>2. x.pc \in EarlyPcs => x.pc \notin FindPcs \cup NewPcs
      BY DEF EarlyPcs, FindPcs, NewPcs, ProbePcs, FillPcs, EndPcs, CreatingPcs
<1>3. Finds(x, o)' /\ Chooses(x, o)' BY <1>2 DEF Finds, Chooses
<1>. QED BY <1>1, <1>3 DEF Scan

LEMMA ThreadUnique ==
  ASSUME IInv, IInv', Places, Lists, Lists', Uniqueness, NEW t \in Threads, Step(t)
  PROVE  Uniqueness'
<1>1. ListsGrow /\ Ordered' BY ListsOnlyGrow DEF Uniqueness
<1>2. th[t].pc # "clear" => SlotsGrow BY SlotsOnlyGrow
<1>3. Single' /\ (th[t].pc # "clear" => Fresh)
      BY StepSingle, LinkSingle, ThreadLists
<1>4. ASSUME NEW u \in Threads, NEW y, NEW o, y = th'[u], o = Op(u)'
      PROVE  /\ Points(y, o) /\ Scan(y, o)
             /\ u # t => y = th[u] /\ o = Op(u)
  <2>1. CASE u # t
    <3>1. y = th[u] /\ o = Op(u)
          BY <1>4, <2>1, OthersRest, SamePhase DEF IInv, TypeOK, Op
    <3>. QED BY <3>1, ThreadPoints DEF Uniqueness
  <2>2. CASE u = t
    <3>1. Points(y, o) BY <1>4, <2>2, OwnPoints
    <3>2. CASE y.pc \in EarlyPcs
          BY <2>2, <3>1, <3>2
             DEF Scan, Begins, Finds, Chooses, EarlyPcs, FindPcs, NewPcs, ProbePcs, FillPcs,
                 EndPcs, CreatingPcs
    <3>3. CASE y.pc \notin EarlyPcs
      <4>1. o = Op(t) BY <1>4, <2>2, <3>3, SameOp
      <4>. QED BY <1>4, <2>2, <3>1, <4>1, OwnScan
    <3>. QED BY <3>2, <3>3
  <2>. QED BY <2>1, <2>2
<1>5. ASSUME NEW u \in Threads PROVE Scan(th[u], Op(u))'
  <2>. SUFFICES ASSUME NEW y, NEW o, y = th'[u], o = Op(u)' PROVE Scan(y, o)'
       OBVIOUS
  <2>1. Points(y, o) /\ Scan(y, o) BY <1>4
  <2>2. CASE th[t].pc # "clear" BY <1>1, <1>2, <1>3, <2>1, <2>2, ScanStays
  <2>3. CASE th[t].pc = "clear"
    <3>1. CASE u = t
      <4>1. ClearSlot(t)
            BY <2>3
               DEF Step, Take, ReadActive, CasActive, RefuseLoop, EtypeBegin, EtypeWalk,
                   FindBlock, FindSlot, FindNext, FindEnd, Rescan, ScanBlock, ScanSlot,
                   ScanNext, LockSlot, Recheck, Release, LockLink, UnlockLink, NewBlock,
                   PoolExhausted, ClaimPlace, FillPlace, LinkBlock, SetNeighbor, CountEdge,
                   ResetSmall, ResetLarge, CountDegrees, RaiseHigh, UnlockSlot, ReadWeight, ChangeTotal,
                   WriteWeight, CheckSmall, CheckLarge, CompareLarge, LockStamp, StoreLarge, UnlockStamp, WriteRecent, RestoreFirst,
                   LockWeight, RecheckRemove, Uncount, At
      <4>2. y.pc \in EarlyPcs BY <3>1, <4>1, EarlySteps
      <4>. QED BY <1>1, <2>1, <4>2, RemovalStays
    <3>2. CASE u # t /\ th[u].pc = "idle"
      <4>1. y.pc \in EarlyPcs BY <1>4, <3>2 DEF EarlyPcs
      <4>. QED BY <1>1, <2>1, <4>1, RemovalStays
    <3>3. CASE u # t /\ th[u].pc # "idle"
      <4>1. Op(t).kind = "remove" BY <2>3, Working DEF Fits, RemovalPcs
      <4>2. Op(u).kind = "remove" BY <2>3, <3>3, <4>1, KindsAgree
      <4>3. th[u].pc \notin NewPcs
            BY <3>3, <4>2, Working
               DEF Fits, InsertPcs, NewPcs, ProbePcs, FillPcs, EndPcs, CreatingPcs
      <4>4. o.kind = "remove" /\ y.pc \notin NewPcs BY <1>4, <3>3, <4>2, <4>3
      <4>. QED BY <1>1, <2>1, <4>4, RemovalStays
    <3>. QED BY <3>1, <3>2, <3>3
  <2>. QED BY <2>2, <2>3
<1>6. ASSUME NEW u \in Threads PROVE Fills(u)'
      BY OthersFill, OwnFill
<1>. QED BY <1>1, <1>3, <1>5, <1>6 DEF Uniqueness

LEMMA NextUnique ==
  IInv /\ IInv' /\ Places /\ Lists /\ Lists' /\ Uniqueness /\ [Next]_vars => Uniqueness'
<1>. SUFFICES ASSUME IInv, IInv', Places, Lists, Lists', Uniqueness, [Next]_vars
              PROVE  Uniqueness'
     OBVIOUS
<1>1. ASSUME UNCHANGED <<eb, link, tail, th>>,
             \A t \in Threads : th[t].pc = "idle" \/ Op(t)' = Op(t)
      PROVE  Uniqueness'
  <2>1. Listed' = Listed BY <1>1 DEF Listed, Private
  <2>2. SameLists BY <1>1, <2>1 DEF SameLists, LeadsTo
  <2>3. Ordered' BY <1>1, <2>2, OrderedStays DEF Uniqueness
  <2>4. \A d, j, o : Has(d, j, o)' <=> Has(d, j, o)
        BY <1>1, <2>1 DEF Has, Mine, Occupied
  <2>5. Single' BY <2>1, <2>4 DEF Uniqueness, Single
  <2>6. ListsGrow /\ SlotsGrow /\ Fresh
        BY <1>1, <2>1, <2>4 DEF ListsGrow, SlotsGrow, Fresh, Occupied
  <2>7. ASSUME NEW t \in Threads PROVE Scan(th[t], Op(t))' /\ Fills(t)'
    <3>. SUFFICES ASSUME NEW x, NEW o, x = th[t], o = Op(t)' PROVE Scan(x, o)' /\ Fills(t)'
         BY <1>1
    <3>1. CASE x.pc = "idle"
          BY <1>1, <3>1
             DEF Scan, Begins, Finds, Chooses, Fills, EarlyPcs, FindPcs, NewPcs, ProbePcs,
                 FillPcs, EndPcs, CreatingPcs
    <3>2. CASE o = Op(t)
      <4>1. Points(x, o) /\ Scan(x, o) BY <3>2, ThreadPoints DEF Uniqueness
      <4>2. Fills(t)' BY <1>1, <3>2 DEF Uniqueness, Fills, Slot
      <4>. QED BY <2>6, <4>1, <4>2, ScanStays
    <3>. QED BY <1>1, <3>1, <3>2
  <2>. QED BY <2>3, <2>5, <2>7 DEF Uniqueness
<1>2. CASE Barrier
  <2>1. UNCHANGED <<eb, link, tail, th>>
        BY <1>2 DEF Barrier, edgeVars, poolVars, countVars
  <2>2. ASSUME NEW t \in Threads, th[t].pc # "idle" PROVE FALSE
    <3>1. /\ phase \in DOMAIN work /\ th[t].op \in DOMAIN work[phase]
          /\ res[th[t].op] = Taken /\ DOMAIN res = OpsOf(work, phase)
          BY <2>2 DEF IInv, Assigned, TypeOK
    <3>2. \A i \in DOMAIN res : res[i] \notin {ToDo, Taken} BY <1>2, Zenon DEF Barrier
    <3>. QED BY <3>1, <3>2 DEF OpsOf
  <2>. QED BY <1>1, <2>1, <2>2
<1>3. CASE Over \/ UNCHANGED vars BY <1>1, <1>3 DEF Over, vars, Op
<1>4. ASSUME NEW t \in Threads, Step(t) PROVE Uniqueness' BY <1>4, ThreadUnique
<1>. QED BY <1>2, <1>3, <1>4, Zenon DEF Next

LEMMA InitUnique == Init => Uniqueness
<1>. SUFFICES ASSUME Init PROVE Uniqueness
     OBVIOUS
<1>1. tail = 1 /\ \A t \in Threads : th[t].pc = "idle" BY DEF Init, Idle
<1>2. Listed = {} BY <1>1, SizesPositive DEF Listed, Blocks
<1>3. Ordered /\ Single BY <1>2 DEF Ordered, Single
<1>4. ASSUME NEW t \in Threads PROVE Scan(th[t], Op(t)) /\ Fills(t)
      BY <1>1, <1>4
         DEF Scan, Begins, Finds, Chooses, Fills, EarlyPcs, FindPcs, NewPcs, ProbePcs, FillPcs,
             EndPcs, CreatingPcs
<1>. QED BY <1>3, <1>4 DEF Uniqueness

LEMMA UniqueHold == Spec => []Uniqueness
<1>1. IInv /\ IInv' /\ Places /\ Lists /\ Lists' /\ Uniqueness /\ [Next]_vars => Uniqueness'
      BY NextUnique
<1>. QED BY <1>1, Invariance, PlacesHold, ListsHold, InitUnique, PTL DEF Spec

(* No scan ever finds one edge in two slots, whatever insertions race for  *)
(* it: the two looks of stinger_insert_edge_ before it locks a slot, the   *)
(* one after, and the lock of the link that ends the list suffice.         *)
THEOREM NoDuplicates == Spec => []NoDuplicateEdge
<1>1. Uniqueness => NoDuplicateEdge
  <2>. SUFFICES ASSUME Single, NEW p \in EdgeSlots, NEW q \in EdgeSlots,
                       EdgeIn(p[1], p[2]) = EdgeIn(q[1], q[2])
                PROVE  p = q
       BY DEF Uniqueness, NoDuplicateEdge
  <2>. SUFFICES ASSUME NEW o, o = [from |-> eb[p[1]].vertex, type |-> eb[p[1]].type,
                                   to |-> eb[p[1]].edges[p[2]].nbr]
                PROVE  p = q
       OBVIOUS
  <2>1. /\ p \in Listed \X Slots /\ q \in Listed \X Slots
        /\ Occupied(p[1], p[2]) /\ Occupied(q[1], q[2])
        BY DEF EdgeSlots
  <2>2. /\ eb[p[1]].type = eb[q[1]].type /\ eb[p[1]].vertex = eb[q[1]].vertex
        /\ eb[p[1]].edges[p[2]].nbr = eb[q[1]].edges[q[2]].nbr
        BY DEF EdgeIn
  <2>3. Has(p[1], p[2], o) /\ Has(q[1], q[2], o) BY <2>1, <2>2 DEF Has, Mine
  <2>4. p[1] = q[1] /\ p[2] = q[2] BY <2>1, <2>3 DEF Single
  <2>. QED BY <2>1, <2>4
<1>. QED BY <1>1, UniqueHold, PTL

------------------------------------------------------------------------------
(* The atomic set of edges.                                                *)

(* The program counters at which a new edge is put in its slot, and at     *)
(* which its weight and stamps follow; at which a removal holds the weight *)
(* of the slot it empties.                                                 *)
AddPcs     == FillPcs \cup {"unlockslot"}
SettlePcs  ==
  {"weight", "stamps", "checklarge", "lockstamp", "widen", "raise", "unlockstamp", "recent"}
EmptyPcs   == {"reremove", "uncount", "clear"}

(* A thread that has Chosen a slot for a new edge returns 1, and the edge  *)
(* can be seen once the slot's lock is to be given back.                   *)
Returns(x) ==
  /\ x.rv = 1 => x.pc \in AddPcs \cup SettlePcs /\ ~x.held
  /\ x.pc \in AddPcs => x.rv = 1
  /\ x.rv = 1 /\ x.pc \in {"unlockslot"} \cup SettlePcs => x.k < eb[x.tmp].high

(* The slot a thread is at belongs to a block of its operation's type, and *)
(* only an operation that is not a self-loop gets past its first steps.    *)
Suits(t) ==
  /\ th[t].pc \in SlotPcs => eb[th[t].tmp].type = Op(t).type
  /\ th[t].pc \notin EarlyPcs => Op(t).from # Op(t).to

(* What a removal finds: the edge or, until it has the weight, a slot that *)
(* another removal has emptied for good; or no slot with the edge yet.     *)
Finding(x, o) ==
  x.pc \in FindPcs /\ o.kind = "remove" =>
    \A d \in Listed : \A j \in Slots : Looked(x, d, j) => ~Has(d, j, o)
Found(t) == Occupied(th[t].tmp, th[t].k) /\ Slot(t).nbr = Op(t).to
Removes(t) ==
  /\ Finding(th[t], Op(t))
  /\ th[t].pc = "lockweight" => Found(t) \/ Slot(t).weight = MARKER
  /\ th[t].pc \in EmptyPcs => Found(t) /\ Slot(t).weight = MARKER

EmptiedOnce ==
  \A t, u \in Threads : th[t].pc \in EmptyPcs /\ th[u].pc \in EmptyPcs
    /\ th[t].tmp = th[u].tmp /\ th[t].k = th[u].k => t = u

(* An operation that is taken has its thread.                              *)
TakenBy ==
  \A i \in DOMAIN res : res[i] = Taken => \E t \in Threads : th[t].pc # "idle" /\ th[t].op = i

NoLoops == \A p \in EdgeSlots : eb[p[1]].edges[p[2]].nbr # eb[p[1]].vertex

Results ==
  /\ TakenBy /\ NoLoops /\ EmptiedOnce
  /\ \A t \in Threads : Returns(th[t]) /\ Suits(t) /\ Removes(t)

------------------------------------------------------------------------------
(* The course of a step of a busy thread t, from locals x to locals y: a   *)
(* walk to the next slot, block or place; the edge found; a slot chosen    *)
(* for a new edge; the stores of a new edge, of an edge that is there, and *)
(* of a removal; or the return.                                            *)
Walks(t, x, y) ==
  /\ x.pc \notin AddPcs \cup UpdatePcs \cup RemovalPcs
  /\ y.pc \notin AddPcs \cup UpdatePcs \cup RemovalPcs \cup {"idle"}
  /\ y.op = x.op /\ y.rv = x.rv /\ y.held = x.held
  /\ y.pc \in SlotPcs =>
       /\ y.tmp = x.tmp
       /\ x.pc \in SlotPcs \/ (x.tmp # 0 /\ ~OtherType(t, x.tmp))
Meets(t, x, y) ==
  /\ x.pc \in {"findslot", "slot", "recheck"} /\ y.pc = Existing(t) /\ Found(t)
  /\ y.op = x.op /\ y.tmp = x.tmp /\ y.k = x.k /\ y.rv = x.rv /\ eb' = eb
  /\ x.pc # "recheck" => y.held = x.held
Takes(t, x, y) ==
  /\ x.pc = "recheck" /\ y.pc = "setnbr" /\ y.rv = 1
  /\ y.op = x.op /\ y.tmp = x.tmp /\ y.k = x.k /\ y.held = x.held
Stores(t, x, y) ==
  /\ y.op = x.op /\ y.tmp = x.tmp /\ y.k = x.k /\ y.rv = x.rv /\ y.held = x.held
  /\ \/ /\ x.pc \in AddPcs /\ y.pc \in (AddPcs \cup {"weight"}) \ {"setnbr"}
        /\ y.pc = "unlockslot" <=> x.pc = "high"
        /\ y.pc = "weight" <=> x.pc = "unlockslot"
     \/ x.pc \in SettlePcs /\ y.pc \in SettlePcs
     \/ x.pc = "readweight" /\ y.pc = "change"
     \/ x.pc = "change" /\ y.pc = "weight"
     \/ x.pc = "recent" /\ y.pc = "restore" /\ x.held
     \/ x.pc = "lockweight" /\ y.pc = "reremove"
     \/ x.pc = "reremove" /\ y.pc = "uncount"
     \/ x.pc = "uncount" /\ y.pc = "clear"
Ends(t) ==
  \/ RefuseLoop(t) \/ (FindEnd(t) /\ Op(t).kind = "remove") \/ LinkBlock(t)
  \/ (WriteRecent(t) /\ ~th[t].held) \/ RestoreFirst(t)
  \/ (RecheckRemove(t) /\ Slot(t).nbr # Op(t).to) \/ ClearSlot(t)

(* What a move of the program counter leaves.                              *)
LEMMA Stepped ==
  ASSUME th \in [Threads -> Locals], NEW t \in Threads, NEW p, Move(t, p)
  PROVE  /\ th'[t].pc = p /\ th'[t].op = th[t].op /\ th'[t].tmp = th[t].tmp
         /\ th'[t].k = th[t].k /\ th'[t].rv = th[t].rv /\ th'[t].held = th[t].held
<1>1. th[t] \in Locals OBVIOUS
<1>. QED BY <1>1, SMT DEF Move, Goto, Locals

(* The pcs a walk leads through.                                           *)
StrollPcs ==
  {"activate", "cas", "begin", "etype", "find", "findslot", "findnext", "rescan", "scan",
   "slot", "scannext", "lockslot", "recheck", "release"} \cup EndPcs \cup {"unlink"}

LEMMA Strolls ==
  ASSUME NEW t \in Threads, NEW x, NEW y, x.pc \in StrollPcs, y.pc \in StrollPcs,
         y.op = x.op, y.rv = x.rv, y.held = x.held,
         \/ y.pc \notin SlotPcs
         \/ y.tmp = x.tmp /\ (x.pc \in SlotPcs \/ (x.tmp # 0 /\ ~OtherType(t, x.tmp)))
  PROVE  Walks(t, x, y)
BY DEF Walks, StrollPcs, EndPcs, CreatingPcs, AddPcs, FillPcs, UpdatePcs, RemovalPcs

LEMMA WalkSteps ==
  ASSUME IInv, NEW t \in Threads, NEW x, NEW y, x = th[t], y = th'[t],
         \/ ReadActive(t) \/ CasActive(t) \/ EtypeBegin(t) \/ EtypeWalk(t)
         \/ FindBlock(t) \/ FindNext(t) \/ (FindEnd(t) /\ Op(t).kind # "remove")
         \/ Rescan(t) \/ ScanBlock(t) \/ ScanNext(t) \/ LockSlot(t) \/ Release(t)
         \/ LockLink(t) \/ UnlockLink(t) \/ NewBlock(t) \/ PoolExhausted(t)
         \/ ClaimPlace(t) \/ FillPlace(t)
  PROVE  Walks(t, x, y) /\ res' = res
<1>. USE DEF StrollPcs, EndPcs, CreatingPcs, SlotPcs
<1>1. th \in [Threads -> Locals] /\ x \in Locals BY DEF IInv, TypeOK
<1>2. CASE ReadActive(t)
  <2>1. /\ x.pc = "activate" /\ res' = res
        /\ Goto(t, [th[t] EXCEPT !.sv = active, !.pc = "cas"]) \/ Move(t, "begin")
        BY <1>2, Zenon DEF ReadActive, At
  <2>2. CASE Goto(t, [th[t] EXCEPT !.sv = active, !.pc = "cas"])
    <3>1. y.pc = "cas" /\ y.op = x.op /\ y.rv = x.rv /\ y.held = x.held
          BY <1>1, <2>2, SMT DEF Goto, Locals
    <3>. QED BY <2>1, <3>1, Strolls
  <2>3. CASE Move(t, "begin") BY <1>1, <2>1, <2>3, Stepped, Strolls
  <2>. QED BY <2>1, <2>2, <2>3
<1>3. CASE CasActive(t)
  <2>1. x.pc = "cas" /\ res' = res /\ (Move(t, "activate") \/ Move(t, "begin"))
        BY <1>3, Zenon DEF CasActive, At
  <2>. QED BY <1>1, <2>1, Stepped, Strolls
<1>4. CASE EtypeBegin(t) \/ EtypeWalk(t)
  <2>1. PICK c : EtypeStep(t, c) BY <1>4 DEF EtypeBegin, EtypeWalk
  <2>2. x.pc \in {"begin", "etype"} /\ res' = res
        BY <1>4, <2>1 DEF EtypeBegin, EtypeWalk, EtypeStep, At
  <2>3. y.pc \in {"etype", "find"} /\ y.op = x.op /\ y.rv = x.rv /\ y.held = x.held
        BY <1>1, <2>1, SMT DEF EtypeStep, Goto, Locals
  <2>. QED BY <2>2, <2>3, Strolls
<1>5. CASE FindBlock(t)
  <2>. SUFFICES ASSUME NEW q, q = IF OtherType(t, x.tmp) \/ eb[x.tmp].high = 0
                                  THEN "findnext" ELSE "findslot"
                PROVE  Walks(t, x, y) /\ res' = res
       OBVIOUS
  <2>1. /\ x.pc = "find" /\ x.tmp # 0 /\ res' = res
        /\ Goto(t, [th[t] EXCEPT !.k = 0, !.endk = eb[x.tmp].high, !.pc = q])
        BY <1>5, Zenon DEF FindBlock, At
  <2>2. y.pc = q /\ y.op = x.op /\ y.rv = x.rv /\ y.held = x.held /\ y.tmp = x.tmp
        BY <1>1, <2>1, SMT DEF Goto, Locals
  <2>. QED BY <2>1, <2>2, Strolls
<1>6. CASE FindNext(t)
  <2>1. x.pc = "findnext" /\ res' = res BY <1>6, Zenon DEF FindNext, At
  <2>2. y.pc = "find" /\ y.op = x.op /\ y.rv = x.rv /\ y.held = x.held
        BY <1>1, <1>6, SMT DEF FindNext, Goto, Locals
  <2>. QED BY <2>1, <2>2, Strolls
<1>7. CASE FindEnd(t) /\ Op(t).kind # "remove"
  <2>1. x.pc = "find" /\ res' = res /\ Move(t, "rescan") BY <1>7, Zenon DEF FindEnd, At
  <2>. QED BY <1>1, <2>1, Stepped, Strolls
<1>8. CASE Rescan(t) \/ ScanNext(t)
  <2>1. PICK c : ScanFrom(t, c) BY <1>8 DEF Rescan, ScanNext
  <2>2. x.pc \in {"rescan", "scannext"} /\ res' = res
        BY <1>8, <2>1 DEF Rescan, ScanNext, ScanFrom, At
  <2>3. y.pc \in {"append", "scan"} /\ y.op = x.op /\ y.rv = x.rv /\ y.held = x.held
        BY <1>1, <2>1, SMT DEF ScanFrom, Goto, Locals
  <2>. QED BY <2>2, <2>3, Strolls
<1>9. CASE ScanBlock(t)
  <2>. SUFFICES ASSUME NEW q, q = IF OtherType(t, x.tmp) THEN "scannext" ELSE "slot"
                PROVE  Walks(t, x, y) /\ res' = res
       OBVIOUS
  <2>1. /\ x.pc = "scan" /\ res' = res
        /\ Goto(t, [th[t] EXCEPT !.k = 0, !.endk = eb[x.tmp].high, !.pc = q])
        BY <1>9, Zenon DEF ScanBlock, At
  <2>2. y.pc = q /\ y.op = x.op /\ y.rv = x.rv /\ y.held = x.held /\ y.tmp = x.tmp
        BY <1>1, <2>1, SMT DEF Goto, Locals
  <2>3. x.tmp # 0 BY <2>1, Working DEF Fits, BlockPcs
  <2>. QED BY <2>1, <2>2, <2>3, Strolls
<1>10. CASE LockSlot(t)
  <2>1. x.pc = "lockslot" /\ res' = res BY <1>10, Zenon DEF LockSlot, At
  <2>2. /\ y.pc = "recheck" /\ y.op = x.op /\ y.rv = x.rv /\ y.held = x.held
        /\ y.tmp = x.tmp
        BY <1>1, <1>10, SMT DEF LockSlot, Goto, Locals
  <2>. QED BY <2>1, <2>2, Strolls
<1>11. CASE Release(t)
  <2>1. x.pc = "release" /\ res' = res /\ th' = [th EXCEPT ![t] = NextSlot(t)]
        BY <1>11, Zenon DEF Release, At, Goto
  <2>2. y = NextSlot(t) BY <1>1, <2>1
  <2>3. /\ y.pc \in {"slot", "scannext"} /\ y.op = x.op /\ y.rv = x.rv /\ y.held = x.held
        /\ y.tmp = x.tmp
        BY <1>1, <2>2, SMT DEF NextSlot, Locals
  <2>. QED BY <2>1, <2>3, Strolls
<1>12. CASE LockLink(t)
  <2>1. x.pc = "append" /\ res' = res BY <1>12, Zenon DEF LockLink, At
  <2>2. /\ y.pc \in {"newblock", "unlink"} /\ y.op = x.op /\ y.rv = x.rv /\ y.held = x.held
        BY <1>1, <1>12, SMT DEF LockLink, Goto, Locals
  <2>. QED BY <2>1, <2>2, Strolls
<1>13. CASE UnlockLink(t) \/ FillPlace(t)
  <2>1. /\ x.pc \in {"unlink", "push"} /\ res' = res
        /\ Move(t, "rescan") \/ Move(t, "link")
        BY <1>13 DEF UnlockLink, FillPlace, At
  <2>. QED BY <1>1, <2>1, Stepped, Strolls
<1>14. CASE NewBlock(t)
  <2>1. /\ x.pc = "newblock" /\ res' = res
        /\ th' = [th EXCEPT ![t] = [th[t] EXCEPT !.tmp = tail, !.pc = "claim"]]
        BY <1>14, Zenon DEF NewBlock, Goto, At
  <2>2. /\ y.pc = "claim" /\ y.op = x.op /\ y.rv = x.rv /\ y.held = x.held
        BY <1>1, <2>1, SMT DEF Locals
  <2>. QED BY <2>1, <2>2, Strolls
<1>15. CASE PoolExhausted(t)
  <2>1. x.pc = "newblock" /\ res' = res /\ th' = th BY <1>15, Zenon DEF PoolExhausted, At
  <2>. QED BY <2>1, Strolls
<1>16. CASE ClaimPlace(t)
  <2>1. x.pc = "claim" /\ res' = res BY <1>16, Zenon DEF ClaimPlace, At
  <2>2. /\ y.pc = "push" /\ y.op = x.op /\ y.rv = x.rv /\ y.held = x.held
        BY <1>1, <1>16, SMT DEF ClaimPlace, Goto, Locals
  <2>. QED BY <2>1, <2>2, Strolls
<1>. QED BY <1>2, <1>3, <1>4, <1>5, <1>6, <1>7, <1>8, <1>9, <1>10, <1>11, <1>12, <1>13,
            <1>14, <1>15, <1>16

LEMMA ProbeSteps ==
  ASSUME IInv, NEW t \in Threads, NEW x, NEW y, x = th[t], y = th'[t],
         FindSlot(t) \/ ScanSlot(t) \/ Recheck(t)
  PROVE  /\ Walks(t, x, y) \/ Meets(t, x, y) \/ Takes(t, x, y)
         /\ res' = res /\ eb' = eb
<1>. USE DEF StrollPcs, SlotPcs
<1>1. th \in [Threads -> Locals] /\ x \in Locals BY DEF IInv, TypeOK
<1>2. /\ x.pc \in {"findslot", "slot", "recheck"} /\ res' = res /\ eb' = eb
      BY Zenon DEF FindSlot, ScanSlot, Recheck, At, edgeVars
<1>3. /\ x.k \in Nat /\ x.endk \in Nat /\ eb[x.tmp].high \in Nat /\ x.endk <= eb[x.tmp].high
      /\ Slot(t) = eb[x.tmp].edges[x.k] /\ Op(t).to \in Nat
  <2>1. x.pc # "idle" /\ x.pc \in SlotPcs BY <1>2
  <2>. QED BY <1>2, <2>1, Working, AtSlot, OpFields DEF Fits, ScanPcs, Slot, Vertices
<1>4. CASE FindSlot(t)
  <2>1. x.pc = "findslot" /\ x.k < x.endk
    <3>1. x.pc = "findslot" BY <1>4 DEF FindSlot, At
    <3>. QED BY <3>1, Working DEF Fits
  <2>2. CASE Slot(t).nbr = Op(t).to
    <3>1. Move(t, Existing(t)) BY <1>4, <2>2, Zenon DEF FindSlot
    <3>2. Found(t) BY <1>3, <2>1, <2>2 DEF Found, Occupied
    <3>. QED BY <1>1, <1>2, <2>1, <3>1, <3>2, Stepped DEF Meets
  <2>3. CASE Slot(t).nbr # Op(t).to
    <3>1. \/ Goto(t, [th[t] EXCEPT !.k = @ + 1])
          \/ Move(t, "findnext")
          BY <1>4, <2>3, Zenon DEF FindSlot
    <3>2. CASE Goto(t, [th[t] EXCEPT !.k = @ + 1])
      <4>1. y.pc = x.pc /\ y.op = x.op /\ y.rv = x.rv /\ y.held = x.held /\ y.tmp = x.tmp
            BY <1>1, <3>2, SMT DEF Goto, Locals
      <4>. QED BY <1>2, <2>1, <4>1, Strolls
    <3>3. CASE Move(t, "findnext") BY <1>1, <1>2, <2>1, <3>3, Stepped, Strolls
    <3>. QED BY <3>1, <3>2, <3>3
  <2>. QED BY <2>2, <2>3
<1>5. CASE ScanSlot(t)
  <2>1. x.pc = "slot" BY <1>5 DEF ScanSlot, At
  <2>2. \/ Slot(t).nbr = Op(t).to /\ x.k < x.endk /\ Move(t, Existing(t))
        \/ Move(t, "lockslot") \/ Goto(t, NextSlot(t))
        BY <1>5, Zenon DEF ScanSlot
  <2>3. CASE Slot(t).nbr = Op(t).to /\ x.k < x.endk /\ Move(t, Existing(t))
    <3>1. Found(t) BY <1>3, <2>3 DEF Found, Occupied
    <3>. QED BY <1>1, <1>2, <2>1, <2>3, <3>1, Stepped DEF Meets
  <2>4. CASE Move(t, "lockslot") BY <1>1, <1>2, <2>1, <2>4, Stepped, Strolls
  <2>5. CASE Goto(t, NextSlot(t))
    <3>1. y = NextSlot(t) BY <1>1, <2>5 DEF Goto
    <3>2. /\ y.pc \in {"slot", "scannext"} /\ y.op = x.op /\ y.rv = x.rv /\ y.held = x.held
          /\ y.tmp = x.tmp
          BY <1>1, <3>1, SMT DEF NextSlot, Locals
    <3>. QED BY <1>2, <2>1, <3>2, Strolls
  <2>. QED BY <2>2, <2>3, <2>4, <2>5
<1>6. CASE Recheck(t)
  <2>. SUFFICES ASSUME NEW h, h = eb[x.tmp].high, NEW q, q = Existing(t)
                PROVE  Walks(t, x, y) \/ Meets(t, x, y) \/ Takes(t, x, y)
       BY <1>2
  <2>1. x.pc = "recheck" BY <1>6 DEF Recheck, At
  <2>2. \/ Goto(t, [th[t] EXCEPT !.endk = h, !.rv = 1, !.pc = "setnbr"])
        \/ /\ ~(Slot(t).nbr < 0 \/ x.k >= h) /\ Slot(t).nbr = Op(t).to
           /\ Goto(t, [th[t] EXCEPT !.endk = h, !.held = TRUE, !.pc = q])
        \/ Goto(t, [th[t] EXCEPT !.endk = h, !.pc = "release"])
        BY <1>6, Zenon DEF Recheck
  <2>3. CASE Goto(t, [th[t] EXCEPT !.endk = h, !.rv = 1, !.pc = "setnbr"])
    <3>1. y.pc = "setnbr" /\ y.op = x.op /\ y.tmp = x.tmp /\ y.k = x.k /\ y.rv = 1
          /\ y.held = x.held
          BY <1>1, <2>3, SMT DEF Goto, Locals
    <3>. QED BY <2>1, <3>1 DEF Takes
  <2>4. CASE /\ ~(Slot(t).nbr < 0 \/ x.k >= h) /\ Slot(t).nbr = Op(t).to
             /\ Goto(t, [th[t] EXCEPT !.endk = h, !.held = TRUE, !.pc = q])
    <3>1. y.pc = q /\ y.op = x.op /\ y.tmp = x.tmp /\ y.k = x.k /\ y.rv = x.rv
          BY <1>1, <2>4, SMT DEF Goto, Locals
    <3>2. Found(t) BY <1>3, <2>4 DEF Found, Occupied
    <3>. QED BY <1>2, <2>1, <3>1, <3>2 DEF Meets
  <2>5. CASE Goto(t, [th[t] EXCEPT !.endk = h, !.pc = "release"])
    <3>1. y.pc = "release" /\ y.op = x.op /\ y.tmp = x.tmp /\ y.rv = x.rv /\ y.held = x.held
          BY <1>1, <2>5, SMT DEF Goto, Locals
    <3>. QED BY <2>1, <3>1, Strolls
  <2>. QED BY <2>2, <2>3, <2>4, <2>5
<1>. QED BY <1>2, <1>4, <1>5, <1>6

LEMMA StoreSteps ==
  ASSUME IInv, NEW t \in Threads, NEW x, NEW y, x = th[t], y = th'[t],
         \/ SetNeighbor(t) \/ CountEdge(t) \/ ResetSmall(t) \/ ResetLarge(t) \/ CountDegrees(t)
         \/ RaiseHigh(t) \/ UnlockSlot(t) \/ ReadWeight(t) \/ ChangeTotal(t) \/ WriteWeight(t)
         \/ CheckSmall(t) \/ CheckLarge(t) \/ CompareLarge(t) \/ LockStamp(t) \/ StoreLarge(t) \/ UnlockStamp(t)
         \/ (WriteRecent(t) /\ th[t].held) \/ LockWeight(t)
         \/ (RecheckRemove(t) /\ Slot(t).nbr = Op(t).to) \/ Uncount(t)
  PROVE  Stores(t, x, y) /\ res' = res
<1>. USE DEF AddPcs, FillPcs, SettlePcs
<1>1. th \in [Threads -> Locals] /\ x \in Locals BY DEF IInv, TypeOK
<1>2. ASSUME NEW p, Move(t, p),
             \/ /\ x.pc \in AddPcs /\ p \in (AddPcs \cup {"weight"}) \ {"setnbr"}
                /\ p = "unlockslot" <=> x.pc = "high"
                /\ p = "weight" <=> x.pc = "unlockslot"
             \/ x.pc \in SettlePcs /\ p \in SettlePcs
             \/ x.pc = "change" /\ p = "weight"
             \/ x.pc = "recent" /\ p = "restore" /\ x.held
             \/ x.pc = "reremove" /\ p = "uncount"
             \/ x.pc = "uncount" /\ p = "clear"
      PROVE  Stores(t, x, y)
      BY <1>1, <1>2, Stepped DEF Stores
<1>3. CASE SetNeighbor(t) \/ ResetSmall(t) \/ ResetLarge(t) \/ CountDegrees(t) \/ RaiseHigh(t) \/ UnlockSlot(t)
  <2>1. /\ res' = res
        /\ \/ th[t].pc = "setnbr" /\ Move(t, "count")
           \/ th[t].pc = "onlyedge" /\ Move(t, "onlylarge")
           \/ th[t].pc = "onlylarge" /\ Move(t, "degrees")
           \/ th[t].pc = "degrees" /\ Move(t, "high")
           \/ th[t].pc = "high" /\ Move(t, "unlockslot")
           \/ th[t].pc = "unlockslot" /\ Move(t, "weight")
        BY <1>3, Zenon DEF SetNeighbor, ResetSmall, ResetLarge, CountDegrees, RaiseHigh, UnlockSlot, At
  <2>. QED BY <1>2, <2>1
<1>4. CASE CountEdge(t)
  <2>1. x.pc = "count" /\ res' = res /\ (Move(t, "onlyedge") \/ Move(t, "degrees"))
        BY <1>4, Zenon DEF CountEdge, At
  <2>. QED BY <1>2, <2>1
<1>5. CASE ReadWeight(t)
  <2>. SUFFICES ASSUME NEW n, n = Slot(t).weight + Op(t).weight
                PROVE  Stores(t, x, y) /\ res' = res
       OBVIOUS
  <2>1. x.pc = "readweight" /\ res' = res /\ Goto(t, [th[t] EXCEPT !.nw = n, !.pc = "change"])
        BY <1>5, Zenon DEF ReadWeight, At
  <2>2. y.pc = "change" /\ y.op = x.op /\ y.tmp = x.tmp /\ y.k = x.k /\ y.rv = x.rv
        /\ y.held = x.held
        BY <1>1, <2>1, SMT DEF Goto, Locals
  <2>. QED BY <2>1, <2>2 DEF Stores
<1>6. CASE ChangeTotal(t)
  <2>1. x.pc = "change" /\ res' = res BY <1>6, Zenon DEF ChangeTotal, At
  <2>. QED BY <1>2, <1>6, <2>1, ChangeMoves
<1>7. CASE WriteWeight(t) \/ CheckSmall(t) \/ CheckLarge(t) \/ CompareLarge(t) \/ StoreLarge(t) \/ UnlockStamp(t)
  <2>1. /\ res' = res
        /\ \/ th[t].pc = "weight" /\ Move(t, "stamps")
           \/ /\ th[t].pc \in {"stamps", "checklarge"}
              /\ Move(t, "checklarge") \/ Move(t, "lockstamp") \/ Move(t, "recent")
           \/ th[t].pc = "widen" /\ (Move(t, "raise") \/ Move(t, "unlockstamp"))
           \/ th[t].pc = "raise" /\ Move(t, "unlockstamp")
           \/ th[t].pc = "unlockstamp" /\ Move(t, "recent")
        BY <1>7, Zenon DEF WriteWeight, CheckSmall, CheckLarge, CompareLarge, StoreLarge, UnlockStamp, At
  <2>. QED BY <1>2, <2>1
<1>8. CASE LockStamp(t)
  <2>1. x.pc = "lockstamp" /\ res' = res BY <1>8, Zenon DEF LockStamp, At
  <2>2. y.pc = "widen" /\ y.op = x.op /\ y.tmp = x.tmp /\ y.k = x.k /\ y.rv = x.rv
        /\ y.held = x.held
        BY <1>1, <1>8, SMT DEF LockStamp, Goto, Locals
  <2>. QED BY <2>1, <2>2 DEF Stores
<1>9. CASE \/ (WriteRecent(t) /\ th[t].held) \/ Uncount(t)
           \/ (RecheckRemove(t) /\ Slot(t).nbr = Op(t).to)
  <2>1. /\ res' = res
        /\ \/ th[t].pc = "recent" /\ th[t].held /\ Move(t, "restore")
           \/ th[t].pc = "reremove" /\ Move(t, "uncount")
           \/ th[t].pc = "uncount" /\ Move(t, "clear")
        BY <1>9, Zenon DEF WriteRecent, RecheckRemove, Uncount, At
  <2>. QED BY <1>2, <2>1
<1>10. CASE LockWeight(t)
  <2>1. x.pc = "lockweight" /\ res' = res BY <1>10, Zenon DEF LockWeight, At
  <2>2. y.pc = "reremove" /\ y.op = x.op /\ y.tmp = x.tmp /\ y.k = x.k /\ y.rv = x.rv
        /\ y.held = x.held
        BY <1>1, <1>10, SMT DEF LockWeight, Goto, Locals
  <2>. QED BY <2>1, <2>2 DEF Stores
<1>. QED BY <1>3, <1>4, <1>5, <1>6, <1>7, <1>8, <1>9, <1>10

(* What the step of a busy thread is.                                      *)
Continues(t, x, y) ==
  res' = res /\ (Walks(t, x, y) \/ Meets(t, x, y) \/ Takes(t, x, y) \/ Stores(t, x, y))

LEMMA Course ==
  ASSUME IInv, NEW t \in Threads, Step(t)
  PROVE  \/ \E i \in DOMAIN res : Take(t, i)
         \/ Ends(t)
         \/ Continues(t, th[t], th'[t])
<1>. USE DEF Continues
<1>1. CASE \/ ReadActive(t) \/ CasActive(t) \/ EtypeBegin(t) \/ EtypeWalk(t)
           \/ FindBlock(t) \/ FindNext(t) \/ (FindEnd(t) /\ Op(t).kind # "remove")
           \/ Rescan(t) \/ ScanBlock(t) \/ ScanNext(t) \/ LockSlot(t) \/ Release(t)
           \/ LockLink(t) \/ UnlockLink(t) \/ NewBlock(t) \/ PoolExhausted(t)
           \/ ClaimPlace(t) \/ FillPlace(t)
      BY <1>1, WalkSteps
<1>2. CASE FindSlot(t) \/ ScanSlot(t) \/ Recheck(t) BY <1>2, ProbeSteps
<1>3. CASE \/ SetNeighbor(t) \/ CountEdge(t) \/ ResetSmall(t) \/ ResetLarge(t) \/ CountDegrees(t)
           \/ RaiseHigh(t) \/ UnlockSlot(t) \/ ReadWeight(t) \/ ChangeTotal(t)
           \/ WriteWeight(t) \/ CheckSmall(t) \/ CheckLarge(t) \/ CompareLarge(t) \/ LockStamp(t) \/ StoreLarge(t) \/ UnlockStamp(t)
           \/ (WriteRecent(t) /\ th[t].held) \/ LockWeight(t)
           \/ (RecheckRemove(t) /\ Slot(t).nbr = Op(t).to) \/ Uncount(t)
      BY <1>3, StoreSteps
<1>. QED BY <1>1, <1>2, <1>3, Zenon DEF Step, Ends

LEMMA Starts ==
  ASSUME IInv, NEW t \in Threads, NEW i \in DOMAIN res, Take(t, i)
  PROVE  /\ th[t].pc = "idle" /\ res[i] = ToDo /\ res' = [res EXCEPT ![i] = Taken]
         /\ th'[t].pc \in {"begin", "activate"} /\ th'[t].op = i
         /\ th'[t].rv = 0 /\ th'[t].held = FALSE
         /\ UNCHANGED <<eb, link, tail, aborted>>
<1>. DEFINE p == IF work[phase][i].kind = "remove" THEN "begin" ELSE "activate"
            z == [Idle EXCEPT !.op = i, !.nw = work[phase][i].weight, !.pc = p]
<1>1. /\ th[t].pc = "idle" /\ res[i] = ToDo /\ res' = [res EXCEPT ![i] = Taken]
      /\ th' = [th EXCEPT ![t] = z] /\ UNCHANGED <<eb, link, tail, aborted>>
      BY Zenon DEF Take, At, edgeVars, poolVars, countVars
<1>2. z.pc = p /\ z.op = i /\ z.rv = 0 /\ z.held = FALSE
  <2>. HIDE DEF p
  <2>. QED BY Zenon DEF Idle
<1>3. th'[t] = z
  <2>. HIDE DEF z
  <2>. QED BY <1>1 DEF IInv, TypeOK
<1>4. p \in {"begin", "activate"} OBVIOUS
<1>. HIDE DEF z, p
<1>. QED BY <1>1, <1>2, <1>3, <1>4

LEMMA Returned ==
  ASSUME IInv, NEW t \in Threads, NEW r \in {-1, 0, 1}, Finish(t, r)
  PROVE  /\ th'[t].pc = "idle" /\ th'[t].rv = 0 /\ th'[t].held = FALSE
         /\ res' = [res EXCEPT ![th[t].op] = r]
BY DEF IInv, TypeOK, Finish, Goto, Idle

(* The action of a thread, from its program counter.                       *)
LEMMA StepAt ==
  ASSUME NEW t \in Threads, Step(t)
  PROVE  /\ th[t].pc \in EarlyPcs =>
              \/ \E i \in DOMAIN res : Take(t, i)
              \/ ReadActive(t) \/ CasActive(t) \/ RefuseLoop(t) \/ EtypeBegin(t)
         /\ th[t].pc = "etype" => EtypeWalk(t)
         /\ th[t].pc = "find" => FindBlock(t) \/ FindEnd(t)
         /\ th[t].pc = "findslot" => FindSlot(t)
         /\ th[t].pc = "findnext" => FindNext(t)
         /\ th[t].pc = "setnbr" => SetNeighbor(t)
         /\ th[t].pc = "high" => RaiseHigh(t)
         /\ th[t].pc = "link" => LinkBlock(t)
         /\ th[t].pc = "lockweight" => LockWeight(t)
         /\ th[t].pc = "reremove" => RecheckRemove(t)
         /\ th[t].pc = "uncount" => Uncount(t)
         /\ th[t].pc = "clear" => ClearSlot(t)
BY DEF EarlyPcs, Step, Take, ReadActive, CasActive, RefuseLoop, EtypeBegin, EtypeWalk,
       FindBlock, FindSlot, FindNext, FindEnd, Rescan, ScanBlock, ScanSlot,
       ScanNext, LockSlot, Recheck, Release, LockLink, UnlockLink, NewBlock,
       PoolExhausted, ClaimPlace, FillPlace, LinkBlock, SetNeighbor, CountEdge,
       ResetSmall, ResetLarge, CountDegrees, RaiseHigh, UnlockSlot, ReadWeight, ChangeTotal,
       WriteWeight, CheckSmall, CheckLarge, CompareLarge, LockStamp, StoreLarge, UnlockStamp, WriteRecent,
       RestoreFirst, LockWeight, RecheckRemove, Uncount, ClearSlot, At

(* The return of an operation, and its result.                             *)
LEMMA Ending ==
  ASSUME IInv, NEW t \in Threads, Ends(t)
  PROVE  /\ th[t].pc \in {"begin", "find", "link", "recent", "restore", "reremove", "clear"}
         /\ \E r \in {-1, 0, 1} : Finish(t, r)
<1>1. th[t].rv \in {0, 1}
  <2>1. th[t] \in Locals BY DEF IInv, TypeOK
  <2>. QED BY <2>1, FieldTypes
<1>2. CASE RefuseLoop(t) \/ (FindEnd(t) /\ Op(t).kind = "remove")
  <2>1. th[t].pc \in {"begin", "find"} /\ Finish(t, -1)
        BY <1>2 DEF RefuseLoop, FindEnd, At
  <2>. QED BY <2>1
<1>3. CASE LinkBlock(t) \/ ClearSlot(t)
  <2>1. th[t].pc \in {"link", "clear"} /\ Finish(t, 1) BY <1>3 DEF LinkBlock, ClearSlot, At
  <2>. QED BY <2>1
<1>4. CASE WriteRecent(t) /\ ~th[t].held
  <2>1. th[t].pc = "recent" /\ Finish(t, th[t].rv) BY <1>4 DEF WriteRecent, At
  <2>. QED BY <1>1, <2>1
<1>5. CASE RestoreFirst(t) \/ (RecheckRemove(t) /\ Slot(t).nbr # Op(t).to)
  <2>1. th[t].pc \in {"restore", "reremove"} /\ Finish(t, 0)
        BY <1>5 DEF RestoreFirst, RecheckRemove, At
  <2>. QED BY <2>1
<1>. QED BY <1>2, <1>3, <1>4, <1>5 DEF Ends

------------------------------------------------------------------------------
(* The invariant Results is inductive, given the ones before it.           *)
Safe == IInv /\ Places /\ Lists /\ Uniqueness

LEMMA HighRises ==
  ASSUME Safe, IInv', NEW t \in Threads, Step(t), NEW b \in Blocks
  PROVE  /\ eb[b].high \in Nat /\ eb'[b].high \in Nat /\ eb[b].high <= eb'[b].high
         /\ th[t].pc \notin {"high", "newblock"} => eb'[b].high = eb[b].high
<1>1. eb[b].high \in 0..BlockSize /\ eb'[b].high \in 0..BlockSize
      BY DEF IInv, TypeOK, Safe, EdgeBlock
<1>2. eb[b].high <= eb'[b].high
  <2>1. 0 \in Slots BY SizesPositive DEF Slots
  <2>. QED BY <2>1, ThreadKeeps DEF Safe, KeepsEdges
<1>3. ASSUME th[t].pc \notin {"high", "newblock"} PROVE eb'[b].high = eb[b].high
  <2>1. ~NewBlock(t) BY <1>3 DEF NewBlock, At
  <2>. QED BY <1>3, <2>1, StepEdits DEF Safe, Edit
<1>. QED BY <1>1, <1>2, <1>3, SizesPositive

LEMMA RaisedHigh ==
  ASSUME IInv, NEW t \in Threads, RaiseHigh(t)
  PROVE  th[t].k < eb'[th[t].tmp].high
<1>1. /\ th[t].pc = "high"
      /\ \/ th[t].k >= eb[th[t].tmp].high
            /\ eb' = [eb EXCEPT ![th[t].tmp].high = th[t].k + 1]
         \/ ~(th[t].k >= eb[th[t].tmp].high) /\ eb' = eb
      BY Zenon DEF RaiseHigh, At
<1>2. /\ th[t].tmp \in Blocks /\ eb \in [Blocks -> EdgeBlock] /\ th[t].k \in Nat
      /\ eb[th[t].tmp].high \in Nat
      BY <1>1, AtSlot, Working DEF SlotPcs
<1>3. eb[th[t].tmp] \in EdgeBlock BY <1>2
<1>. QED BY <1>1, <1>2, <1>3, SMT DEF EdgeBlock

LEMMA OwnReturns ==
  ASSUME Safe, IInv', NEW t \in Threads, Step(t), Returns(th[t])
  PROVE  Returns(th[t])'
<1>. USE DEF AddPcs, FillPcs, SettlePcs
<1>. SUFFICES ASSUME NEW x, NEW y, x = th[t], y = th'[t] PROVE Returns(y)'
     OBVIOUS
<1>0. IInv BY DEF Safe
<1>1. x.rv \in {0, 1} /\ x \in Locals BY <1>0, FieldTypes DEF IInv, TypeOK
<1>2. CASE y.rv = 0 /\ y.pc \notin AddPcs BY <1>2 DEF Returns
<1>3. CASE \E i \in DOMAIN res : Take(t, i)
  <2>1. y.rv = 0 /\ y.pc \in {"begin", "activate"} BY <1>0, <1>3, Starts
  <2>. QED BY <1>2, <2>1
<1>4. CASE Ends(t)
  <2>1. y.rv = 0 /\ y.pc = "idle" BY <1>0, <1>4, Ending, Returned
  <2>. QED BY <1>2, <2>1
<1>5. CASE Walks(t, x, y)
  <2>1. x.rv = 0
    <3>. USE DEF UpdatePcs, Walks
    <3>. QED BY <1>1, <1>5 DEF Returns
  <2>. QED BY <1>2, <1>5, <2>1 DEF Walks
<1>6. CASE Meets(t, x, y)
  <2>1. x.rv = 0 BY <1>1, <1>6 DEF Returns, Meets
  <2>2. y.pc \in {"lockweight", "readweight", "change"}
        BY <1>0, <1>6, ExistingPc DEF Meets
  <2>. QED BY <1>2, <1>6, <2>1, <2>2 DEF Meets
<1>7. CASE Takes(t, x, y)
  <2>1. ~x.held BY <1>0, <1>7, Working DEF Takes, Fits, UpdatePcs
  <2>. QED BY <1>7, <2>1 DEF Takes, Returns
<1>8. CASE Stores(t, x, y)
  <2>1. CASE x.rv = 0 BY <1>8, <2>1 DEF Stores, Returns
  <2>2. CASE x.rv = 1
    <3>1. x.pc \in AddPcs \cup SettlePcs /\ ~x.held BY <2>2 DEF Returns
    <3>2. y.pc \in AddPcs \cup SettlePcs /\ y.rv = 1 /\ ~y.held /\ y.k = x.k /\ y.tmp = x.tmp
          BY <1>8, <2>2, <3>1 DEF Stores
    <3>3. x.pc \in SlotPcs BY <3>1 DEF SlotPcs
    <3>4. x.tmp \in Blocks BY <1>0, <3>3, AtSlot
    <3>5. x.pc # "high" => eb'[x.tmp].high = eb[x.tmp].high
      <4>1. x.pc # "newblock" BY <3>1
      <4>. QED BY <3>4, <4>1, HighRises
    <3>6. ASSUME y.pc \in {"unlockslot"} \cup SettlePcs PROVE y.k < eb'[y.tmp].high
      <4>1. CASE x.pc = "high"
        <5>1. RaiseHigh(t) BY <4>1, StepAt
        <5>. QED BY <1>0, <3>2, <5>1, RaisedHigh
      <4>2. CASE x.pc # "high"
        <5>1. x.pc \in {"unlockslot"} \cup SettlePcs BY <1>8, <3>1, <3>6, <4>2 DEF Stores
        <5>2. x.k < eb[x.tmp].high BY <2>2, <5>1 DEF Returns
        <5>. QED BY <3>2, <3>5, <4>2, <5>2
      <4>. QED BY <4>1, <4>2
    <3>. QED BY <3>2, <3>6 DEF Returns
  <2>. QED BY <1>1, <2>1, <2>2
<1>. QED BY <1>0, <1>3, <1>4, <1>5, <1>6, <1>7, <1>8, Course DEF Continues

LEMMA OthersReturn ==
  ASSUME Safe, IInv', NEW t \in Threads, Step(t), NEW u \in Threads, u # t, Returns(th[u])
  PROVE  Returns(th[u])'
<1>. SUFFICES ASSUME NEW x, x = th[u] PROVE Returns(th[u])'
     OBVIOUS
<1>1. th'[u] = x BY OthersRest DEF Safe, IInv, TypeOK
<1>2. ASSUME x.pc \in {"unlockslot"} \cup SettlePcs
      PROVE  x.tmp \in Blocks /\ x.k \in Nat
  <2>1. x.pc \in SlotPcs BY <1>2 DEF SettlePcs, SlotPcs
  <2>. QED BY <2>1, AtSlot, Numbers DEF Safe
<1>3. ASSUME x.pc \in {"unlockslot"} \cup SettlePcs, x.k < eb[x.tmp].high
      PROVE  x.k < eb'[x.tmp].high
      BY <1>2, <1>3, HighRises
<1>. QED BY <1>1, <1>3 DEF Returns

(* The operation of a thread, and what it is at, survive another's step.   *)
LEMMA OthersKeep ==
  ASSUME IInv, NEW t \in Threads, Step(t), NEW u \in Threads, u # t
  PROVE  th'[u] = th[u] /\ Op(u)' = Op(u)
<1>1. th'[u] = th[u] BY OthersRest DEF IInv, TypeOK
<1>. QED BY <1>1, SamePhase DEF Op

LEMMA SlotListed ==
  ASSUME Safe, NEW t \in Threads, th[t].pc \in SlotPcs
  PROVE  /\ th[t].tmp \in Listed /\ eb[th[t].tmp].vertex = Op(t).from
         /\ th[t].tmp \in Blocks /\ th[t].k \in Slots
<1>1. th[t].tmp # 0 /\ th[t].tmp \in Blocks /\ th[t].k \in Slots BY AtSlot DEF Safe
<1>2. th[t].pc \notin EarlyPcs \cup CreatingPcs BY DEF SlotPcs, EarlyPcs, CreatingPcs
<1>. QED BY <1>1, <1>2 DEF Safe, Lists, InList

LEMMA ThreadSuits ==
  ASSUME Safe, Safe', NEW t \in Threads, Step(t), NEW u \in Threads, Suits(u)
  PROVE  Suits(u)'
<1>1. IInv /\ Lists BY DEF Safe
<1>2. CASE u # t
  <2>1. th'[u] = th[u] /\ Op(u)' = Op(u) BY <1>1, <1>2, OthersKeep
  <2>2. ASSUME th[u].pc \in SlotPcs PROVE eb'[th[u].tmp].type = eb[th[u].tmp].type
        BY <1>1, <2>2, SlotListed, ListedStay
  <2>. QED BY <2>1, <2>2 DEF Suits
<1>3. CASE u = t
  <2>. SUFFICES ASSUME NEW x, NEW y, x = th[t], y = th'[t], y.pc \notin EarlyPcs PROVE Suits(t)'
       BY <1>3 DEF Suits, SlotPcs, EarlyPcs
  <2>1. Op(t)' = Op(t) BY <1>1, SameOp
  <2>2. SameLists /\ Continues(t, x, y)
    <3>1. ~(\E i \in DOMAIN res : Take(t, i)) /\ ~Ends(t)
      <4>1. ASSUME NEW i \in DOMAIN res, Take(t, i) PROVE FALSE
            BY <1>1, <4>1, Starts DEF EarlyPcs
      <4>2. ASSUME Ends(t) PROVE FALSE BY <1>1, <4>2, Ending, Returned DEF EarlyPcs
      <4>. QED BY <4>1, <4>2
    <3>. QED BY <1>1, <3>1, ThreadLists, Course DEF Ends
  <2>3. ASSUME y.pc \in SlotPcs PROVE eb'[y.tmp].type = Op(t).type
    <3>1. y.tmp \in Listed'
      <4>1. y.tmp # 0 BY <2>3 DEF Safe, IInv, LocalOK, Fits, BlockPcs
      <4>2. y.pc \notin EarlyPcs \cup CreatingPcs
            BY <2>3 DEF SlotPcs, EarlyPcs, CreatingPcs
      <4>. QED BY <4>1, <4>2 DEF Safe, Lists, InList
    <3>2. y.tmp \in Listed BY <2>2, <3>1 DEF SameLists
    <3>3. y.tmp = x.tmp /\ eb[x.tmp].type = Op(t).type
      <4>1. CASE Walks(t, x, y) BY <1>3, <2>3, <4>1 DEF Walks, Suits, OtherType
      <4>2. CASE ~Walks(t, x, y)
        <5>1. x.pc \in SlotPcs /\ y.tmp = x.tmp
              BY <2>2, <4>2
                 DEF Continues, Meets, Takes, Stores, SlotPcs, AddPcs, FillPcs, SettlePcs
        <5>. QED BY <1>3, <5>1 DEF Suits
      <4>. QED BY <4>1, <4>2
    <3>. QED BY <1>1, <3>2, <3>3, ListedStay
  <2>4. Op(t).from # Op(t).to
    <3>1. CASE x.pc \notin EarlyPcs BY <1>3, <3>1 DEF Suits
    <3>2. CASE x.pc \in EarlyPcs
      <4>1. EtypeBegin(t) BY <1>1, <3>2, StepAt, EarlySteps
      <4>. QED BY <4>1 DEF EtypeBegin
    <3>. QED BY <3>1, <3>2
  <2>. QED BY <2>1, <2>3, <2>4 DEF Suits
<1>. QED BY <1>2, <1>3

LEMMA LoopFree ==
  NoLoops <=> \A d \in Listed : \A j \in Slots :
                Occupied(d, j) => eb[d].edges[j].nbr # eb[d].vertex
<1>1. ASSUME NoLoops, NEW d \in Listed, NEW j \in Slots, Occupied(d, j)
      PROVE  eb[d].edges[j].nbr # eb[d].vertex
  <2>1. <<d, j>> \in EdgeSlots BY <1>1 DEF EdgeSlots
  <2>. QED BY <1>1, <2>1 DEF NoLoops
<1>2. ASSUME \A d \in Listed : \A j \in Slots :
                Occupied(d, j) => eb[d].edges[j].nbr # eb[d].vertex
      PROVE  NoLoops
      BY <1>2 DEF NoLoops, EdgeSlots
<1>. QED BY <1>1, <1>2

LEMMA ThreadLoops ==
  ASSUME Safe, Safe', NEW t \in Threads, Step(t), Suits(t), NoLoops
  PROVE  NoLoops'
<1>1. IInv /\ IInv' /\ Lists /\ Places /\ Uniqueness BY DEF Safe
<1>2. \A d \in Listed : eb'[d].vertex = eb[d].vertex BY <1>1, ListedStay
<1>3. ASSUME NEW d \in Listed, NEW j \in Slots, Occupied(d, j)'
      PROVE  eb'[d].edges[j].nbr # eb'[d].vertex
  <2>1. CASE Occupied(d, j) /\ eb'[d].edges[j].nbr = eb[d].edges[j].nbr
        BY <1>2, <2>1, LoopFree
  <2>2. CASE Shows(t, d, j)
    <3>1. eb[d].vertex = Op(t).from BY <1>1, <2>2, Revealed DEF Mine
    <3>2. th[t].pc \notin EarlyPcs BY <2>2 DEF Shows, EarlyPcs
    <3>. QED BY <1>2, <2>2, <3>1, <3>2 DEF Shows, Suits
  <2>. QED BY <1>1, <1>3, <2>1, <2>2, Seen
<1>4. ASSUME NEW d \in Listed', d \notin Listed, NEW j \in Slots, Occupied(d, j)'
      PROVE  eb'[d].edges[j].nbr # eb'[d].vertex
  <2>1. LinkBlock(t) /\ Enlists(t) BY <1>1, <1>4, ThreadLists DEF SameLists
  <2>2. th[t].pc = "link" /\ eb' = eb BY <2>1, Zenon DEF LinkBlock, At
  <2>9. d = th[t].tmp BY <1>4, <2>1 DEF Enlists
  <2>3. /\ eb[d].vertex = Op(t).from /\ eb[d].high = 1 /\ eb[d].edges[0].nbr = Op(t).to
        BY <1>1, <2>2, <2>9 DEF Lists, InList, Uniqueness, Fills, CreatingPcs
  <2>4. j = 0 BY <1>4, <2>2, <2>3, Numbers DEF Occupied
  <2>. QED BY <2>2, <2>3, <2>4 DEF Suits, EarlyPcs
<1>5. \A d \in Listed' : \A j \in Slots : Occupied(d, j)' => eb'[d].edges[j].nbr # eb'[d].vertex
      BY <1>3, <1>4
<1>. QED BY <1>5 DEF NoLoops, EdgeSlots

LEMMA ThreadTaken ==
  ASSUME Safe, NEW t \in Threads, Step(t), TakenBy
  PROVE  TakenBy'
<1>1. /\ IInv /\ th \in [Threads -> Locals] /\ DOMAIN res = OpsOf(work, phase)
      /\ res \in [OpsOf(work, phase) -> {ToDo, Taken, -1, 0, 1}]
      BY DEF Safe, IInv, TypeOK
<1>2. \A u \in Threads : u # t => th'[u] = th[u] BY <1>1, OthersKeep
<1>. SUFFICES ASSUME NEW i \in DOMAIN res', res'[i] = Taken
              PROVE  \E u \in Threads : th'[u].pc # "idle" /\ th'[u].op = i
     BY DEF TakenBy
<1>3. CASE \E n \in DOMAIN res : Take(t, n)
  <2>1. PICK n \in DOMAIN res : Take(t, n) BY <1>3
  <2>2. /\ th[t].pc = "idle" /\ res' = [res EXCEPT ![n] = Taken] /\ th'[t].op = n
        /\ th'[t].pc # "idle"
        BY <1>1, <2>1, Starts
  <2>3. CASE i = n BY <2>2, <2>3
  <2>4. CASE i # n
    <3>1. i \in DOMAIN res /\ res[i] = Taken BY <1>1, <2>2, <2>4
    <3>2. PICK u \in Threads : th[u].pc # "idle" /\ th[u].op = i BY <3>1 DEF TakenBy
    <3>. QED BY <1>2, <2>2, <3>2
  <2>. QED BY <2>3, <2>4
<1>4. CASE Ends(t)
  <2>1. PICK r \in {-1, 0, 1} : Finish(t, r) BY <1>1, <1>4, Ending
  <2>2. res' = [res EXCEPT ![th[t].op] = r] /\ th[t].pc # "idle"
        BY <1>1, <1>4, <2>1, Returned, Ending
  <2>3. i \in DOMAIN res /\ i # th[t].op /\ res[i] = Taken
        BY <1>1, <2>2 DEF Taken, IInv, Assigned
  <2>4. PICK u \in Threads : th[u].pc # "idle" /\ th[u].op = i BY <2>3 DEF TakenBy
  <2>. QED BY <1>2, <2>3, <2>4
<1>5. CASE Continues(t, th[t], th'[t])
  <2>1. res' = res /\ th'[t].op = th[t].op /\ th'[t].pc # "idle"
    <3>1. ASSUME Meets(t, th[t], th'[t]) PROVE th'[t].pc # "idle"
      <4>1. th[t].pc # "idle" BY <3>1 DEF Meets
      <4>. QED BY <1>1, <3>1, <4>1, ExistingPc DEF Meets
    <3>. QED BY <1>5, <3>1
         DEF Continues, Walks, Meets, Takes, Stores, AddPcs, FillPcs, SettlePcs
  <2>2. PICK u \in Threads : th[u].pc # "idle" /\ th[u].op = i BY <2>1 DEF TakenBy
  <2>. QED BY <1>2, <2>1, <2>2
<1>. QED BY <1>1, <1>3, <1>4, <1>5, Course

------------------------------------------------------------------------------
(* What a thread may store in a phase of removals: MARKER in a weight that *)
(* was not, and the neighbor that it clears.                               *)
LookPcs == EarlyPcs \cup {"etype"} \cup FindPcs

LEMMA RemovalAt ==
  ASSUME IInv, NEW t \in Threads, th[t].pc = "idle" \/ Op(t).kind = "remove"
  PROVE  th[t].pc \in LookPcs \cup RemovalPcs
<1>. USE DEF LookPcs, EarlyPcs, FindPcs
<1>1. CASE th[t].pc # "idle"
  <2>1. th[t].pc \notin InsertPcs /\ th[t].pc \in ProgramCounters
        BY <1>1, Working DEF Fits
  <2>. QED BY <2>1 DEF ProgramCounters, InsertPcs, UpdatePcs, RemovalPcs
<1>. QED BY <1>1

LEMMA LooksOnly ==
  ASSUME NEW t \in Threads, Step(t), th[t].pc \in LookPcs
  PROVE  eb' = eb
<1>1. \/ \E i \in DOMAIN res : Take(t, i)
      \/ ReadActive(t) \/ CasActive(t) \/ RefuseLoop(t) \/ EtypeBegin(t) \/ EtypeWalk(t)
      \/ FindBlock(t) \/ FindEnd(t) \/ FindSlot(t) \/ FindNext(t)
      BY StepAt DEF LookPcs, FindPcs
<1>. QED BY <1>1, Zenon
     DEF Take, ReadActive, CasActive, RefuseLoop, EtypeBegin, EtypeWalk, EtypeStep, FindBlock,
         FindEnd, FindSlot, FindNext, edgeVars

LEMMA RemovalEdits ==
  ASSUME IInv, NEW t \in Threads, Step(t), Removes(t),
         th[t].pc = "idle" \/ Op(t).kind = "remove", NEW b \in Blocks
  PROVE  /\ eb'[b].high = eb[b].high
         /\ eb'[b].type = eb[b].type /\ eb'[b].vertex = eb[b].vertex
         /\ \A j \in Slots :
              \/ eb'[b].edges[j] = eb[b].edges[j]
              \/ /\ th[t].pc \in {"lockweight", "clear"} /\ b = th[t].tmp /\ j = th[t].k
                 /\ eb'[b].edges[j].weight = MARKER
                 /\ th[t].pc = "lockweight" => /\ eb[b].edges[j].weight # MARKER
                                               /\ eb'[b].edges[j].nbr = eb[b].edges[j].nbr
                 /\ th[t].pc = "clear" => eb'[b].edges[j].nbr < 0
<1>1. CASE th[t].pc \in LookPcs BY <1>1, LooksOnly
<1>2. CASE th[t].pc \in RemovalPcs
  <2>1. /\ th[t].pc \in SlotPcs /\ th[t].pc # "idle" BY <1>2 DEF RemovalPcs, SlotPcs
  <2>2. /\ Slot(t) \in Edge /\ Op(t).to \in Nat /\ eb \in [Blocks -> EdgeBlock]
        /\ th[t].tmp \in Blocks /\ th[t].k \in Slots
        BY <2>1, AtSlot, OpFields DEF Vertices
  <2>3. CASE th[t].pc = "lockweight"
    <3>. DEFINE v == [Slot(t) EXCEPT !.weight = MARKER]
    <3>1. LockWeight(t) BY <2>3, StepAt
    <3>2. StoresEdge(th[t].tmp, th[t].k, v) /\ Slot(t).weight # MARKER
          BY <3>1, Zenon DEF StoresEdge, LockWeight, Slot
    <3>3. v.nbr = Slot(t).nbr /\ v.weight = MARKER BY <2>2 DEF Edge
    <3>. HIDE DEF v
    <3>. QED BY <2>2, <2>3, <3>2, <3>3, SlotEdit DEF Slot
  <2>4. CASE th[t].pc = "reremove"
    <3>1. RecheckRemove(t) BY <2>4, StepAt
    <3>2. Slot(t).nbr = Op(t).to BY <2>4 DEF Removes, EmptyPcs, Found
    <3>3. eb' = eb BY <3>1, <3>2, Zenon DEF RecheckRemove
    <3>. QED BY <3>3
  <2>5. CASE th[t].pc = "uncount"
    <3>. DEFINE v == [eb[th[t].tmp] EXCEPT !.num = @ - 1]
    <3>1. Uncount(t) BY <2>5, StepAt
    <3>2. eb' = [eb EXCEPT ![th[t].tmp] = v] BY <3>1, Zenon DEF Uncount
    <3>3. /\ v.edges = eb[th[t].tmp].edges /\ v.high = eb[th[t].tmp].high
          /\ v.type = eb[th[t].tmp].type /\ v.vertex = eb[th[t].tmp].vertex
      <4>1. eb[th[t].tmp] \in EdgeBlock BY <2>2
      <4>. QED BY <4>1, SMT DEF EdgeBlock
    <3>. HIDE DEF v
    <3>. QED BY <2>2, <3>2, <3>3
  <2>6. CASE th[t].pc = "clear"
    <3>. DEFINE v == [Slot(t) EXCEPT !.nbr = Complement(Op(t).to)]
    <3>1. ClearSlot(t) BY <2>6, StepAt
    <3>2. StoresEdge(th[t].tmp, th[t].k, v) BY <3>1, Zenon DEF StoresEdge, ClearSlot, Slot
    <3>3. Slot(t).weight = MARKER BY <2>6 DEF Removes, EmptyPcs
    <3>4. v.nbr < 0 /\ v.weight = MARKER BY <2>2, <3>3 DEF Edge, Complement
    <3>. HIDE DEF v
    <3>. QED BY <2>2, <2>6, <3>2, <3>4, SlotEdit
  <2>. QED BY <1>2, <2>3, <2>4, <2>5, <2>6 DEF RemovalPcs
<1>. QED BY <1>1, <1>2, RemovalAt

(* In a phase of removals no list and no set of edges grows.               *)
LEMMA RemovalShrinks ==
  ASSUME Safe, IInv', NEW t \in Threads, Step(t), Removes(t),
         th[t].pc = "idle" \/ Op(t).kind = "remove"
  PROVE  /\ Listed' = Listed
         /\ \A d \in Listed : \A j \in Slots : \A o : Has(d, j, o)' => Has(d, j, o)
<1>1. IInv /\ Lists BY DEF Safe
<1>2. SameLists
  <2>1. ASSUME LinkBlock(t) PROVE FALSE
    <3>1. th[t].pc = "link" BY <2>1 DEF LinkBlock, At
    <3>. QED BY <1>1, <3>1, RemovalAt DEF LookPcs, EarlyPcs, FindPcs, RemovalPcs
  <2>. QED BY <1>1, <2>1, ThreadLists
<1>3. Listed' = Listed BY <1>2 DEF SameLists
<1>4. ASSUME NEW d \in Listed, NEW j \in Slots, NEW o, Has(d, j, o)' PROVE Has(d, j, o)
  <2>1. d \in Blocks /\ eb[d].high \in Nat BY <1>1, Numbers, BlockTypes DEF IInv, TypeOK
  <2>2. /\ eb'[d].vertex = o.from /\ eb'[d].type = o.type /\ j < eb'[d].high
        /\ eb'[d].edges[j].nbr >= 0 /\ eb'[d].edges[j].nbr = o.to
        BY <1>4 DEF Has, Mine, Occupied
  <2>3. /\ eb'[d].high = eb[d].high /\ eb'[d].type = eb[d].type /\ eb'[d].vertex = eb[d].vertex
        /\ eb'[d].edges[j].nbr = eb[d].edges[j].nbr \/ eb'[d].edges[j].nbr < 0
        BY <1>1, <2>1, RemovalEdits
  <2>4. eb'[d].edges[j].nbr = eb[d].edges[j].nbr
    <3>1. eb' \in [Blocks -> EdgeBlock] BY DEF IInv, TypeOK
    <3>2. eb'[d].edges[j].nbr \in Int BY <2>1, <3>1, SMT DEF EdgeBlock, Edge
    <3>. QED BY <2>2, <2>3, <3>2
  <2>. QED BY <2>2, <2>3, <2>4 DEF Has, Mine, Occupied
<1>. QED BY <1>3, <1>4

------------------------------------------------------------------------------
(* The search of a removal.                                                *)
LEMMA OwnFinding ==
  ASSUME Safe, NEW t \in Threads, Step(t), NEW x, NEW y, NEW o, x = th[t], y = th'[t],
         o = Op(t), o.kind = "remove", Finding(x, o)
  PROVE  y.pc \in FindPcs =>
           \A d \in Listed : \A j \in Slots : Looked(y, d, j) => ~Has(d, j, o)
<1>. USE DEF FindPcs
<1>. SUFFICES ASSUME y.pc \in FindPcs, NEW d \in Listed, NEW j \in Slots, Looked(y, d, j),
                     Has(d, j, o)
              PROVE  FALSE
     OBVIOUS
<1>1. /\ IInv /\ Lists /\ Ordered /\ th \in [Threads -> Locals] /\ x \in Locals
      /\ link \in [Cells -> {MARKER} \cup 0..PoolSize-1]
      BY DEF Safe, Uniqueness, IInv, TypeOK
<1>2. d \in Nat /\ j \in Nat /\ eb[d].vertex = o.from /\ eb[d].type = o.type
      /\ j < eb[d].high /\ eb[d].high \in Nat /\ eb[d].edges[j].nbr = o.to
  <2>1. d \in Blocks /\ eb[d].high \in Nat BY <1>1, Numbers, BlockTypes DEF IInv, TypeOK
  <2>. QED BY <2>1, Numbers DEF Has, Mine, Occupied
<1>3. x.pc \in FindPcs => ~Looked(x, d, j) BY DEF Finding
<1>4. x.pc \in {"begin", "etype"} \cup FindPcs => o.from \in Vertices
      BY <1>1, OpFields
<1>5. ASSUME x.pc \in {"etype", "findnext"}
      PROVE  /\ x.tmp \in Listed /\ eb[x.tmp].vertex = o.from /\ x.tmp \in Nat
             /\ NextOf(x.tmp) \in Cells /\ Inside(NextOf(x.tmp), o.from)
             /\ Before(NextOf(x.tmp), d, o.from) <=> x.tmp < d
  <2>1. x.tmp \in Listed /\ eb[x.tmp].vertex = o.from
        BY <1>1, <1>5, ThreadPoints DEF Points
  <2>. QED BY <1>2, <2>1, Numbers, CellNames DEF Inside, Before
<1>6. ASSUME NEW c \in Cells, Inside(c, o.from), link[c] # MARKER, Before(c, d, o.from),
             o.from \in Vertices
      PROVE  link[c] # 0 /\ link[c] <= d /\ link[c] \in Nat
  <2>1. link[c] \in Nat BY <1>1, <1>6, SizesPositive
  <2>. QED BY <1>1, <1>2, <1>6, <2>1, NextInList
<1>7. ASSUME NEW c \in Cells, Inside(c, o.from), EtypeStep(t, c), Before(c, d, o.from),
             o.from \in Vertices
      PROVE  FALSE
  <2>1. link[c] # MARKER /\ y.tmp = link[c]
        BY <1>1, <1>7, SMT DEF EtypeStep, Goto, Locals
  <2>2. y.pc = IF OtherType(t, link[c]) THEN "etype" ELSE "find"
        BY <1>1, <1>7, SMT DEF EtypeStep, Goto, Locals
  <2>. QED BY <1>2, <1>6, <1>7, <2>1, <2>2 DEF Looked
<1>8. CASE EtypeBegin(t)
  <2>1. x.pc = "begin" /\ EtypeStep(t, HeadOf(o.from)) BY <1>8 DEF EtypeBegin, At
  <2>2. HeadOf(o.from) \in Cells /\ Inside(HeadOf(o.from), o.from)
        /\ Before(HeadOf(o.from), d, o.from)
        BY <1>4, <2>1, CellNames DEF Inside, Before
  <2>. QED BY <1>4, <1>7, <2>1, <2>2
<1>9. CASE EtypeWalk(t)
  <2>1. x.pc = "etype" /\ EtypeStep(t, NextOf(x.tmp)) BY <1>9 DEF EtypeWalk, At
  <2>2. x.tmp < d
    <3>1. Begins(x, o) BY DEF Safe, Uniqueness, Scan
    <3>. QED BY <2>1, <3>1 DEF Begins, Has
  <2>. QED BY <1>4, <1>5, <1>7, <2>1, <2>2
<1>10. CASE FindBlock(t)
  <2>. SUFFICES ASSUME NEW q, q = IF OtherType(t, x.tmp) \/ eb[x.tmp].high = 0
                                  THEN "findnext" ELSE "findslot"
                PROVE  FALSE
       OBVIOUS
  <2>1. /\ x.pc = "find" /\ x.tmp # 0
        /\ Goto(t, [th[t] EXCEPT !.k = 0, !.endk = eb[x.tmp].high, !.pc = q])
        BY <1>10, Zenon DEF FindBlock, At
  <2>2. y.pc = q /\ y.tmp = x.tmp /\ y.k = 0 /\ y.endk = eb[x.tmp].high
        BY <1>1, <2>1, SMT DEF Goto, Locals
  <2>3. ~(d < x.tmp) BY <1>3, <2>1 DEF Looked
  <2>4. x.tmp \in Nat BY <1>1, FieldTypes
  <2>5. d = x.tmp BY <1>2, <2>1, <2>2, <2>3, <2>4 DEF Looked
  <2>6. q = "findslot" BY <1>2, <2>1, <2>5 DEF OtherType
  <2>. QED BY <1>2, <2>2, <2>3, <2>5, <2>6 DEF Looked
<1>11. CASE FindSlot(t)
  <2>1. x.pc = "findslot" /\ x.k \in Nat /\ x.endk \in Nat /\ x.k < x.endk /\ x.tmp \in Nat
    <3>1. x.pc = "findslot" BY <1>11 DEF FindSlot, At
    <3>. QED BY <1>1, <3>1, Working DEF Fits
  <2>2. Slot(t).nbr # o.to
    <3>1. ASSUME Slot(t).nbr = o.to PROVE FALSE
      <4>1. Move(t, Existing(t)) BY <1>11, <3>1, Zenon DEF FindSlot
      <4>2. y.pc = Existing(t) BY <1>1, <4>1, Stepped
      <4>3. Existing(t) \notin FindPcs BY <1>1, <2>1, ExistingPc
      <4>. QED BY <4>2, <4>3
    <3>. QED BY <3>1
  <2>3. ~(d = x.tmp /\ j = x.k) BY <1>2, <2>2 DEF Slot
  <2>4. ~(d < x.tmp) /\ ~(d = x.tmp /\ (j < x.k \/ j >= x.endk))
        BY <1>3, <2>1 DEF Looked
  <2>5. CASE x.k + 1 < x.endk
    <3>1. Goto(t, [th[t] EXCEPT !.k = @ + 1]) BY <1>11, <2>2, <2>5, Zenon DEF FindSlot
    <3>2. y.pc = x.pc /\ y.tmp = x.tmp /\ y.k = x.k + 1 /\ y.endk = x.endk
          BY <1>1, <3>1, SMT DEF Goto, Locals
    <3>. QED BY <1>2, <2>1, <2>3, <2>4, <3>2 DEF Looked
  <2>6. CASE ~(x.k + 1 < x.endk)
    <3>1. Move(t, "findnext") BY <1>11, <2>2, <2>6, Zenon DEF FindSlot
    <3>2. y.pc = "findnext" /\ y.tmp = x.tmp BY <1>1, <3>1, Stepped
    <3>. QED BY <1>2, <2>1, <2>3, <2>4, <2>6, <3>2 DEF Looked
  <2>. QED BY <2>5, <2>6
<1>12. CASE FindNext(t)
  <2>. SUFFICES ASSUME NEW c, c = NextOf(x.tmp) PROVE FALSE
       OBVIOUS
  <2>1. /\ x.pc = "findnext" /\ link[c] # MARKER
        /\ Goto(t, [th[t] EXCEPT !.tmp = link[c], !.pc = "find"])
        BY <1>12 DEF FindNext, At
  <2>2. y.pc = "find" /\ y.tmp = link[c] BY <1>1, <2>1, SMT DEF Goto, Locals
  <2>3. c \in Cells /\ Inside(c, o.from) /\ x.tmp \in Nat /\ (Before(c, d, o.from) <=> x.tmp < d)
        BY <1>5, <2>1
  <2>4. x.tmp < d BY <1>2, <1>3, <2>1, <2>3 DEF Looked
  <2>5. link[c] # 0 /\ link[c] <= d /\ link[c] \in Nat BY <1>4, <1>6, <2>1, <2>3, <2>4
  <2>. QED BY <1>2, <2>2, <2>5 DEF Looked
<1>13. x.pc \in {"begin", "etype"} \cup FindPcs
  <2>1. x.pc \in LookPcs \cup RemovalPcs BY <1>1, RemovalAt
  <2>2. ASSUME x.pc \in RemovalPcs PROVE FALSE
    <3>1. x.pc # "idle" /\ x.pc \notin FindPcs BY <2>2 DEF RemovalPcs
    <3>2. ASSUME Ends(t) PROVE FALSE BY <1>1, <3>2, Ending, Returned
    <3>3. ASSUME NEW i \in DOMAIN res, Take(t, i) PROVE FALSE BY <3>1, <3>3 DEF Take, At
    <3>4. Stores(t, x, y)
          BY <1>1, <2>2, <3>2, <3>3, Course DEF Continues, Walks, Meets, Takes, RemovalPcs
    <3>. QED BY <2>2, <3>4 DEF Stores, RemovalPcs, AddPcs, FillPcs, SettlePcs
  <2>3. ASSUME x.pc \in {"idle", "activate", "cas"} PROVE FALSE
    <3>1. (\E i \in DOMAIN res : Take(t, i)) \/ ReadActive(t) \/ CasActive(t)
          BY <2>3, StepAt DEF EarlyPcs, RefuseLoop, EtypeBegin, At
    <3>. QED BY <1>1, <3>1, EarlySteps DEF EarlyPcs
  <2>. QED BY <2>1, <2>2, <2>3 DEF LookPcs, EarlyPcs
<1>14. CASE RefuseLoop(t) \/ FindEnd(t)
  <2>1. \E r \in {-1, 0, 1} : Finish(t, r) BY <1>14 DEF RefuseLoop, FindEnd
  <2>. QED BY <1>1, <2>1, Returned
<1>15. x.pc = "begin" => RefuseLoop(t) \/ EtypeBegin(t)
  <2>1. ~(\E i \in DOMAIN res : Take(t, i)) \/ x.pc # "begin" BY DEF Take, At
  <2>2. (~ReadActive(t) /\ ~CasActive(t)) \/ x.pc # "begin" BY DEF ReadActive, CasActive, At
  <2>. QED BY <2>1, <2>2, StepAt DEF EarlyPcs
<1>. QED BY <1>8, <1>9, <1>10, <1>11, <1>12, <1>13, <1>14, <1>15, StepAt

LEMMA WeightLocked ==
  ASSUME IInv, NEW t \in Threads, LockWeight(t)
  PROVE  /\ Slot(t).weight # MARKER
         /\ eb'[th[t].tmp].edges[th[t].k].weight = MARKER
         /\ eb'[th[t].tmp].edges[th[t].k].nbr = Slot(t).nbr
<1>. DEFINE v == [Slot(t) EXCEPT !.weight = MARKER]
<1>1. th[t].pc \in SlotPcs BY DEF LockWeight, At, SlotPcs
<1>2. /\ Slot(t) \in Edge /\ eb \in [Blocks -> EdgeBlock]
      /\ th[t].tmp \in Blocks /\ th[t].k \in Slots
      BY <1>1, AtSlot
<1>3. StoresEdge(th[t].tmp, th[t].k, v) /\ Slot(t).weight # MARKER
      BY Zenon DEF StoresEdge, LockWeight, Slot
<1>4. v.nbr = Slot(t).nbr /\ v.weight = MARKER BY <1>2 DEF Edge
<1>. HIDE DEF v
<1>. QED BY <1>2, <1>3, <1>4, SlotEdit

(* Where a removal comes from that is to wait for a weight, or has one.    *)
LEMMA ToRemoval ==
  ASSUME IInv, NEW t \in Threads, Step(t), NEW x, NEW y, x = th[t], y = th'[t]
  PROVE  /\ y.pc = "lockweight" => Meets(t, x, y)
         /\ y.pc \in EmptyPcs => /\ x.pc \in {"lockweight", "reremove", "uncount"}
                                 /\ y.op = x.op /\ y.tmp = x.tmp /\ y.k = x.k
<1>. USE DEF EmptyPcs
<1>1. ASSUME NEW i \in DOMAIN res, Take(t, i) PROVE y.pc \in {"begin", "activate"}
      BY <1>1, Starts
<1>2. ASSUME Ends(t) PROVE y.pc = "idle" BY <1>2, Ending, Returned
<1>3. CASE Walks(t, x, y) BY <1>3 DEF Walks, RemovalPcs
<1>4. CASE Meets(t, x, y)
  <2>1. x.pc # "idle" BY <1>4 DEF Meets
  <2>. QED BY <1>4, <2>1, ExistingPc DEF Meets
<1>5. CASE Takes(t, x, y) BY <1>5 DEF Takes
<1>6. CASE Stores(t, x, y) BY <1>6 DEF Stores, AddPcs, FillPcs, SettlePcs
<1>. QED BY <1>1, <1>2, <1>3, <1>4, <1>5, <1>6, Course DEF Continues

LEMMA OwnRemoves ==
  ASSUME Safe, Safe', NEW t \in Threads, Step(t), Removes(t)
  PROVE  Removes(t)'
<1>. SUFFICES ASSUME NEW x, NEW y, x = th[t], y = th'[t] PROVE Removes(t)'
     OBVIOUS
<1>1. IInv /\ IInv' BY DEF Safe
<1>2. ASSUME y.pc \in FindPcs \cup {"lockweight"} \cup EmptyPcs
      PROVE  Op(t)' = Op(t)
      BY <1>1, <1>2, SameOp DEF EarlyPcs, FindPcs, EmptyPcs
<1>3. Finding(y, Op(t))'
  <2>. SUFFICES ASSUME y.pc \in FindPcs, Op(t)'.kind = "remove",
                       NEW d \in Listed', NEW j \in Slots, Looked(y, d, j), Has(d, j, Op(t))'
                PROVE  FALSE
       BY DEF Finding, Looked
  <2>1. Op(t)' = Op(t) BY <1>2
  <2>2. Listed' = Listed /\ \A o : Has(d, j, o)' => Has(d, j, o)
        BY <1>1, <2>1, RemovalShrinks
  <2>3. Has(d, j, Op(t)) BY <2>1, <2>2
  <2>4. Finding(x, Op(t)) BY DEF Removes
  <2>. QED BY <2>1, <2>2, <2>3, <2>4, OwnFinding
<1>4. ASSUME y.pc = "lockweight" PROVE Found(t)'
  <2>1. Meets(t, x, y) BY <1>1, <1>4, ToRemoval
  <2>. QED BY <1>2, <1>4, <2>1 DEF Meets, Found, Occupied, Slot
<1>5. ASSUME y.pc \in EmptyPcs PROVE Found(t)' /\ Slot(t)'.weight = MARKER
  <2>1. /\ x.pc \in {"lockweight", "reremove", "uncount"} /\ y.tmp = x.tmp /\ y.k = x.k
        BY <1>1, <1>5, ToRemoval
  <2>2. x.pc \in SlotPcs /\ x.pc \in RemovalPcs /\ x.pc # "idle"
        BY <2>1 DEF SlotPcs, RemovalPcs
  <2>3. x.tmp \in Blocks /\ x.k \in Slots /\ Op(t).kind = "remove"
        BY <1>1, <2>2, AtSlot, Working DEF Fits
  <2>4. /\ eb'[x.tmp].high = eb[x.tmp].high
        /\ \/ eb'[x.tmp].edges[x.k] = eb[x.tmp].edges[x.k]
           \/ x.pc = "lockweight"
        BY <1>1, <2>1, <2>3, RemovalEdits
  <2>5. x.pc = "lockweight" => /\ Slot(t).weight # MARKER
                               /\ eb'[x.tmp].edges[x.k].weight = MARKER
                               /\ eb'[x.tmp].edges[x.k].nbr = Slot(t).nbr
        BY <1>1, StepAt, WeightLocked
  <2>6. Found(t) /\ (x.pc = "lockweight" \/ Slot(t).weight = MARKER)
        BY <2>1, <2>5 DEF Removes, EmptyPcs
  <2>. QED BY <1>2, <1>5, <2>1, <2>4, <2>5, <2>6 DEF Found, Occupied, Slot
<1>. QED BY <1>3, <1>4, <1>5 DEF Removes

LEMMA OthersRemove ==
  ASSUME Safe, Safe', NEW t \in Threads, Step(t), Removes(t), EmptiedOnce,
         NEW u \in Threads, u # t, Removes(u)
  PROVE  Removes(u)'
<1>. SUFFICES ASSUME NEW x, x = th[u], NEW o, o = Op(u),
                     x.pc \in FindPcs \cup {"lockweight"} \cup EmptyPcs,
                     x.pc \in FindPcs => o.kind = "remove"
              PROVE  Removes(u)'
  <2>1. th'[u] = th[u] /\ Op(u)' = Op(u) BY OthersKeep DEF Safe
  <2>. QED BY <2>1 DEF Removes, Finding, FindPcs, EmptyPcs
<1>1. IInv /\ IInv' BY DEF Safe
<1>2. th'[u] = x /\ Op(u)' = o BY <1>1, OthersKeep
<1>3. x.pc # "idle" /\ o.kind = "remove"
  <2>1. x.pc # "idle" /\ (x.pc \in FindPcs \/ x.pc \in RemovalPcs)
        BY DEF FindPcs, EmptyPcs, RemovalPcs
  <2>. QED BY <1>1, <2>1, Working DEF Fits
<1>4. th[t].pc = "idle" \/ Op(t).kind = "remove" BY <1>1, <1>3, KindsAgree
<1>5. Finding(x, o)'
  <2>1. /\ Listed' = Listed
        /\ \A d \in Listed : \A j \in Slots : Has(d, j, o)' => Has(d, j, o)
        BY <1>1, <1>4, RemovalShrinks
  <2>2. Finding(x, o) BY DEF Removes
  <2>. QED BY <2>1, <2>2 DEF Finding, Looked
<1>6. ASSUME x.pc \in {"lockweight"} \cup EmptyPcs
      PROVE  /\ eb'[x.tmp].high = eb[x.tmp].high
             /\ \/ eb'[x.tmp].edges[x.k] = eb[x.tmp].edges[x.k]
                \/ /\ th[t].pc \in {"lockweight", "clear"} /\ x.tmp = th[t].tmp /\ x.k = th[t].k
                   /\ eb'[x.tmp].edges[x.k].weight = MARKER
                   /\ th[t].pc = "lockweight" => Slot(u).weight # MARKER
  <2>1. x.pc \in SlotPcs BY <1>6 DEF SlotPcs, EmptyPcs
  <2>2. x.tmp \in Blocks /\ x.k \in Slots BY <1>1, <2>1, AtSlot
  <2>. QED BY <1>1, <1>4, <2>2, RemovalEdits DEF Slot
<1>7. x.pc = "lockweight" => Found(u)' \/ Slot(u)'.weight = MARKER
      BY <1>2, <1>6 DEF Removes, Found, Occupied, Slot
<1>8. x.pc \in EmptyPcs => Found(u)' /\ Slot(u)'.weight = MARKER
  <2>. SUFFICES ASSUME x.pc \in EmptyPcs PROVE Found(u)' /\ Slot(u)'.weight = MARKER
       OBVIOUS
  <2>1. Found(u) /\ Slot(u).weight = MARKER BY DEF Removes
  <2>2. eb'[x.tmp].edges[x.k] = eb[x.tmp].edges[x.k]
        BY <1>6, <2>1 DEF EmptiedOnce, EmptyPcs
  <2>. QED BY <1>2, <1>6, <2>1, <2>2 DEF Found, Occupied, Slot
<1>. QED BY <1>2, <1>5, <1>7, <1>8 DEF Removes

LEMMA ThreadEmpties ==
  ASSUME Safe, NEW t \in Threads, Step(t), EmptiedOnce, \A u \in Threads : Removes(u)
  PROVE  EmptiedOnce'
<1>1. IInv BY DEF Safe
<1>2. ASSUME NEW u \in Threads, u # t, th'[t].pc \in EmptyPcs, th'[u].pc \in EmptyPcs,
             th'[t].tmp = th'[u].tmp, th'[t].k = th'[u].k
      PROVE  FALSE
  <2>1. th'[u] = th[u] BY <1>1, <1>2, OthersKeep
  <2>2. /\ th[t].pc \in {"lockweight", "reremove", "uncount"}
        /\ th[t].tmp = th[u].tmp /\ th[t].k = th[u].k
        BY <1>1, <1>2, <2>1, ToRemoval
  <2>3. th[t].pc = "lockweight" BY <1>2, <2>1, <2>2 DEF EmptiedOnce, EmptyPcs
  <2>4. Slot(u).weight = MARKER BY <1>2, <2>1 DEF Removes
  <2>5. Slot(t).weight # MARKER BY <1>1, <2>3, StepAt, WeightLocked
  <2>. QED BY <2>2, <2>4, <2>5 DEF Slot
<1>3. \A u \in Threads : u # t => th'[u] = th[u] BY <1>1, OthersKeep
<1>. SUFFICES ASSUME NEW v \in Threads, NEW u \in Threads,
                     th'[v].pc \in EmptyPcs, th'[u].pc \in EmptyPcs,
                     th'[v].tmp = th'[u].tmp, th'[v].k = th'[u].k, v # u
              PROVE  FALSE
     BY DEF EmptiedOnce
<1>4. CASE v = t \/ u = t BY <1>2, <1>4
<1>5. CASE v # t /\ u # t BY <1>3, <1>5 DEF EmptiedOnce
<1>. QED BY <1>4, <1>5

LEMMA ThreadResults ==
  ASSUME Safe, Safe', NEW t \in Threads, Step(t), Results
  PROVE  Results'
<1>1. IInv /\ IInv' BY DEF Safe
<1>2. TakenBy' BY ThreadTaken DEF Results
<1>3. NoLoops' BY ThreadLoops DEF Results
<1>4. EmptiedOnce' BY ThreadEmpties DEF Results
<1>5. ASSUME NEW u \in Threads PROVE Returns(th[u])' /\ Suits(u)' /\ Removes(u)'
  <2>1. Returns(th[u])' BY <1>1, OwnReturns, OthersReturn DEF Results
  <2>2. Suits(u)' BY ThreadSuits DEF Results
  <2>3. Removes(u)' BY OwnRemoves, OthersRemove DEF Results
  <2>. QED BY <2>1, <2>2, <2>3
<1>. QED BY <1>2, <1>3, <1>4, <1>5 DEF Results

LEMMA AllIdleAtBarrier ==
  ASSUME IInv, Barrier, NEW t \in Threads
  PROVE  th[t].pc = "idle"
<1>. SUFFICES ASSUME th[t].pc # "idle" PROVE FALSE
     OBVIOUS
<1>1. /\ phase \in DOMAIN work /\ th[t].op \in DOMAIN work[phase]
      /\ res[th[t].op] = Taken /\ DOMAIN res = OpsOf(work, phase)
      BY DEF IInv, Assigned, TypeOK
<1>2. \A i \in DOMAIN res : res[i] \notin {ToDo, Taken} BY Zenon DEF Barrier
<1>. QED BY <1>1, <1>2 DEF OpsOf

LEMMA NextResults == Safe /\ Safe' /\ Results /\ [Next]_vars => Results'
<1>. SUFFICES ASSUME Safe, Safe', Results, [Next]_vars PROVE Results'
     OBVIOUS
<1>1. IInv BY DEF Safe
<1>2. CASE Barrier
  <2>1. /\ UNCHANGED <<eb, link, tail, th>> /\ res' = Begun(work, phase + 1)
        BY <1>2, Zenon DEF Barrier, edgeVars, poolVars, countVars
  <2>2. \A t \in Threads : th[t].pc = "idle" BY <1>1, <1>2, AllIdleAtBarrier
  <2>3. TakenBy' BY <2>1 DEF TakenBy, Begun, ToDo, Taken
  <2>4. NoLoops' BY <2>1 DEF Results, NoLoops, EdgeSlots, Occupied, Listed, Private
  <2>5. EmptiedOnce' BY <2>1 DEF Results, EmptiedOnce
  <2>6. ASSUME NEW t \in Threads PROVE Returns(th[t])' /\ Suits(t)' /\ Removes(t)'
    <3>1. th'[t].pc = "idle" /\ th'[t] = th[t] BY <2>1, <2>2
    <3>2. Returns(th[t])' BY <2>1, <3>1 DEF Results, Returns
    <3>. QED BY <3>1, <3>2 DEF Suits, Removes, Finding, SlotPcs, EarlyPcs, FindPcs, EmptyPcs
  <2>. QED BY <2>3, <2>4, <2>5, <2>6 DEF Results
<1>3. CASE Over \/ UNCHANGED vars
  <2>1. UNCHANGED <<work, phase, res, eb, link, tail, th>> BY <1>3 DEF Over, vars
  <2>2. Listed' = Listed BY <2>1 DEF Listed, Private
  <2>3. TakenBy' BY <2>1 DEF Results, TakenBy
  <2>4. NoLoops' BY <2>1, <2>2 DEF Results, NoLoops, EdgeSlots, Occupied
  <2>5. EmptiedOnce' BY <2>1 DEF Results, EmptiedOnce
  <2>6. ASSUME NEW t \in Threads PROVE Returns(th[t])' /\ Suits(t)' /\ Removes(t)'
    <3>1. th'[t] = th[t] /\ Op(t)' = Op(t) /\ Slot(t)' = Slot(t) BY <2>1 DEF Op, Slot
    <3>2. \A d, j, o : Has(d, j, o)' <=> Has(d, j, o)
          BY <2>1, <2>2 DEF Has, Mine, Occupied
    <3>3. Returns(th[t])' /\ Suits(t)' BY <2>1, <3>1 DEF Results, Returns, Suits
    <3>4. Finding(th[t], Op(t))' BY <2>2, <3>1, <3>2 DEF Results, Removes, Finding, Looked
    <3>5. Found(t)' <=> Found(t) BY <2>1, <3>1 DEF Found, Occupied
    <3>. QED BY <3>1, <3>3, <3>4, <3>5 DEF Results, Removes
  <2>. QED BY <2>3, <2>4, <2>5, <2>6 DEF Results
<1>4. ASSUME NEW t \in Threads, Step(t) PROVE Results' BY <1>4, ThreadResults
<1>. QED BY <1>2, <1>3, <1>4, Zenon DEF Next

LEMMA InitResults == Init => Results
<1>. SUFFICES ASSUME Init PROVE Results
     OBVIOUS
<1>1. /\ tail = 1 /\ res = Begun(work, 1) /\ th = [t \in Threads |-> Idle]
      BY DEF Init
<1>2. Listed = {} BY <1>1, SizesPositive DEF Listed, Blocks
<1>3. TakenBy BY <1>1 DEF TakenBy, Begun, ToDo, Taken
<1>4. NoLoops BY <1>2 DEF NoLoops, EdgeSlots
<1>5. \A t \in Threads : th[t].pc = "idle" /\ th[t].rv = 0 BY <1>1 DEF Idle
<1>. QED BY <1>3, <1>4, <1>5
     DEF Results, EmptiedOnce, Returns, Suits, Removes, Finding, SlotPcs, EarlyPcs, FindPcs,
         EmptyPcs, AddPcs, FillPcs

LEMMA ResultsHold == Spec => []Results
<1>1. Safe /\ Safe' /\ Results /\ [Next]_vars => Results' BY NextResults
<1>2. IInv /\ Places /\ Lists /\ Uniqueness => Safe BY DEF Safe
<1>. QED BY <1>1, <1>2, Invariance, PlacesHold, ListsHold, UniqueHold, InitResults, PTL
     DEF Spec

------------------------------------------------------------------------------

(* The results as the atomic set gives them, and that of a busy thread.    *)
Answers    == [i \in DOMAIN res |-> ResultOf(i)]
Visible(t) == IF Bound(t) = Taken THEN ToDo ELSE Bound(t)

LEMMA VisibleIs ==
  ASSUME IInv, NEW t \in Threads
  PROVE  /\ Op(t).kind = "remove" => Visible(t) = ToDo
         /\ Op(t).kind # "remove" /\ th[t].rv = 0 =>
              Visible(t) = IF th[t].pc \in UpdatePcs THEN 0 ELSE ToDo
         /\ Op(t).kind # "remove" /\ th[t].rv = 1 =>
              Visible(t) = IF th[t].pc # "setnbr" /\ th[t].k < eb[th[t].tmp].high
                           THEN 1 ELSE ToDo
BY DEF Visible, Bound, UpdatePcs, Taken, ToDo

(* The result of a busy thread's operation is the thread's to give.        *)
OwnResults ==
  \A t \in Threads : \A i : th[t].pc # "idle" /\ th[t].op = i =>
    i \in DOMAIN res /\ res[i] = Taken /\ ResultOf(i) = Visible(t)

LEMMA OwnResult == IInv => OwnResults
<1>. SUFFICES ASSUME IInv, NEW t \in Threads, NEW i, th[t].pc # "idle", th[t].op = i
              PROVE  i \in DOMAIN res /\ res[i] = Taken /\ ResultOf(i) = Visible(t)
     BY DEF OwnResults
<1>1. i \in DOMAIN res /\ res[i] = Taken
      BY DEF IInv, Assigned, TypeOK, OpsOf
<1>2. \A u \in Threads : th[u].pc # "idle" /\ th[u].op = i => u = t
      BY DEF IInv, Assigned
<1>3. (CHOOSE u \in Threads : th[u].pc # "idle" /\ th[u].op = i) = t BY <1>2
<1>4. ResultOf(i) = Visible(t) BY <1>1, <1>3, Zenon DEF ResultOf, Visible
<1>. QED BY <1>1, <1>4

LEMMA OwnResultNext == IInv' => OwnResults'
BY OwnResult, PTL

(* No thread changes what another's operation is bound to return: it could *)
(* only by raising the mark past the slot that the other has locked.       *)
LEMMA OthersVisible ==
  ASSUME Safe, Safe', Results, NEW t \in Threads, Step(t), NEW u \in Threads, u # t
  PROVE  Visible(u)' = Visible(u)
<1>. SUFFICES ASSUME NEW x, x = th[u] PROVE Visible(u)' = Visible(u)
     OBVIOUS
<1>1. IInv /\ IInv' BY DEF Safe
<1>2. th'[u] = x /\ Op(u)' = Op(u) BY <1>1, OthersKeep
<1>3. ASSUME x.rv = 1, x.pc # "setnbr"
      PROVE  x.k < eb'[x.tmp].high <=> x.k < eb[x.tmp].high
  <2>. SUFFICES ASSUME ~(x.k < eb[x.tmp].high), x.k < eb'[x.tmp].high PROVE FALSE
    <3>1. x.pc \in SlotPcs
          BY <1>3 DEF Results, Returns, AddPcs, FillPcs, SettlePcs, SlotPcs
    <3>2. x.tmp \in Blocks /\ x.k \in Slots BY <1>1, <3>1, AtSlot
    <3>. QED BY <1>1, <3>2, HighRises, Numbers
  <2>1. x.pc \in FillPcs BY <1>3 DEF Results, Returns, AddPcs, SettlePcs
  <2>2. HoldsSlot(u) /\ x.pc \in SlotPcs BY <2>1 DEF FillPcs, HoldsSlot, SlotPcs
  <2>3. x.tmp \in Blocks /\ x.k \in Nat /\ x.tmp < tail /\ x.tmp \in Int
    <3>1. x.tmp \in Blocks /\ x.k \in Slots BY <1>1, <2>2, AtSlot
    <3>. QED BY <1>1, <2>2, <3>1, HoldsAtSlot, Numbers
  <2>4. ~NewBlock(t)
    <3>1. ASSUME NewBlock(t) PROVE FALSE
      <4>1. tail \in Int BY <1>1 DEF IInv, TypeOK
      <4>2. eb'[x.tmp] = eb[x.tmp] BY <1>1, <2>3, <3>1, <4>1, BlockAdded
      <4>. QED BY <4>2
    <3>. QED BY <3>1
  <2>5. /\ th[t].pc = "high" /\ x.tmp = th[t].tmp /\ eb[x.tmp].high <= th[t].k
        /\ eb'[x.tmp].high = th[t].k + 1
    <3>1. Edit(t) BY <1>1, <2>4, StepEdits
    <3>. QED BY <2>3, <3>1 DEF Edit
  <2>6. HoldsSlot(t) /\ th[t].k \in Nat BY <1>1, <2>5, Working DEF HoldsSlot
  <2>7. th[t].k <= eb[x.tmp].high /\ eb[x.tmp].high \in Nat
        BY <1>1, <2>3, <2>5, HighRises DEF Safe, Places, PlaceOK, PlacePcs
  <2>8. x.k = th[t].k BY <2>3, <2>5, <2>6, <2>7
  <2>9. <<th[t].tmp, th[t].k>> # <<th[u].tmp, th[u].k>>
        BY <1>1, <2>2, <2>6 DEF IInv, SlotLockExclusive
  <2>. QED BY <2>5, <2>8, <2>9
<1>4. x.rv \in {0, 1}
  <2>1. x \in Locals BY <1>1 DEF IInv, TypeOK
  <2>. QED BY <2>1, FieldTypes
<1>5. Bound(u)' = Bound(u) BY <1>2, <1>3, <1>4 DEF Bound
<1>. QED BY <1>5 DEF Visible

LEMMA OtherResults ==
  ASSUME Safe, Safe', Results, NEW t \in Threads, Step(t),
         NEW i \in DOMAIN res, i \in DOMAIN res', res'[i] = res[i],
         th[t].pc # "idle" => th[t].op # i
  PROVE  ResultOf(i)' = ResultOf(i)
<1>1. IInv /\ IInv' BY DEF Safe
<1>2. CASE res[i] # Taken BY <1>2 DEF ResultOf
<1>3. CASE res[i] = Taken
  <2>1. PICK u \in Threads : th[u].pc # "idle" /\ th[u].op = i BY <1>3 DEF Results, TakenBy
  <2>2. u # t /\ th'[u] = th[u] BY <1>1, <2>1, OthersKeep
  <2>3. ResultOf(i) = Visible(u) BY <1>1, <2>1, OwnResult DEF OwnResults
  <2>4. ResultOf(i)' = Visible(u)'
    <3>1. th'[u].pc # "idle" /\ th'[u].op = i BY <2>1, <2>2
    <3>. QED BY <1>1, <3>1, OwnResultNext DEF OwnResults
  <2>. QED BY <2>2, <2>3, <2>4, OthersVisible
<1>. QED BY <1>2, <1>3

(* What each kind of step makes of the answers.                            *)
LEMMA Started ==
  ASSUME Safe, Safe', Results, NEW t \in Threads, Step(t), NEW n \in DOMAIN res, Take(t, n)
  PROVE  Answers' = Answers
<1>1. IInv /\ IInv' BY DEF Safe
<1>2. /\ th[t].pc = "idle" /\ res[n] = ToDo /\ res' = [res EXCEPT ![n] = Taken]
      /\ th'[t].pc \in {"begin", "activate"} /\ th'[t].op = n /\ th'[t].rv = 0
      BY <1>1, Starts
<1>3. DOMAIN res' = DOMAIN res BY <1>2
<1>4. ResultOf(n) = ToDo BY <1>2 DEF ResultOf, ToDo, Taken
<1>5. ResultOf(n)' = ToDo
  <2>1. ResultOf(n)' = Visible(t)' BY <1>1, <1>2, OwnResultNext DEF OwnResults
  <2>2. Visible(t)' = ToDo BY <1>2 DEF Visible, Bound, ToDo, Taken
  <2>. QED BY <1>2, <2>1, <2>2
<1>6. ASSUME NEW i \in DOMAIN res, i # n PROVE ResultOf(i)' = ResultOf(i)
  <2>1. i \in DOMAIN res' /\ res'[i] = res[i] BY <1>2, <1>3, <1>6
  <2>. QED BY <1>2, <2>1, OtherResults
<1>. QED BY <1>3, <1>4, <1>5, <1>6 DEF Answers

LEMMA Continued ==
  ASSUME Safe, Safe', Results, NEW t \in Threads, Step(t), res' = res,
         th[t].pc # "idle", th'[t].pc # "idle", th'[t].op = th[t].op
  PROVE  Answers' = [Answers EXCEPT ![th[t].op] = Visible(t)']
<1>. SUFFICES ASSUME NEW n, n = th[t].op, NEW r, r = Visible(t)'
              PROVE  Answers' = [Answers EXCEPT ![n] = r]
     OBVIOUS
<1>1. IInv /\ IInv' BY DEF Safe
<1>2. ResultOf(n)' = r BY <1>1, OwnResultNext DEF OwnResults
<1>3. ASSUME NEW i \in DOMAIN res, i # n PROVE ResultOf(i)' = ResultOf(i)
      BY <1>3, OtherResults
<1>. QED BY <1>2, <1>3 DEF Answers

LEMMA Ended ==
  ASSUME Safe, Safe', Results, NEW t \in Threads, Step(t), th[t].pc # "idle",
         NEW r \in {-1, 0, 1}, Finish(t, r)
  PROVE  Answers' = [Answers EXCEPT ![th[t].op] = r]
<1>. SUFFICES ASSUME NEW n, n = th[t].op PROVE Answers' = [Answers EXCEPT ![n] = r]
     OBVIOUS
<1>1. IInv /\ IInv' BY DEF Safe
<1>2. res' = [res EXCEPT ![n] = r] /\ n \in DOMAIN res BY <1>1, Returned, OwnResult DEF OwnResults
<1>3. ResultOf(n)' = r
  <2>1. res'[n] = r /\ r # Taken BY <1>2 DEF Taken
  <2>. QED BY <2>1 DEF ResultOf
<1>4. ASSUME NEW i \in DOMAIN res, i # n PROVE ResultOf(i)' = ResultOf(i)
  <2>1. i \in DOMAIN res' /\ res'[i] = res[i] BY <1>2, <1>4
  <2>. QED BY <1>4, <2>1, OtherResults
<1>. QED BY <1>2, <1>3, <1>4 DEF Answers

------------------------------------------------------------------------------
(* The edges that a step leaves.                                           *)
LEMMA EdgePresent ==
  ASSUME NEW o
  PROVE  Abstract!EdgeOf(o) \in Edges <=>
           \E d \in Listed : \E j \in Slots : Has(d, j, o)
<1>1. ASSUME Abstract!EdgeOf(o) \in Edges
      PROVE  \E d \in Listed : \E j \in Slots : Has(d, j, o)
  <2>1. PICK p \in EdgeSlots : Abstract!EdgeOf(o) = EdgeIn(p[1], p[2]) BY <1>1 DEF Edges
  <2>2. p[1] \in Listed /\ p[2] \in Slots /\ Occupied(p[1], p[2]) BY DEF EdgeSlots
  <2>3. Has(p[1], p[2], o) BY <2>1, <2>2 DEF Abstract!EdgeOf, EdgeIn, Has, Mine
  <2>. QED BY <2>2, <2>3
<1>2. ASSUME NEW d \in Listed, NEW j \in Slots, Has(d, j, o)
      PROVE  Abstract!EdgeOf(o) \in Edges
  <2>1. <<d, j>> \in EdgeSlots BY <1>2 DEF EdgeSlots, Has
  <2>2. Abstract!EdgeOf(o) = EdgeIn(d, j) BY <1>2 DEF Abstract!EdgeOf, EdgeIn, Has, Mine
  <2>. QED BY <2>1, <2>2 DEF Edges
<1>. QED BY <1>1, <1>2

LEMMA AnEdge ==
  ASSUME NEW e
  PROVE  /\ e \in Edges <=> \E d \in Listed : \E j \in Slots : Occupied(d, j) /\ e = EdgeIn(d, j)
         /\ e \in Edges' <=>
              \E d \in Listed' : \E j \in Slots : Occupied(d, j)' /\ e = EdgeIn(d, j)'
<1>. USE DEF Edges, EdgeSlots
<1>1. ASSUME NEW d \in Listed, NEW j \in Slots, Occupied(d, j), e = EdgeIn(d, j)
      PROVE  e \in Edges
  <2>1. <<d, j>> \in EdgeSlots BY <1>1
  <2>. QED BY <1>1, <2>1
<1>2. ASSUME NEW d \in Listed', NEW j \in Slots, Occupied(d, j)', e = EdgeIn(d, j)'
      PROVE  e \in Edges'
  <2>1. <<d, j>> \in EdgeSlots' BY <1>2
  <2>. QED BY <1>2, <2>1
<1>3. ASSUME e \in Edges
      PROVE  \E d \in Listed : \E j \in Slots : Occupied(d, j) /\ e = EdgeIn(d, j)
  <2>1. PICK p \in EdgeSlots : e = EdgeIn(p[1], p[2]) BY <1>3
  <2>. QED BY <2>1
<1>4. ASSUME e \in Edges'
      PROVE  \E d \in Listed' : \E j \in Slots : Occupied(d, j)' /\ e = EdgeIn(d, j)'
  <2>1. PICK p \in EdgeSlots' : e = EdgeIn(p[1], p[2])' BY <1>4
  <2>. QED BY <2>1
<1>. QED BY <1>1, <1>2, <1>3, <1>4

(* Of a slot whose edge stays, and of one that is shown.                   *)
LEMMA SameEdge ==
  ASSUME Safe, NEW t \in Threads, Step(t), NEW d \in Listed, NEW j \in Slots,
         eb'[d].edges[j].nbr = eb[d].edges[j].nbr
  PROVE  EdgeIn(d, j)' = EdgeIn(d, j)
BY ListedStay DEF EdgeIn, Safe

LEMMA EdgesGrow ==
  ASSUME Safe, Safe', NEW t \in Threads, Step(t), SameLists, th[t].pc # "clear"
  PROVE  /\ Edges \subseteq Edges'
         /\ \A e \in Edges' : e \in Edges \/
              \E d \in Listed : \E j \in Slots :
                 Shows(t, d, j) /\ Occupied(d, j)' /\ e = EdgeIn(d, j)'
<1>1. /\ IInv /\ IInv' /\ Places /\ Uniqueness /\ SlotsGrow /\ Listed' = Listed
      BY SlotsOnlyGrow DEF Safe, SameLists
<1>2. ASSUME NEW e \in Edges PROVE e \in Edges'
  <2>1. PICK d \in Listed, j \in Slots : Occupied(d, j) /\ e = EdgeIn(d, j) BY AnEdge
  <2>2. Occupied(d, j)' /\ EdgeIn(d, j)' = EdgeIn(d, j)
        BY <1>1, <2>1, SameEdge DEF SlotsGrow
  <2>. QED BY <1>1, <2>1, <2>2, AnEdge
<1>3. ASSUME NEW e \in Edges', e \notin Edges
      PROVE  \E d \in Listed : \E j \in Slots :
               Shows(t, d, j) /\ Occupied(d, j)' /\ e = EdgeIn(d, j)'
  <2>1. PICK d \in Listed, j \in Slots : Occupied(d, j)' /\ e = EdgeIn(d, j)'
        BY <1>1, AnEdge
  <2>2. ~(Occupied(d, j) /\ eb'[d].edges[j].nbr = eb[d].edges[j].nbr)
        BY <1>3, <2>1, SameEdge, AnEdge
  <2>. QED BY <1>1, <2>1, <2>2, Seen
<1>. QED BY <1>2, <1>3

LEMMA EdgesStay ==
  ASSUME Safe, Safe', NEW t \in Threads, Step(t), ~LinkBlock(t), th[t].pc # "clear",
         \A d \in Listed : \A j \in Slots : ~(Shows(t, d, j) /\ Occupied(d, j)')
  PROVE  Edges' = Edges
<1>1. SameLists BY ThreadLists DEF Safe
<1>. QED BY <1>1, EdgesGrow

LEMMA EdgeShown ==
  ASSUME Safe, Safe', NEW t \in Threads, Step(t),
         NEW d \in Listed, NEW j \in Slots, Shows(t, d, j), Occupied(d, j)'
  PROVE  Abstract!EdgeOf(Op(t)) \notin Edges /\ Edges' = Edges \cup {Abstract!EdgeOf(Op(t))}
<1>. SUFFICES ASSUME NEW e, e = Abstract!EdgeOf(Op(t))
              PROVE  e \notin Edges /\ Edges' = Edges \cup {e}
     OBVIOUS
<1>1. /\ IInv /\ Lists /\ Places /\ Uniqueness /\ th[t].pc # "clear" /\ SameLists
  <2>1. th[t].pc \in {"setnbr", "high"} /\ IInv /\ Lists BY DEF Shows, Safe
  <2>2. ~LinkBlock(t) BY <2>1 DEF LinkBlock, At
  <2>. QED BY <2>1, <2>2, ThreadLists DEF Safe
<1>2. Mine(d, Op(t)) /\ \A b \in Listed : \A i \in Slots : ~Has(b, i, Op(t))
      BY <1>1, Revealed
<1>3. e \notin Edges BY <1>2, EdgePresent
<1>4. EdgeIn(d, j)' = e
  <2>1. eb'[d].vertex = eb[d].vertex /\ eb'[d].type = eb[d].type BY <1>1, ListedStay
  <2>. QED BY <1>2, <2>1 DEF EdgeIn, Abstract!EdgeOf, Mine, Shows
<1>5. e \in Edges' BY <1>1, <1>4, AnEdge DEF SameLists
<1>6. Edges \subseteq Edges' BY <1>1, EdgesGrow
<1>7. ASSUME NEW f \in Edges', f \notin Edges PROVE f = e
  <2>1. PICK b \in Listed, i \in Slots : Shows(t, b, i) /\ f = EdgeIn(b, i)'
        BY <1>1, <1>7, EdgesGrow
  <2>2. b = d /\ i = j BY <2>1 DEF Shows
  <2>. QED BY <1>4, <2>1, <2>2
<1>. QED BY <1>3, <1>5, <1>6, <1>7

(* A block that enters its list brings the one edge in its first slot.     *)
LEMMA EdgeLinked ==
  ASSUME Safe, NEW t \in Threads, LinkBlock(t)
  PROVE  Abstract!EdgeOf(Op(t)) \notin Edges /\ Edges' = Edges \cup {Abstract!EdgeOf(Op(t))}
<1>. USE DEF NewPcs, EndPcs, CreatingPcs
<1>. SUFFICES ASSUME NEW n, NEW o, NEW e, n = th[t].tmp, o = Op(t), e = Abstract!EdgeOf(o)
              PROVE  e \notin Edges /\ Edges' = Edges \cup {e}
     OBVIOUS
<1>1. /\ IInv /\ Lists /\ Uniqueness /\ Ordered /\ Enlists(t)
      BY StepLinks DEF Safe, Uniqueness
<1>2. th[t].pc = "link" /\ eb' = eb BY Zenon DEF LinkBlock, At
<1>3. Listed' = Listed \cup {n} BY <1>1 DEF Enlists
<1>4. /\ eb[n].vertex = o.from /\ eb[n].type = o.type
      /\ eb[n].high = 1 /\ eb[n].edges[0].nbr = o.to /\ o.to >= 0
  <2>1. eb[n].vertex = o.from /\ eb[n].type = o.type BY <1>1, <1>2 DEF Lists, InList
  <2>2. eb[n].high = 1 /\ eb[n].edges[0].nbr = o.to BY <1>1, <1>2 DEF Uniqueness, Fills
  <2>3. th[t].pc # "idle" BY <1>2
  <2>4. o.to >= 0 BY <1>1, <2>3, OpFields DEF Vertices
  <2>. QED BY <2>1, <2>2, <2>4
<1>5. ASSUME NEW b \in Listed, NEW i \in Slots PROVE ~Has(b, i, o)
  <2>. SUFFICES ASSUME Has(b, i, o) PROVE FALSE
       OBVIOUS
  <2>1. ~Before(th[t].ptr, b, o.from) BY <1>1, <1>2, AtTheEnd DEF Has, Mine
  <2>2. Passed(th[t], o.from, b, i) BY <1>2, <2>1 DEF Passed
  <2>3. Chooses(th[t], o) BY <1>1 DEF Uniqueness, Scan
  <2>. QED BY <1>2, <2>2, <2>3 DEF Chooses, Has, Full
<1>6. e \notin Edges BY <1>5, EdgePresent
<1>7. \A d, j : (Occupied(d, j)' <=> Occupied(d, j)) /\ EdgeIn(d, j)' = EdgeIn(d, j)
      BY <1>2 DEF Occupied, EdgeIn
<1>8. 0 \in Slots /\ Occupied(n, 0) /\ EdgeIn(n, 0) = e
      BY <1>4, SizesPositive DEF Slots, Occupied, EdgeIn, Abstract!EdgeOf
<1>9. ASSUME NEW j \in Slots, Occupied(n, j) PROVE j = 0
      BY <1>4, <1>9, Numbers DEF Occupied
<1>10. ASSUME NEW f PROVE f \in Edges' <=> (f \in Edges \/ f = e)
      BY <1>3, <1>7, <1>8, <1>9, AnEdge
<1>. QED BY <1>6, <1>10

(* A removal takes away the edge it has found, which no other slot has.    *)
LEMMA EdgeCleared ==
  ASSUME Safe, Safe', Results, NEW t \in Threads, Step(t), ClearSlot(t)
  PROVE  Abstract!EdgeOf(Op(t)) \in Edges /\ Edges' = Edges \ {Abstract!EdgeOf(Op(t))}
<1>. SUFFICES ASSUME NEW o, NEW e, o = Op(t), e = Abstract!EdgeOf(o),
                     NEW d, NEW j, d = th[t].tmp, j = th[t].k
              PROVE  e \in Edges /\ Edges' = Edges \ {e}
     OBVIOUS
<1>1. /\ IInv /\ IInv' /\ th[t].pc = "clear" /\ th[t].pc \in SlotPcs /\ th[t].pc # "idle"
      BY DEF Safe, ClearSlot, At, SlotPcs
<1>2. /\ d \in Listed /\ j \in Slots /\ eb[d].vertex = o.from /\ eb[d].type = o.type
      BY <1>1, SlotListed DEF Results, Suits
<1>3. Has(d, j, o)
      BY <1>1, <1>2 DEF Results, Removes, EmptyPcs, Found, Has, Mine, Slot
<1>4. e \in Edges BY <1>2, <1>3, EdgePresent
<1>5. /\ Slot(t) \in Edge /\ eb \in [Blocks -> EdgeBlock] /\ d \in Blocks /\ o.to \in Nat
      BY <1>1, AtSlot, OpFields DEF Vertices
<1>6. \A b \in Blocks :
        /\ eb'[b].high = eb[b].high
        /\ eb'[b].type = eb[b].type /\ eb'[b].vertex = eb[b].vertex
        /\ \A i \in Slots : IF b = d /\ i = j THEN eb'[b].edges[i].nbr < 0
                            ELSE eb'[b].edges[i] = eb[b].edges[i]
  <2>. DEFINE v == [Slot(t) EXCEPT !.nbr = Complement(Op(t).to)]
  <2>1. StoresEdge(d, j, v) BY Zenon DEF StoresEdge, ClearSlot, Slot
  <2>2. v.nbr < 0 BY <1>5 DEF Edge, Complement
  <2>. HIDE DEF v
  <2>. QED BY <1>2, <1>5, <2>1, <2>2, SlotEdit
<1>7. Listed' = Listed
  <2>1. ~LinkBlock(t) BY <1>1 DEF LinkBlock, At
  <2>. QED BY <1>1, <2>1, ThreadLists DEF Safe, SameLists
<1>8. ASSUME NEW b \in Listed, NEW i \in Slots
      PROVE  /\ Occupied(b, i)' <=> (Occupied(b, i) /\ ~(b = d /\ i = j))
             /\ ~(b = d /\ i = j) => EdgeIn(b, i)' = EdgeIn(b, i)
  <2>1. b \in Blocks BY Numbers
  <2>2. CASE b = d /\ i = j
    <3>1. eb'[b].edges[i].nbr < 0 BY <1>6, <2>1, <2>2
    <3>2. eb'[b].edges[i].nbr \in Int
      <4>1. eb' \in [Blocks -> EdgeBlock] BY <1>1 DEF IInv, TypeOK
      <4>. QED BY <2>1, <4>1, SMT DEF EdgeBlock, Edge
    <3>3. ~(eb'[b].edges[i].nbr >= 0) BY <3>1, <3>2
    <3>. QED BY <2>2, <3>3 DEF Occupied
  <2>3. CASE ~(b = d /\ i = j)
    <3>1. eb'[b].edges[i] = eb[b].edges[i] BY <1>6, <2>1, <2>3
    <3>. QED BY <1>6, <2>1, <2>3, <3>1 DEF Occupied, EdgeIn
  <2>. QED BY <2>2, <2>3
<1>9. ASSUME NEW b \in Listed, NEW i \in Slots, Occupied(b, i), EdgeIn(b, i) = e
      PROVE  b = d /\ i = j
  <2>1. Has(b, i, o) BY <1>9 DEF EdgeIn, Abstract!EdgeOf, Has, Mine
  <2>. QED BY <1>2, <1>3, <2>1 DEF Safe, Uniqueness, Single
<1>10. EdgeIn(d, j) = e /\ Occupied(d, j)
      BY <1>3 DEF Has, Mine, EdgeIn, Abstract!EdgeOf
<1>11. ASSUME NEW f PROVE f \in Edges' <=> (f \in Edges /\ f # e)
  <2>1. ASSUME f \in Edges' PROVE f \in Edges /\ f # e
    <3>1. PICK b \in Listed, i \in Slots : Occupied(b, i)' /\ f = EdgeIn(b, i)'
          BY <1>7, <2>1, AnEdge
    <3>2. Occupied(b, i) /\ ~(b = d /\ i = j) /\ f = EdgeIn(b, i) BY <1>8, <3>1
    <3>. QED BY <1>9, <3>2, AnEdge
  <2>2. ASSUME f \in Edges, f # e PROVE f \in Edges'
    <3>1. PICK b \in Listed, i \in Slots : Occupied(b, i) /\ f = EdgeIn(b, i)
          BY <2>2, AnEdge
    <3>2. ~(b = d /\ i = j) BY <1>10, <2>2, <3>1
    <3>3. Occupied(b, i)' /\ f = EdgeIn(b, i)' BY <1>8, <3>1, <3>2
    <3>. QED BY <1>7, <3>3, AnEdge
  <2>. QED BY <2>1, <2>2
<1>. QED BY <1>4, <1>11

------------------------------------------------------------------------------

(* A step of the store is one of the atomic set, or none.                  *)
Stutters    == UNCHANGED <<work, phase, Answers, Edges>>
Implemented == Abstract!Next \/ Stutters

LEMMA Performed ==
  ASSUME IInv, NEW t \in Threads, NEW r \in {-1, 0, 1}, th[t].pc # "idle",
         UNCHANGED <<work, phase>>, Visible(t) = ToDo,
         Answers' = [Answers EXCEPT ![th[t].op] = r],
         Abstract!Add(Op(t), r) \/ Abstract!Remove(Op(t), r)
  PROVE  Implemented
<1>. SUFFICES ASSUME NEW n, n = th[t].op PROVE Abstract!Next
     BY DEF Implemented
<1>1. n \in DOMAIN res /\ ResultOf(n) = ToDo BY OwnResult DEF OwnResults
<1>2. Answers[n] = ToDo BY <1>1 DEF Answers
<1>3. Abstract!Perform(n)
  <2>1. /\ Abstract!Add(work[phase][n], r) \/ Abstract!Remove(work[phase][n], r)
        /\ Answers' = [Answers EXCEPT ![n] = r]
        BY DEF Op
  <2>. QED BY <1>2, <2>1, Zenon DEF Abstract!Perform, Answers, Abstract!ToDo, ToDo
<1>4. n \in DOMAIN Answers BY <1>1 DEF Answers
<1>. QED BY <1>3, <1>4, Zenon DEF Abstract!Next, Answers

LEMMA Kept ==
  ASSUME IInv, NEW t \in Threads, th[t].pc # "idle", UNCHANGED <<work, phase>>,
         Answers' = [Answers EXCEPT ![th[t].op] = Visible(t)], Edges' = Edges
  PROVE  Implemented
<1>. SUFFICES ASSUME NEW n, n = th[t].op PROVE Answers' = Answers
     BY DEF Implemented, Stutters
<1>1. n \in DOMAIN res /\ ResultOf(n) = Visible(t) BY OwnResult DEF OwnResults
<1>. QED BY <1>1 DEF Answers

(* A thread whose operation is not bound to a result yet, and the effect   *)
(* of the step that binds it.                                              *)
LEMMA Adds ==
  ASSUME IInv, NEW t \in Threads, NEW r \in {-1, 0, 1}, th[t].pc # "idle",
         UNCHANGED <<work, phase>>, Visible(t) = ToDo, Op(t).kind # "remove",
         Answers' = [Answers EXCEPT ![th[t].op] = r],
         \/ r = -1 /\ Op(t).from = Op(t).to /\ Edges' = Edges
         \/ /\ r = 0 /\ Op(t).from # Op(t).to
            /\ Abstract!EdgeOf(Op(t)) \in Edges /\ Edges' = Edges
         \/ /\ r = 1 /\ Op(t).from # Op(t).to
            /\ Abstract!EdgeOf(Op(t)) \notin Edges
            /\ Edges' = Edges \cup {Abstract!EdgeOf(Op(t))}
  PROVE  Implemented
<1>1. Op(t).kind \in {"insert", "incr"} BY OpFields
<1>2. Abstract!Add(Op(t), r) BY <1>1 DEF Abstract!Add
<1>. QED BY <1>2, Performed

LEMMA Takeaways ==
  ASSUME IInv, NEW t \in Threads, NEW r \in {-1, 0, 1}, th[t].pc # "idle",
         UNCHANGED <<work, phase>>, Op(t).kind = "remove",
         Answers' = [Answers EXCEPT ![th[t].op] = r],
         \/ r = -1 /\ Abstract!EdgeOf(Op(t)) \notin Edges /\ Edges' = Edges
         \/ /\ r = 1 /\ Abstract!EdgeOf(Op(t)) \in Edges
            /\ Edges' = Edges \ {Abstract!EdgeOf(Op(t))}
  PROVE  Implemented
<1>1. Visible(t) = ToDo BY VisibleIs
<1>2. Abstract!Remove(Op(t), r) BY DEF Abstract!Remove
<1>. QED BY <1>1, <1>2, Performed

(* A step that returns from the operation.                                 *)
LEMMA EndMaps ==
  ASSUME Safe, Safe', Results, NEW t \in Threads, Step(t), Ends(t)
  PROVE  Implemented
<1>. SUFFICES ASSUME NEW x, x = th[t] PROVE Implemented
     OBVIOUS
<1>1. /\ IInv /\ Returns(x) /\ Suits(t) /\ Removes(t) /\ NoLoops /\ x.rv \in {0, 1}
  <2>1. IInv /\ x \in Locals BY DEF Safe, IInv, TypeOK
  <2>. QED BY <2>1, FieldTypes DEF Results
<1>2. UNCHANGED <<work, phase>> BY SamePhase
<1>3. x.pc \in {"begin", "find", "link", "recent", "restore", "reremove", "clear"}
      BY <1>1, Ending
<1>4. x.pc # "idle" BY <1>3
<1>5. ASSUME NEW r \in {-1, 0, 1}, Finish(t, r)
      PROVE  Answers' = [Answers EXCEPT ![x.op] = r]
      BY <1>4, <1>5, Ended
<1>6. ASSUME x.pc \notin {"link", "clear"} PROVE Edges' = Edges
  <2>1. ~LinkBlock(t) BY <1>6 DEF LinkBlock, At
  <2>. QED BY <1>3, <1>6, <2>1, EdgesStay DEF Shows
<1>7. CASE RefuseLoop(t)
  <2>1. x.pc = "begin" /\ Op(t).from = Op(t).to /\ Finish(t, -1) BY <1>7 DEF RefuseLoop, At
  <2>2. Answers' = [Answers EXCEPT ![x.op] = -1] /\ Edges' = Edges BY <1>5, <1>6, <2>1
  <2>3. CASE Op(t).kind # "remove"
    <3>1. x.rv = 0 BY <1>1, <2>1 DEF Returns, AddPcs, FillPcs, SettlePcs
    <3>2. Visible(t) = ToDo BY <1>1, <2>1, <2>3, <3>1, VisibleIs DEF UpdatePcs
    <3>. QED BY <1>1, <1>2, <1>4, <2>1, <2>2, <2>3, <3>2, Adds
  <2>4. CASE Op(t).kind = "remove"
    <3>1. ASSUME NEW d \in Listed, NEW j \in Slots, Has(d, j, Op(t)) PROVE FALSE
          BY <1>1, <2>1, <3>1, LoopFree DEF Has, Mine
    <3>2. Abstract!EdgeOf(Op(t)) \notin Edges BY <3>1, EdgePresent
    <3>. QED BY <1>1, <1>2, <1>4, <2>2, <2>4, <3>2, Takeaways
  <2>. QED BY <2>3, <2>4
<1>8. CASE FindEnd(t) /\ Op(t).kind = "remove"
  <2>1. x.pc = "find" /\ x.tmp = 0 /\ Finish(t, -1) BY <1>8 DEF FindEnd, At
  <2>2. Answers' = [Answers EXCEPT ![x.op] = -1] /\ Edges' = Edges BY <1>5, <1>6, <2>1
  <2>3. ASSUME NEW d \in Listed, NEW j \in Slots, Has(d, j, Op(t)) PROVE FALSE
        BY <1>1, <1>8, <2>1, <2>3 DEF Removes, Finding, FindPcs, Looked
  <2>4. Abstract!EdgeOf(Op(t)) \notin Edges BY <2>3, EdgePresent
  <2>. QED BY <1>1, <1>2, <1>4, <1>8, <2>2, <2>4, Takeaways
<1>9. CASE LinkBlock(t)
  <2>1. x.pc = "link" /\ Finish(t, 1) BY <1>9 DEF LinkBlock, At
  <2>2. Op(t).kind # "remove" /\ Op(t).from # Op(t).to
        BY <1>1, <1>4, <2>1, Working DEF Fits, InsertPcs, Suits, EarlyPcs
  <2>3. x.rv = 0 BY <1>1, <2>1 DEF Returns, AddPcs, FillPcs, SettlePcs
  <2>4. Visible(t) = ToDo BY <1>1, <2>1, <2>2, <2>3, VisibleIs DEF UpdatePcs
  <2>5. Answers' = [Answers EXCEPT ![x.op] = 1] BY <1>5, <2>1
  <2>. QED BY <1>1, <1>2, <1>4, <1>9, <2>2, <2>4, <2>5, EdgeLinked, Adds
<1>10. CASE (WriteRecent(t) /\ ~th[t].held) \/ RestoreFirst(t)
  <2>1. \/ x.pc = "recent" /\ Finish(t, x.rv)
        \/ x.pc = "restore" /\ Finish(t, 0)
        BY <1>10 DEF WriteRecent, RestoreFirst, At
  <2>2. Op(t).kind # "remove" /\ x.pc \in UpdatePcs
        BY <1>1, <1>4, <2>1, Working DEF Fits, InsertPcs, UpdatePcs
  <2>3. x.pc = "restore" => x.rv = 0 BY <1>1 DEF Returns, AddPcs, FillPcs, SettlePcs
  <2>4. Finish(t, x.rv) BY <2>1, <2>3
  <2>5. Visible(t) = x.rv
    <3>1. CASE x.rv = 0 BY <1>1, <2>2, <3>1, VisibleIs
    <3>2. CASE x.rv = 1
      <4>1. x.k < eb[x.tmp].high BY <1>1, <2>1, <2>3, <3>2 DEF Returns, SettlePcs
      <4>. QED BY <1>1, <2>1, <2>2, <3>2, <4>1, VisibleIs
    <3>. QED BY <1>1, <3>1, <3>2
  <2>6. Answers' = [Answers EXCEPT ![x.op] = x.rv] BY <1>1, <1>5, <2>4
  <2>. QED BY <1>1, <1>2, <1>4, <1>6, <2>1, <2>5, <2>6, Kept
<1>11. CASE RecheckRemove(t) /\ Slot(t).nbr # Op(t).to
  <2>1. x.pc \in EmptyPcs BY <1>11 DEF RecheckRemove, At, EmptyPcs
  <2>. QED BY <1>1, <1>11, <2>1 DEF Removes, Found
<1>12. CASE ClearSlot(t)
  <2>1. x.pc = "clear" /\ Finish(t, 1) BY <1>12 DEF ClearSlot, At
  <2>2. Op(t).kind = "remove" BY <1>1, <1>4, <2>1, Working DEF Fits, RemovalPcs
  <2>3. Answers' = [Answers EXCEPT ![x.op] = 1] BY <1>5, <2>1
  <2>. QED BY <1>1, <1>2, <1>4, <1>12, <2>2, <2>3, EdgeCleared, Takeaways
<1>. QED BY <1>7, <1>8, <1>9, <1>10, <1>11, <1>12 DEF Ends

(* The stores of a new edge: it counts from the store of its neighbor when *)
(* the mark is above it, or else from the raising of the mark.             *)
LEMMA FillMaps ==
  ASSUME Safe, Safe', Results, NEW t \in Threads, Step(t), ~Ends(t),
         NEW x, NEW y, x = th[t], y = th'[t], res' = res, Stores(t, x, y), x.rv = 1
  PROVE  Implemented
<1>1. IInv /\ IInv' BY DEF Safe
<1>2. x.pc \in AddPcs \cup SettlePcs /\ y.pc \in (AddPcs \cup SettlePcs) \ {"setnbr"}
  <2>1. x.pc \in AddPcs \cup SettlePcs /\ ~x.held BY DEF Results, Returns
  <2>. QED BY <2>1 DEF Stores, AddPcs, FillPcs, SettlePcs
<1>3. /\ x.pc \in SlotPcs /\ x.pc # "idle" /\ x.pc \in InsertPcs /\ x.pc \notin EarlyPcs
      /\ y.pc # "idle"
      BY <1>2 DEF AddPcs, FillPcs, SettlePcs, SlotPcs, InsertPcs, UpdatePcs, EarlyPcs
<1>4. /\ Op(t).kind # "remove" /\ Op(t).from # Op(t).to /\ UNCHANGED <<work, phase>>
      BY <1>1, <1>3, Working, SamePhase DEF Fits, Results, Suits
<1>5. y.op = x.op /\ y.k = x.k /\ y.tmp = x.tmp /\ y.rv = 1 BY DEF Stores
<1>6. Answers' = [Answers EXCEPT ![x.op] = Visible(t)'] BY <1>3, <1>5, Continued
<1>7. Op(t)' = Op(t) BY <1>4, <1>5 DEF Op
<1>8. /\ Visible(t) = IF x.pc # "setnbr" /\ x.k < eb[x.tmp].high THEN 1 ELSE ToDo
      /\ Visible(t)' = IF x.k < eb'[x.tmp].high THEN 1 ELSE ToDo
  <2>1. Visible(t) = IF x.pc # "setnbr" /\ x.k < eb[x.tmp].high THEN 1 ELSE ToDo
        BY <1>1, <1>4, VisibleIs
  <2>2. y.pc # "setnbr" BY <1>2
  <2>3. Bound(t)' = IF x.k < eb'[x.tmp].high THEN 1 ELSE Taken
    <3>1. Op(t)'.kind # "remove" BY <1>4, <1>7
    <3>. QED BY <1>5, <2>2, <3>1 DEF Bound
  <2>4. Visible(t)' = IF x.k < eb'[x.tmp].high THEN 1 ELSE ToDo
        BY <2>3 DEF Visible, Taken, ToDo
  <2>. QED BY <2>1, <2>4
<1>9. /\ x.tmp \in Listed /\ x.tmp \in Blocks /\ x.k \in Slots /\ x.k \in Nat
      /\ Op(t).to \in Nat /\ eb[x.tmp].high \in Nat /\ eb'[x.tmp].high \in Nat
      /\ x.pc # "high" => eb'[x.tmp].high = eb[x.tmp].high
  <2>1. x.pc # "newblock" BY <1>2 DEF AddPcs, FillPcs, SettlePcs
  <2>2. x.tmp \in Listed /\ x.tmp \in Blocks /\ x.k \in Slots BY <1>3, SlotListed
  <2>. QED BY <1>1, <1>3, <2>1, <2>2, HighRises, OpFields, Numbers DEF Vertices
<1>10. ASSUME \A d \in Listed : \A j \in Slots : ~(Shows(t, d, j) /\ Occupied(d, j)')
       PROVE  Edges' = Edges
  <2>1. ~LinkBlock(t) BY <1>3 DEF LinkBlock, At, SlotPcs
  <2>2. x.pc # "clear" BY <1>2 DEF AddPcs, FillPcs, SettlePcs
  <2>. QED BY <1>10, <2>1, <2>2, EdgesStay
<1>11. CASE x.pc = "setnbr"
  <2>1. eb'[x.tmp].edges[x.k].nbr = Op(t).to
    <3>. DEFINE v == [Slot(t) EXCEPT !.nbr = Op(t).to]
    <3>1. StoresEdge(x.tmp, x.k, v)
      <4>1. SetNeighbor(t) BY <1>11, StepAt
      <4>. QED BY <4>1, Zenon DEF StoresEdge, SetNeighbor, Slot
    <3>2. Slot(t) \in Edge /\ eb \in [Blocks -> EdgeBlock] BY <1>1, <1>3, AtSlot
    <3>3. v.nbr = Op(t).to BY <3>2 DEF Edge
    <3>. HIDE DEF v
    <3>. QED BY <1>9, <3>1, <3>2, <3>3, SlotEdit
  <2>2. ~Occupied(x.tmp, x.k) BY <1>11 DEF Safe, Places, PlaceOK
  <2>3. Shows(t, x.tmp, x.k) BY <1>11, <2>1, <2>2 DEF Shows
  <2>4. Occupied(x.tmp, x.k)' <=> x.k < eb[x.tmp].high
    <3>1. eb'[x.tmp].edges[x.k].nbr >= 0 BY <1>9, <2>1
    <3>. QED BY <1>9, <1>11, <3>1 DEF Occupied
  <2>5. CASE x.k < eb[x.tmp].high
    <3>1. Visible(t) = ToDo /\ Visible(t)' = 1 BY <1>8, <1>9, <1>11, <2>5
    <3>2. /\ Abstract!EdgeOf(Op(t)) \notin Edges
          /\ Edges' = Edges \cup {Abstract!EdgeOf(Op(t))}
          BY <1>9, <2>3, <2>4, <2>5, EdgeShown
    <3>3. Answers' = [Answers EXCEPT ![x.op] = 1] BY <1>6, <3>1
    <3>. QED BY <1>1, <1>3, <1>4, <3>1, <3>2, <3>3, Adds
  <2>6. CASE ~(x.k < eb[x.tmp].high)
    <3>1. Visible(t) = ToDo /\ Visible(t)' = ToDo BY <1>8, <1>9, <1>11, <2>6
    <3>2. Edges' = Edges BY <1>10, <2>4, <2>6 DEF Shows
    <3>. QED BY <1>1, <1>3, <1>4, <1>6, <3>1, <3>2, Kept
  <2>. QED BY <2>5, <2>6
<1>12. CASE x.pc = "high" /\ ~(x.k < eb[x.tmp].high)
  <2>1. RaiseHigh(t) BY <1>12, StepAt
  <2>2. x.k < eb'[x.tmp].high BY <1>1, <2>1, RaisedHigh
  <2>3. eb'[x.tmp].edges[x.k].nbr = Op(t).to
    <3>1. ~NewBlock(t) BY <1>12 DEF NewBlock, At
    <3>2. Edit(t) BY <1>1, <3>1, StepEdits
    <3>3. eb'[x.tmp].edges[x.k].nbr = eb[x.tmp].edges[x.k].nbr BY <1>9, <1>12, <3>2 DEF Edit
    <3>4. Slot(t).nbr = Op(t).to BY <1>12 DEF Safe, Uniqueness, Fills, FillPcs
    <3>. QED BY <3>3, <3>4 DEF Slot
  <2>4. Shows(t, x.tmp, x.k) BY <1>12, <2>3 DEF Shows, Occupied
  <2>5. Occupied(x.tmp, x.k)' BY <1>9, <2>2, <2>3 DEF Occupied
  <2>6. Visible(t) = ToDo /\ Visible(t)' = 1 BY <1>8, <1>12, <2>2
  <2>7. /\ Abstract!EdgeOf(Op(t)) \notin Edges
        /\ Edges' = Edges \cup {Abstract!EdgeOf(Op(t))}
        BY <1>9, <2>4, <2>5, EdgeShown
  <2>8. Answers' = [Answers EXCEPT ![x.op] = 1] BY <1>6, <2>6
  <2>. QED BY <1>1, <1>3, <1>4, <2>6, <2>7, <2>8, Adds
<1>13. CASE x.pc # "setnbr" /\ ~(x.pc = "high" /\ ~(x.k < eb[x.tmp].high))
  <2>1. x.k < eb'[x.tmp].high <=> x.k < eb[x.tmp].high
    <3>1. eb[x.tmp].high <= eb'[x.tmp].high BY <1>1, <1>9, HighRises
    <3>. QED BY <1>9, <1>13, <3>1
  <2>2. Visible(t)' = Visible(t) BY <1>8, <1>13, <2>1
  <2>3. ASSUME NEW d \in Listed, NEW j \in Slots, Shows(t, d, j) PROVE FALSE
    <3>1. x.pc = "high" /\ d = x.tmp /\ j = x.k /\ ~Occupied(x.tmp, x.k)
          BY <1>13, <2>3 DEF Shows
    <3>2. Slot(t).nbr = Op(t).to BY <3>1 DEF Safe, Uniqueness, Fills, FillPcs
    <3>. QED BY <1>9, <1>13, <3>1, <3>2 DEF Occupied, Slot
  <2>4. Edges' = Edges BY <1>10, <2>3
  <2>. QED BY <1>1, <1>3, <1>4, <1>6, <2>2, <2>4, Kept
<1>. QED BY <1>11, <1>12, <1>13

(* The other steps of an operation: the edge found, or nothing to be seen. *)
LEMMA ContinueMaps ==
  ASSUME Safe, Safe', Results, NEW t \in Threads, Step(t), ~Ends(t),
         NEW x, NEW y, x = th[t], y = th'[t], x.pc # "idle", Continues(t, x, y)
  PROVE  Implemented
<1>1. /\ IInv /\ IInv' /\ Returns(x) /\ Suits(t) /\ x.rv \in {0, 1} /\ res' = res
      /\ UNCHANGED <<work, phase>>
  <2>1. IInv /\ x \in Locals BY DEF Safe, IInv, TypeOK
  <2>2. UNCHANGED <<work, phase>> BY SamePhase
  <2>. QED BY <2>1, <2>2, FieldTypes DEF Results, Continues, Safe
<1>2. y.pc # "idle" /\ y.op = x.op
  <2>1. Meets(t, x, y) => y.pc # "idle" BY <1>1, ExistingPc DEF Meets
  <2>. QED BY <2>1 DEF Continues, Walks, Meets, Takes, Stores, AddPcs, FillPcs, SettlePcs
<1>3. Answers' = [Answers EXCEPT ![x.op] = Visible(t)'] BY <1>1, <1>2, Continued
<1>4. Op(t)' = Op(t) BY <1>1, <1>2 DEF Op
<1>5. ~LinkBlock(t) /\ x.pc # "clear" BY StepAt DEF Ends
<1>6. ASSUME x.pc \notin {"setnbr", "high"} PROVE Edges' = Edges
      BY <1>5, <1>6, EdgesStay DEF Shows
<1>7. Op(t).kind = "remove" => Visible(t)' = ToDo
      BY <1>4 DEF Visible, Bound, Taken, ToDo
<1>8. Op(t).kind # "remove" /\ y.rv = 0 =>
        Visible(t)' = IF y.pc \in UpdatePcs THEN 0 ELSE ToDo
  <2>. SUFFICES ASSUME Op(t)'.kind # "remove", th'[t].rv = 0
                PROVE  Visible(t)' = IF th'[t].pc \in UpdatePcs THEN 0 ELSE ToDo
       BY <1>4
  <2>1. Bound(t)' = IF th'[t].pc \in UpdatePcs THEN 0 ELSE Taken BY DEF Bound, UpdatePcs
  <2>. QED BY <2>1 DEF Visible, Taken, ToDo
<1>9. CASE Op(t).kind = "remove"
  <2>1. x.pc \in LookPcs \cup RemovalPcs BY <1>1, <1>9, RemovalAt
  <2>2. Edges' = Edges BY <1>6, <2>1 DEF LookPcs, EarlyPcs, FindPcs, RemovalPcs
  <2>3. Visible(t)' = Visible(t) BY <1>1, <1>7, <1>9, VisibleIs
  <2>. QED BY <1>1, <1>3, <2>2, <2>3, Kept
<1>10. CASE Op(t).kind # "remove" /\ (Walks(t, x, y) \/ Takes(t, x, y))
  <2>1. /\ x.pc \notin AddPcs \cup UpdatePcs /\ y.pc \notin UpdatePcs
        /\ y.rv = x.rv \/ (y.rv = 1 /\ y.pc = "setnbr")
        BY <1>10 DEF Walks, Takes, AddPcs, FillPcs, UpdatePcs
  <2>2. x.rv = 0 BY <1>1, <2>1 DEF Returns, SettlePcs, UpdatePcs
  <2>3. Edges' = Edges BY <1>6, <2>1 DEF AddPcs, FillPcs
  <2>4. Visible(t) = ToDo BY <1>1, <1>10, <2>1, <2>2, VisibleIs
  <2>5. Visible(t)' = ToDo
    <3>1. CASE y.rv = 0 BY <1>8, <1>10, <2>1, <3>1
    <3>2. CASE y.rv = 1 /\ y.pc = "setnbr"
      <4>1. Bound(t)' = Taken BY <3>2 DEF Bound
      <4>. QED BY <4>1 DEF Visible
    <3>. QED BY <2>1, <2>2, <3>1, <3>2
  <2>. QED BY <1>1, <1>3, <2>3, <2>4, <2>5, Kept
<1>11. CASE Op(t).kind # "remove" /\ Meets(t, x, y)
  <2>1. /\ x.pc \in {"findslot", "slot", "recheck"} /\ y.pc = Existing(t) /\ Found(t)
        /\ y.rv = x.rv
        BY <1>11 DEF Meets
  <2>2. x.rv = 0 BY <1>1, <2>1 DEF Returns, AddPcs, FillPcs, SettlePcs
  <2>3. Visible(t) = ToDo BY <1>1, <1>11, <2>1, <2>2, VisibleIs DEF UpdatePcs
  <2>4. Visible(t)' = 0
    <3>1. y.pc \in UpdatePcs BY <1>1, <1>11, <2>1, ExistingPc DEF UpdatePcs
    <3>. QED BY <1>8, <1>11, <2>1, <2>2, <3>1
  <2>5. Abstract!EdgeOf(Op(t)) \in Edges
    <3>1. x.pc \in SlotPcs BY <2>1 DEF SlotPcs
    <3>2. x.tmp \in Listed /\ eb[x.tmp].vertex = Op(t).from /\ x.k \in Slots
          BY <3>1, SlotListed
    <3>3. Has(x.tmp, x.k, Op(t)) BY <1>1, <2>1, <3>1, <3>2 DEF Has, Mine, Found, Suits, Slot
    <3>. QED BY <3>2, <3>3, EdgePresent
  <2>6. Op(t).from # Op(t).to BY <1>1, <2>1 DEF Suits, EarlyPcs
  <2>7. Edges' = Edges BY <1>6, <2>1
  <2>8. Answers' = [Answers EXCEPT ![x.op] = 0] BY <1>3, <2>4
  <2>. QED BY <1>1, <1>11, <2>3, <2>5, <2>6, <2>7, <2>8, Adds
<1>12. CASE Op(t).kind # "remove" /\ Stores(t, x, y) /\ x.rv = 0
  <2>1. x.pc \notin RemovalPcs BY <1>1, <1>12, Working DEF Fits
  <2>2. x.pc \notin AddPcs BY <1>1, <1>12 DEF Returns
  <2>3. x.pc \in UpdatePcs /\ y.pc \in UpdatePcs /\ y.rv = 0
        BY <1>12, <2>1, <2>2 DEF Stores, RemovalPcs, UpdatePcs, SettlePcs
  <2>4. Visible(t) = 0 /\ Visible(t)' = 0 BY <1>1, <1>8, <1>12, <2>3, VisibleIs
  <2>5. Edges' = Edges BY <1>6, <2>3 DEF UpdatePcs
  <2>. QED BY <1>1, <1>3, <2>4, <2>5, Kept
<1>13. CASE Stores(t, x, y) /\ x.rv = 1 BY <1>1, <1>13, FillMaps
<1>. QED BY <1>1, <1>9, <1>10, <1>11, <1>12, <1>13 DEF Continues

LEMMA ThreadMaps ==
  ASSUME Safe, Safe', Results, NEW t \in Threads, Step(t)
  PROVE  Implemented
<1>1. IInv BY DEF Safe
<1>2. CASE \E i \in DOMAIN res : Take(t, i)
  <2>1. PICK i \in DOMAIN res : Take(t, i) BY <1>2
  <2>2. Answers' = Answers /\ th[t].pc = "idle" BY <1>1, <2>1, Started, Starts
  <2>3. ~LinkBlock(t) BY <2>2 DEF LinkBlock, At
  <2>4. Edges' = Edges BY <2>2, <2>3, EdgesStay DEF Shows
  <2>. QED BY <2>2, <2>4, SamePhase DEF Implemented, Stutters
<1>3. CASE Ends(t) BY <1>3, EndMaps
<1>4. CASE ~(\E i \in DOMAIN res : Take(t, i)) /\ ~Ends(t)
  <2>1. Continues(t, th[t], th'[t]) BY <1>1, <1>4, Course
  <2>2. th[t].pc # "idle"
        BY <1>4, StepAt DEF EarlyPcs, ReadActive, CasActive, RefuseLoop, EtypeBegin, At
  <2>. QED BY <1>4, <2>1, <2>2, ContinueMaps
<1>. QED BY <1>2, <1>3, <1>4

LEMMA BarrierMaps ==
  ASSUME Safe, Results, Barrier
  PROVE  Implemented
<1>1. /\ phase \in DOMAIN work /\ phase' = phase + 1 /\ work' = work
      /\ res' = Begun(work, phase + 1) /\ UNCHANGED <<eb, tail, th>>
      /\ \A i \in DOMAIN res : res[i] \notin {ToDo, Taken}
      BY Zenon DEF Barrier, edgeVars, poolVars, countVars
<1>2. \A i \in DOMAIN res : ResultOf(i) # ToDo BY <1>1 DEF ResultOf
<1>3. Answers' = Abstract!Begun(work, phase + 1)
  <2>1. res' = [i \in OpsOf(work, phase + 1) |-> ToDo] BY <1>1 DEF Begun
  <2>2. \A i \in DOMAIN res' : ResultOf(i)' = ToDo BY <2>1 DEF ResultOf, ToDo, Taken
  <2>3. Answers' = [i \in OpsOf(work, phase + 1) |-> ToDo] BY <2>1, <2>2 DEF Answers
  <2>. QED BY <2>3 DEF Abstract!Begun, Abstract!ToDo, OpsOf, ToDo
<1>4. Edges' = Edges
  <2>1. Listed' = Listed BY <1>1 DEF Listed, Private
  <2>2. \A d, j : (Occupied(d, j)' <=> Occupied(d, j)) /\ EdgeIn(d, j)' = EdgeIn(d, j)
        BY <1>1 DEF Occupied, EdgeIn
  <2>3. ASSUME NEW f PROVE f \in Edges' <=> f \in Edges BY <2>1, <2>2, AnEdge
  <2>. QED BY <2>3
<1>5. Abstract!NextPhase
  <2>1. \A i \in DOMAIN Answers : Answers[i] # ToDo BY <1>2 DEF Answers
  <2>. QED BY <1>1, <1>3, <1>4, <2>1, Zenon DEF Abstract!NextPhase, Answers, Abstract!ToDo, ToDo
<1>. QED BY <1>5 DEF Implemented, Abstract!Next

LEMMA NextMaps ==
  Safe /\ Safe' /\ Results /\ [Next]_vars => [Abstract!Next]_(Abstract!vars)
<1>. SUFFICES ASSUME Safe, Safe', Results, [Next]_vars PROVE Implemented
     BY Zenon DEF Implemented, Stutters, Answers, Abstract!vars
<1>1. CASE Barrier BY <1>1, BarrierMaps
<1>2. CASE Over \/ UNCHANGED vars
  <2>1. UNCHANGED <<work, phase, res, eb, tail, th>> BY <1>2 DEF Over, vars
  <2>2. Listed' = Listed BY <2>1 DEF Listed, Private
  <2>3. \A d, j : (Occupied(d, j)' <=> Occupied(d, j)) /\ EdgeIn(d, j)' = EdgeIn(d, j)
        BY <2>1 DEF Occupied, EdgeIn
  <2>4. ASSUME NEW f PROVE f \in Edges' <=> f \in Edges BY <2>2, <2>3, AnEdge
  <2>5. \A u : Bound(u)' = Bound(u) BY <2>1 DEF Bound, Op
  <2>6. \A i : ResultOf(i)' = ResultOf(i) BY <2>1, <2>5 DEF ResultOf
  <2>7. Answers' = Answers BY <2>1, <2>6 DEF Answers
  <2>. QED BY <2>1, <2>4, <2>7 DEF Implemented, Stutters
<1>3. ASSUME NEW t \in Threads, Step(t) PROVE Implemented BY <1>3, ThreadMaps
<1>. QED BY <1>1, <1>2, <1>3, Zenon DEF Next

LEMMA InitMaps == Init => Abstract!Init
<1>. SUFFICES ASSUME Init PROVE Abstract!Init
     OBVIOUS
<1>1. /\ work \in Workloads /\ phase = 1 /\ res = Begun(work, 1) /\ tail = 1
      BY DEF Init
<1>2. Edges = {}
  <2>1. Listed = {} BY <1>1, SizesPositive DEF Listed, Blocks
  <2>2. ASSUME NEW f PROVE f \notin Edges BY <2>1, AnEdge
  <2>. QED BY <2>2
<1>3. Answers = Abstract!Begun(work, 1)
  <2>1. res = [i \in OpsOf(work, 1) |-> ToDo] BY <1>1 DEF Begun
  <2>2. \A i \in DOMAIN res : ResultOf(i) = ToDo BY <2>1 DEF ResultOf, ToDo, Taken
  <2>3. Answers = [i \in OpsOf(work, 1) |-> ToDo] BY <2>1, <2>2 DEF Answers
  <2>. QED BY <2>3 DEF Abstract!Begun, Abstract!ToDo, OpsOf, ToDo
<1>. QED BY <1>1, <1>2, <1>3, Zenon DEF Abstract!Init, Answers

(* Each insertion, increment and removal of a phase takes effect at one    *)
(* instant between its start and its return, and returns 1, 0 or -1 as if  *)
(* the operations had run one after another (the return values of          *)
(* stinger_insert_edge, stinger_incr_edge and stinger_remove_edge).        *)
THEOREM EdgeSetImplemented == Spec => ImplementsEdgeSet
<1>1. Safe /\ Safe' /\ Results /\ [Next]_vars => [Abstract!Next]_(Abstract!vars)
      BY NextMaps
<1>2. IInv /\ Places /\ Lists /\ Uniqueness => Safe BY DEF Safe
<1>3. Spec => Abstract!Init /\ [][Abstract!Next]_(Abstract!vars)
      BY <1>1, <1>2, InitMaps, Invariance, PlacesHold, ListsHold, UniqueHold, ResultsHold, PTL
         DEF Spec
<1>. QED BY <1>3 DEF ImplementsEdgeSet, Abstract!Spec

------------------------------------------------------------------------------
(* The counts.  A thread that fills or empties a slot adds to the block's  *)
(* count and to the degrees in steps of their own.  A slot Counts when its *)
(* edge is in the block's count, and Weighs when it is in the degrees.     *)
SomeAt(P, b, j) == \E t \in Threads : th[t].pc \in P /\ th[t].tmp = b /\ th[t].k = j
HandedOut == {b \in Blocks : b < tail /\ b + 1 < PoolSize}

Counts(b, j) ==
  /\ Occupied(b, j) \/ SomeAt({"onlyedge", "onlylarge", "degrees", "high"}, b, j)
  /\ ~SomeAt({"count", "clear"}, b, j)
Weighs(b, j) ==
  /\ Occupied(b, j) \/ SomeAt({"high"}, b, j)
  /\ ~SomeAt({"count", "onlyedge", "onlylarge", "degrees", "clear"}, b, j)

Counted(b) == {j \in Slots : Counts(b, j)}
Leaving(v) == {p \in HandedOut \X Slots : Weighs(p[1], p[2]) /\ eb[p[1]].vertex = v}
Entering(v) == {p \in HandedOut \X Slots : Weighs(p[1], p[2]) /\ eb[p[1]].edges[p[2]].nbr = v}

(* The slots above a mark are as new, but for those that are being filled; *)
(* an edge that a thread goes on to update is below the mark.              *)
BarePcs == {"recheck"} \cup FillPcs
Bare ==
  \A b \in Blocks : \A j \in Slots :
    eb[b].high <= j => eb[b].edges[j] = ZeroEdge \/ SomeAt(BarePcs, b, j)
Below(x) == x.pc \in UpdatePcs \cup {"unlockslot"} => x.k < eb[x.tmp].high

Totals ==
  /\ \A b \in HandedOut : eb[b].num = Cardinality(Counted(b))
  /\ \A v \in Vertices : /\ deg[v].out = Cardinality(Leaving(v))
                         /\ deg[v].in = Cardinality(Entering(v))
Sums == Totals /\ Bare /\ \A t \in Threads : Below(th[t])

(* Which slot of all a step stores in, and which count.                    *)
StorePcs ==
  {"lockslot", "release", "setnbr", "unlockslot", "weight", "recent", "restore", "lockweight",
   "reremove", "clear"}
LEMMA StoresHere ==
  ASSUME IInv, NEW t \in Threads, Step(t), ~NewBlock(t), NEW b \in Blocks
  PROVE  /\ \A j \in Slots :
              eb'[b].edges[j] # eb[b].edges[j] =>
                th[t].pc \in StorePcs /\ b = th[t].tmp /\ j = th[t].k
         /\ eb'[b].num = CASE th[t].pc = "count" /\ b = th[t].tmp  -> eb[b].num + 1
                           [] th[t].pc = "uncount" /\ b = th[t].tmp -> eb[b].num - 1
                           [] OTHER -> eb[b].num
<1>1. eb \in [Blocks -> EdgeBlock] /\ eb[b] \in EdgeBlock BY DEF IInv, TypeOK
<1>2. ASSUME th[t].pc \in SlotPcs PROVE th[t].tmp \in Blocks /\ th[t].k \in Slots
      BY <1>2, AtSlot
<1>3. ASSUME th[t].pc \in StorePcs, NEW v, StoresEdge(th[t].tmp, th[t].k, v)
      PROVE  /\ eb'[b].num = eb[b].num
             /\ \A j \in Slots :
                  eb'[b].edges[j] # eb[b].edges[j] => b = th[t].tmp /\ j = th[t].k
  <2>1. th[t].tmp \in Blocks /\ th[t].k \in Slots BY <1>2, <1>3 DEF StorePcs, SlotPcs
  <2>2. eb'[b].num = eb[b].num BY <1>1, <1>3, <2>1, SMT DEF StoresEdge, EdgeBlock
  <2>. QED BY <1>1, <1>3, <2>1, <2>2, SlotEdit
<1>4. CASE \/ LockSlot(t)
           \/ Release(t)
           \/ RestoreFirst(t)
           \/ UnlockSlot(t)
           \/ SetNeighbor(t)
           \/ WriteWeight(t)
           \/ WriteRecent(t)
           \/ LockWeight(t)
           \/ ClearSlot(t)
  <2>1. \E v : th[t].pc \in StorePcs /\ StoresEdge(th[t].tmp, th[t].k, v)
    <3>1. CASE LockSlot(t)
      <4>1. StoresEdge(th[t].tmp, th[t].k, [Slot(t) EXCEPT !.first = MARKER])
            BY <3>1, Zenon DEF StoresEdge, LockSlot, Slot
      <4>. QED BY <3>1, <4>1 DEF LockSlot, At, StorePcs
    <3>2. CASE Release(t)
      <4>1. StoresEdge(th[t].tmp, th[t].k, [Slot(t) EXCEPT !.first = th[t].sv])
            BY <3>2, Zenon DEF StoresEdge, Release, Slot
      <4>. QED BY <3>2, <4>1 DEF Release, At, StorePcs
    <3>3. CASE RestoreFirst(t)
      <4>1. StoresEdge(th[t].tmp, th[t].k, [Slot(t) EXCEPT !.first = th[t].sv])
            BY <3>3, Zenon DEF StoresEdge, RestoreFirst, Slot
      <4>. QED BY <3>3, <4>1 DEF RestoreFirst, At, StorePcs
    <3>4. CASE UnlockSlot(t)
      <4>1. StoresEdge(th[t].tmp, th[t].k, [Slot(t) EXCEPT !.first = Op(t).ts])
            BY <3>4, Zenon DEF StoresEdge, UnlockSlot, Slot
      <4>. QED BY <3>4, <4>1 DEF UnlockSlot, At, StorePcs
    <3>5. CASE SetNeighbor(t)
      <4>1. StoresEdge(th[t].tmp, th[t].k, [Slot(t) EXCEPT !.nbr = Op(t).to])
            BY <3>5, Zenon DEF StoresEdge, SetNeighbor, Slot
      <4>. QED BY <3>5, <4>1 DEF SetNeighbor, At, StorePcs
    <3>6. CASE WriteWeight(t)
      <4>1. StoresEdge(th[t].tmp, th[t].k, [Slot(t) EXCEPT !.weight = th[t].nw])
            BY <3>6, Zenon DEF StoresEdge, WriteWeight, Slot
      <4>. QED BY <3>6, <4>1 DEF WriteWeight, At, StorePcs
    <3>7. CASE WriteRecent(t)
      <4>1. StoresEdge(th[t].tmp, th[t].k, [Slot(t) EXCEPT !.recent = Op(t).ts])
            BY <3>7, Zenon DEF StoresEdge, WriteRecent, Slot
      <4>. QED BY <3>7, <4>1 DEF WriteRecent, At, StorePcs
    <3>8. CASE LockWeight(t)
      <4>1. StoresEdge(th[t].tmp, th[t].k, [Slot(t) EXCEPT !.weight = MARKER])
            BY <3>8, Zenon DEF StoresEdge, LockWeight, Slot
      <4>. QED BY <3>8, <4>1 DEF LockWeight, At, StorePcs
    <3>9. CASE ClearSlot(t)
      <4>1. StoresEdge(th[t].tmp, th[t].k, [Slot(t) EXCEPT !.nbr = Complement(Op(t).to)])
            BY <3>9, Zenon DEF StoresEdge, ClearSlot, Slot
      <4>. QED BY <3>9, <4>1 DEF ClearSlot, At, StorePcs
    <3>. QED BY <1>4, <3>1, <3>2, <3>3, <3>4, <3>5, <3>6, <3>7, <3>8, <3>9
  <2>2. th[t].pc \notin {"count", "uncount"} BY <2>1 DEF StorePcs
  <2>. QED BY <1>3, <2>1, <2>2
<1>5. CASE RecheckRemove(t)
  <2>1. /\ th[t].pc = "reremove"
        /\ \/ eb' = eb
           \/ StoresEdge(th[t].tmp, th[t].k, [Slot(t) EXCEPT !.weight = th[t].sv])
        BY <1>5, Zenon DEF RecheckRemove, At, StoresEdge, Slot
  <2>2. th[t].pc \in StorePcs BY <2>1 DEF StorePcs
  <2>. QED BY <1>3, <2>1, <2>2
<1>6. CASE CountEdge(t)
  <2>1. /\ th[t].pc = "count" /\ th[t].tmp \in Blocks
        /\ eb' = [eb EXCEPT ![th[t].tmp].num = @ + 1]
        BY <1>2, <1>6, Zenon DEF CountEdge, At, SlotPcs
  <2>. QED BY <1>1, <2>1, SMT DEF EdgeBlock
<1>7. CASE Uncount(t)
  <2>1. /\ th[t].pc = "uncount" /\ th[t].tmp \in Blocks
        /\ eb' = [eb EXCEPT ![th[t].tmp].num = @ - 1]
        BY <1>2, <1>7, Zenon DEF Uncount, At, SlotPcs
  <2>. QED BY <1>1, <2>1, SMT DEF EdgeBlock
<1>8. CASE ResetSmall(t) \/ ResetLarge(t) \/ LockStamp(t) \/ StoreLarge(t) \/ UnlockStamp(t)
  <2>1. th[t].pc \in {"onlyedge", "onlylarge", "lockstamp", "raise", "unlockstamp"}
        /\ th[t].tmp \in Blocks
        BY <1>2, <1>8 DEF ResetSmall, ResetLarge, LockStamp, StoreLarge, UnlockStamp, At, SlotPcs
  <2>2. CASE ResetSmall(t) \/ ResetLarge(t)
    <3>1. \/ eb' = [eb EXCEPT ![th[t].tmp].small = Op(t).ts]
          \/ eb' = [eb EXCEPT ![th[t].tmp].large = Op(t).ts]
          BY <2>2, Zenon DEF ResetSmall, ResetLarge
    <3>. QED BY <1>1, <2>1, <3>1, SMT DEF EdgeBlock
  <2>3. CASE LockStamp(t) BY <1>1, <2>1, <2>3, SMT DEF LockStamp, EdgeBlock
  <2>4. CASE StoreLarge(t) \/ UnlockStamp(t)
        BY <1>1, <2>1, <2>4, SMT DEF StoreLarge, UnlockStamp, EdgeBlock
  <2>. QED BY <1>8, <2>2, <2>3, <2>4
<1>9. CASE RaiseHigh(t)
  <2>1. /\ th[t].pc = "high" /\ th[t].tmp \in Blocks
        /\ \/ eb' = eb
           \/ eb' = [eb EXCEPT ![th[t].tmp].high = th[t].k + 1]
        BY <1>2, <1>9, Zenon DEF RaiseHigh, At, SlotPcs
  <2>. QED BY <1>1, <2>1, SMT DEF EdgeBlock
<1>10. CASE \/ \E i \in DOMAIN res : Take(t, i)
            \/ ReadActive(t) \/ CasActive(t) \/ RefuseLoop(t) \/ EtypeBegin(t) \/ EtypeWalk(t)
            \/ FindBlock(t) \/ FindSlot(t) \/ FindNext(t) \/ FindEnd(t)
            \/ Rescan(t) \/ ScanBlock(t) \/ ScanSlot(t) \/ ScanNext(t) \/ Recheck(t)
            \/ LockLink(t) \/ UnlockLink(t) \/ PoolExhausted(t)
            \/ ClaimPlace(t) \/ FillPlace(t) \/ LinkBlock(t)
            \/ CountDegrees(t) \/ ReadWeight(t) \/ ChangeTotal(t) \/ CheckSmall(t) \/ CheckLarge(t) \/ CompareLarge(t)
  <2>1. eb' = eb
        BY <1>10, Zenon
           DEF edgeVars, Take, ReadActive, CasActive, RefuseLoop, EtypeBegin, EtypeWalk,
               EtypeStep, FindBlock, FindSlot, FindNext, FindEnd, Rescan, ScanFrom, ScanBlock,
               ScanSlot, ScanNext, Recheck, LockLink, UnlockLink, PoolExhausted, ClaimPlace,
               FillPlace, LinkBlock, CountDegrees, ReadWeight, ChangeTotal, CheckSmall, CheckLarge, CompareLarge
  <2>2. th[t].pc \notin {"count", "uncount"}
        BY <1>10, Zenon
           DEF At, Take, ReadActive, CasActive, RefuseLoop, EtypeBegin, EtypeWalk,
               EtypeStep, FindBlock, FindSlot, FindNext, FindEnd, Rescan, ScanFrom, ScanBlock,
               ScanSlot, ScanNext, Recheck, LockLink, UnlockLink, PoolExhausted, ClaimPlace,
               FillPlace, LinkBlock, CountDegrees, ReadWeight, ChangeTotal, CheckSmall, CheckLarge, CompareLarge
  <2>. QED BY <2>1, <2>2
<1>. QED BY <1>4, <1>5, <1>6, <1>7, <1>8, <1>9, <1>10, Zenon DEF Step

(* Where the program counter goes from and to the steps that count.        *)
CountPcs == {"count", "onlyedge", "onlylarge", "degrees", "high", "clear"}
LEMMA CountMoves ==
  ASSUME IInv, NEW t \in Threads, Step(t), NEW x, NEW y, x = th[t], y = th'[t]
  PROVE  /\ x.pc \in {"lockslot", "uncount"} \cup FillPcs => y.tmp = x.tmp /\ y.k = x.k
         /\ x.pc = "lockslot" => y.pc = "recheck"
         /\ x.pc = "recheck" /\ x.k >= eb[x.tmp].high => y.pc = "setnbr"
         /\ x.pc = "setnbr" => y.pc = "count"
         /\ x.pc = "count" => y.pc \in {"onlyedge", "degrees"}
         /\ x.pc = "onlyedge" => y.pc = "onlylarge"
         /\ x.pc = "onlylarge" => y.pc = "degrees"
         /\ x.pc = "degrees" => y.pc = "high"
         /\ x.pc = "high" => y.pc = "unlockslot"
         /\ x.pc = "uncount" => y.pc = "clear"
         /\ x.pc \notin {"setnbr", "count", "onlyedge", "onlylarge", "degrees", "uncount"} =>
              y.pc \notin CountPcs
<1>1. th \in [Threads -> Locals] /\ x \in Locals BY DEF IInv, TypeOK
<1>2. /\ x.pc = "lockslot" => LockSlot(t)
      /\ x.pc = "recheck" => Recheck(t)
      /\ x.pc = "setnbr" => SetNeighbor(t)
      /\ x.pc = "count" => CountEdge(t)
      /\ x.pc = "onlyedge" => ResetSmall(t)
      /\ x.pc = "onlylarge" => ResetLarge(t)
      /\ x.pc = "degrees" => CountDegrees(t)
      /\ x.pc = "high" => RaiseHigh(t)
      /\ x.pc = "uncount" => Uncount(t)
  BY DEF Step, Take, ReadActive, CasActive, RefuseLoop, EtypeBegin, EtypeWalk,
         FindBlock, FindSlot, FindNext, FindEnd, Rescan, ScanBlock, ScanSlot,
         ScanNext, LockSlot, Recheck, Release, LockLink, UnlockLink, NewBlock,
         PoolExhausted, ClaimPlace, FillPlace, LinkBlock, SetNeighbor, CountEdge,
         ResetSmall, ResetLarge, CountDegrees, RaiseHigh, UnlockSlot, ReadWeight, ChangeTotal,
         WriteWeight, CheckSmall, CheckLarge, CompareLarge, LockStamp, StoreLarge, UnlockStamp, WriteRecent,
         RestoreFirst, LockWeight, RecheckRemove, Uncount, ClearSlot, At
<1>3. /\ x.pc = "setnbr" => Move(t, "count")
      /\ x.pc = "count" => Move(t, "onlyedge") \/ Move(t, "degrees")
      /\ x.pc = "onlyedge" => Move(t, "onlylarge")
      /\ x.pc = "onlylarge" => Move(t, "degrees")
      /\ x.pc = "degrees" => Move(t, "high")
      /\ x.pc = "high" => Move(t, "unlockslot")
      /\ x.pc = "uncount" => Move(t, "clear")
      BY <1>2, Zenon
         DEF SetNeighbor, CountEdge, ResetSmall, ResetLarge, CountDegrees, RaiseHigh, Uncount
<1>4. ASSUME x.pc = "lockslot" PROVE y.pc = "recheck" /\ y.tmp = x.tmp /\ y.k = x.k
  <2>1. Goto(t, [th[t] EXCEPT !.sv = Slot(t).first, !.pc = "recheck"])
        BY <1>2, <1>4, Zenon DEF LockSlot
  <2>. QED BY <1>1, <2>1, SMT DEF Goto, Locals
<1>5. ASSUME x.pc = "recheck", x.k >= eb[x.tmp].high PROVE y.pc = "setnbr"
  <2>1. Goto(t, [th[t] EXCEPT !.endk = eb[th[t].tmp].high, !.rv = 1, !.pc = "setnbr"])
        BY <1>2, <1>5, Zenon DEF Recheck
  <2>. QED BY <1>1, <2>1, SMT DEF Goto, Locals
<1>6. x.pc \in {"uncount"} \cup FillPcs => y.tmp = x.tmp /\ y.k = x.k
      BY <1>1, <1>3, Stepped DEF FillPcs
<1>7. /\ x.pc = "setnbr" => y.pc = "count"
      /\ x.pc = "count" => y.pc \in {"onlyedge", "degrees"}
      /\ x.pc = "onlyedge" => y.pc = "onlylarge"
      /\ x.pc = "onlylarge" => y.pc = "degrees"
      /\ x.pc = "degrees" => y.pc = "high"
      /\ x.pc = "high" => y.pc = "unlockslot"
      /\ x.pc = "uncount" => y.pc = "clear"
      BY <1>1, <1>3, Stepped
<1>8. ASSUME x.pc \notin {"setnbr", "count", "onlyedge", "onlylarge", "degrees", "uncount"}
      PROVE  y.pc \notin CountPcs
  <2>1. CASE \E i \in DOMAIN res : Take(t, i) BY <2>1, Starts DEF CountPcs
  <2>2. CASE Ends(t) BY <2>2, Ending, Returned DEF CountPcs
  <2>3. CASE Walks(t, x, y) BY <2>3 DEF Walks, CountPcs, AddPcs, FillPcs, RemovalPcs
  <2>4. CASE Meets(t, x, y)
    <3>1. y.pc \in {"lockweight", "readweight", "change"} BY <2>4, ExistingPc DEF Meets
    <3>. QED BY <3>1 DEF CountPcs
  <2>5. CASE Takes(t, x, y) BY <2>5 DEF Takes, CountPcs
  <2>6. CASE Stores(t, x, y)
        BY <1>7, <1>8, <2>6 DEF Stores, CountPcs, AddPcs, FillPcs, SettlePcs
  <2>. QED BY <2>1, <2>2, <2>3, <2>4, <2>5, <2>6, Course DEF Continues
<1>. QED BY <1>4, <1>5, <1>6, <1>7, <1>8

(* A slot is filled or emptied by one thread at a time.                    *)
LEMMA AloneAtSlot ==
  ASSUME Safe, EmptiedOnce, NEW t \in Threads, NEW u \in Threads, u # t,
         th[t].pc \in FillPcs \cup {"uncount", "clear"}, th[u].pc \in CountPcs
  PROVE  th[u].tmp # th[t].tmp \/ th[u].k # th[t].k
<1>1. IInv BY DEF Safe
<1>2. CASE th[t].pc \in FillPcs /\ th[u].pc # "clear"
  <2>1. HoldsSlot(t) /\ HoldsSlot(u) BY <1>2 DEF HoldsSlot, FillPcs, CountPcs
  <2>. QED BY <1>1, <2>1 DEF IInv, SlotLockExclusive
<1>3. CASE th[t].pc \notin FillPcs /\ th[u].pc = "clear"
      BY <1>3 DEF EmptiedOnce, EmptyPcs
<1>4. CASE (th[t].pc \in FillPcs) <=> th[u].pc = "clear"
  <2>1. th[t].pc # "idle" /\ th[u].pc # "idle" BY DEF FillPcs, CountPcs
  <2>2. /\ Fits(th[t].pc, Op(t).kind, th[t].tmp, th[t].k, th[t].endk, th[t].sv, th[t].held)
        /\ Fits(th[u].pc, Op(u).kind, th[u].tmp, th[u].k, th[u].endk, th[u].sv, th[u].held)
        BY <1>1, <2>1, Working
  <2>3. Op(t).kind = "remove" <=> Op(u).kind = "remove" BY <1>1, <2>1, KindsAgree
  <2>4. th[t].pc \in FillPcs => th[t].pc \in InsertPcs BY DEF FillPcs, InsertPcs
  <2>5. th[t].pc \notin FillPcs => th[t].pc \in RemovalPcs BY DEF RemovalPcs
  <2>6. th[u].pc # "clear" => th[u].pc \in InsertPcs BY DEF CountPcs, InsertPcs
  <2>7. th[u].pc = "clear" => th[u].pc \in RemovalPcs BY DEF RemovalPcs
  <2>. QED BY <1>4, <2>2, <2>3, <2>4, <2>5, <2>6, <2>7 DEF Fits
<1>. QED BY <1>2, <1>3, <1>4

(* What a step does to the slots of the blocks it does not add.            *)
Here(t, b, j) == b = th[t].tmp /\ j = th[t].k
LEMMA Refilled ==
  ASSUME Safe, Safe', Results, NEW t \in Threads, Step(t), ~NewBlock(t),
         NEW b \in Blocks, NEW j \in Slots
  PROVE  /\ ~(th[t].pc \in {"setnbr", "high", "clear"} /\ Here(t, b, j)) =>
              /\ Occupied(b, j)' <=> Occupied(b, j)
              /\ Occupied(b, j) => eb'[b].edges[j].nbr = eb[b].edges[j].nbr
         /\ ~(th[t].pc \in {"setnbr", "clear"} /\ Here(t, b, j)) =>
              eb'[b].edges[j].nbr = eb[b].edges[j].nbr
         /\ th[t].pc = "setnbr" /\ Here(t, b, j) => ~Occupied(b, j)
         /\ th[t].pc = "high" /\ Here(t, b, j) => Occupied(b, j)'
         /\ th[t].pc = "clear" /\ Here(t, b, j) => ~Occupied(b, j)'
<1>1. /\ IInv /\ IInv' /\ Places /\ Fills(t) /\ Edit(t)
      /\ eb[b].high \in Nat /\ eb'[b].high \in Nat /\ eb[b].high <= eb'[b].high
      /\ eb[b].edges[j].nbr \in Int /\ j \in Nat
  <2>1. IInv /\ IInv' /\ Places /\ Fills(t) BY DEF Safe, Uniqueness
  <2>2. eb[b].edges[j].nbr \in Int /\ j \in Nat
        BY <2>1, Numbers, BlockTypes DEF IInv, TypeOK
  <2>. QED BY <2>1, <2>2, StepEdits, HighRises
<1>2. ASSUME th[t].pc = "clear", Here(t, b, j) PROVE eb'[b].edges[j].nbr < 0
  <2>. DEFINE v == [Slot(t) EXCEPT !.nbr = Complement(Op(t).to)]
  <2>1. StoresEdge(b, j, v)
        BY <1>2, StepAt, Zenon DEF StoresEdge, ClearSlot, Slot, Here
  <2>2. Slot(t) \in Edge /\ Op(t).to \in Nat /\ eb \in [Blocks -> EdgeBlock]
        BY <1>1, <1>2, AtSlot, OpFields DEF SlotPcs, Vertices
  <2>3. v.nbr < 0 BY <2>2 DEF Edge, Complement
  <2>. HIDE DEF v
  <2>. QED BY <2>1, <2>2, <2>3, SlotEdit
<1>3. ASSUME ~(th[t].pc \in {"setnbr", "clear"} /\ Here(t, b, j))
      PROVE  eb'[b].edges[j].nbr = eb[b].edges[j].nbr
  <2>1. CASE eb'[b].edges[j] = eb[b].edges[j] BY <2>1
  <2>2. CASE eb'[b].edges[j] # eb[b].edges[j]
    <3>1. Here(t, b, j) BY <1>1, <2>2, StoresHere DEF Here
    <3>. QED BY <1>1, <1>3, <3>1 DEF Edit, Here
  <2>. QED BY <2>1, <2>2
<1>4. ASSUME ~(th[t].pc \in {"setnbr", "high", "clear"} /\ Here(t, b, j))
      PROVE  Occupied(b, j)' <=> Occupied(b, j)
  <2>1. ~Shows(t, b, j) BY <1>4 DEF Shows, Here
  <2>2. eb'[b].edges[j].nbr = eb[b].edges[j].nbr BY <1>3, <1>4
  <2>3. Occupied(b, j)' => Occupied(b, j) BY <1>1, <2>1, Shown
  <2>4. Occupied(b, j) => Occupied(b, j)' BY <1>1, <2>2 DEF Occupied
  <2>. QED BY <2>3, <2>4
<1>5. ASSUME th[t].pc = "setnbr", Here(t, b, j) PROVE ~Occupied(b, j)
      BY <1>1, <1>5 DEF Places, PlaceOK, Here
<1>6. ASSUME th[t].pc = "high", Here(t, b, j) PROVE Occupied(b, j)'
  <2>1. eb'[b].edges[j].nbr = eb[b].edges[j].nbr BY <1>3, <1>6
  <2>2. Slot(t).nbr = Op(t).to /\ Op(t).to \in Nat
        BY <1>1, <1>6, OpFields DEF Fills, FillPcs, Vertices
  <2>3. j < eb'[b].high BY <1>1, <1>6, StepAt, RaisedHigh DEF Here
  <2>. QED BY <1>6, <2>1, <2>2, <2>3 DEF Occupied, Slot, Here
<1>7. ASSUME th[t].pc = "clear", Here(t, b, j) PROVE ~Occupied(b, j)'
  <2>1. eb' \in [Blocks -> EdgeBlock] BY <1>1 DEF IInv, TypeOK
  <2>2. eb'[b].edges[j].nbr \in Int BY <2>1, SMT DEF EdgeBlock, Edge
  <2>. QED BY <1>2, <1>7, <2>2 DEF Occupied
<1>. QED BY <1>3, <1>4, <1>5, <1>6, <1>7

(* Which threads are where they count, after a step.                       *)
LEMMA SomeAtStays ==
  ASSUME IInv, NEW t \in Threads, Step(t), NEW P \in SUBSET CountPcs, NEW b, NEW j,
         ~Here(t, b, j) \/ (th[t].pc \notin P /\ th'[t].pc \notin P)
  PROVE  SomeAt(P, b, j)' <=> SomeAt(P, b, j)
<1>1. \A u \in Threads : u # t => th'[u] = th[u] BY OthersKeep
<1>2. /\ th[t].pc \in P /\ th[t].tmp = b /\ th[t].k = j => Here(t, b, j) BY DEF Here
<1>3. /\ th'[t].pc \in P /\ th'[t].tmp = b /\ th'[t].k = j => Here(t, b, j)
      BY CountMoves DEF Here, FillPcs
<1>. QED BY <1>1, <1>2, <1>3 DEF SomeAt

(* A slot is counted, and weighed, in the step that says so.               *)
LEMMA SlotCounts ==
  ASSUME Safe, Safe', Results, NEW t \in Threads, Step(t), ~NewBlock(t),
         NEW b \in Blocks, NEW j \in Slots
  PROVE  /\ Counts(b, j)' <=> \/ Counts(b, j) /\ ~(th[t].pc = "uncount" /\ Here(t, b, j))
                              \/ th[t].pc = "count" /\ Here(t, b, j)
         /\ Weighs(b, j)' <=> \/ Weighs(b, j) /\ ~(th[t].pc = "uncount" /\ Here(t, b, j))
                              \/ th[t].pc = "degrees" /\ Here(t, b, j)
         /\ th[t].pc = "count" /\ Here(t, b, j) => ~Counts(b, j)
         /\ th[t].pc = "degrees" /\ Here(t, b, j) => ~Weighs(b, j)
         /\ th[t].pc = "uncount" /\ Here(t, b, j) => Counts(b, j) /\ Weighs(b, j)
<1>1. IInv /\ EmptiedOnce /\ CountPcs \in SUBSET CountPcs BY DEF Safe, Results
<1>2. ASSUME ~Here(t, b, j) \/ th[t].pc \notin {"setnbr", "uncount"} \cup CountPcs
      PROVE  (Counts(b, j)' <=> Counts(b, j)) /\ (Weighs(b, j)' <=> Weighs(b, j))
  <2>1. Occupied(b, j)' <=> Occupied(b, j) BY <1>2, Refilled DEF CountPcs
  <2>2. ~Here(t, b, j) \/ (th[t].pc \notin CountPcs /\ th'[t].pc \notin CountPcs)
        BY <1>1, <1>2, CountMoves DEF CountPcs
  <2>3. \A P \in SUBSET CountPcs : SomeAt(P, b, j)' <=> SomeAt(P, b, j)
        BY <1>1, <2>2, SomeAtStays
  <2>. QED BY <2>1, <2>3 DEF Counts, Weighs, CountPcs
<1>3. ASSUME Here(t, b, j), th[t].pc \in {"setnbr", "uncount"} \cup CountPcs,
             NEW P \in SUBSET CountPcs
      PROVE  /\ SomeAt(P, b, j) <=> th[t].pc \in P
             /\ SomeAt(P, b, j)' <=> th'[t].pc \in P
  <2>1. th[t].pc \in FillPcs \cup {"uncount", "clear"} BY <1>3 DEF FillPcs, CountPcs
  <2>2. \A u \in Threads : u # t => th'[u] = th[u] BY <1>1, OthersKeep
  <2>3. \A u \in Threads : u # t /\ th[u].pc \in P => ~(th[u].tmp = b /\ th[u].k = j)
        BY <1>1, <1>3, <2>1, AloneAtSlot DEF Here
  <2>4. th'[t].pc \in P => th'[t].tmp = b /\ th'[t].k = j
        BY <1>1, <1>3, CountMoves DEF Here, FillPcs, CountPcs
  <2>. QED BY <1>3, <2>2, <2>3, <2>4 DEF SomeAt, Here
<1>4. ASSUME Here(t, b, j), th[t].pc \in {"setnbr", "uncount"} \cup CountPcs
      PROVE  /\ Counts(b, j) <=> /\ Occupied(b, j) \/ th[t].pc \in {"onlyedge", "onlylarge", "degrees", "high"}
                                 /\ th[t].pc \notin {"count", "clear"}
             /\ Weighs(b, j) <=> /\ Occupied(b, j) \/ th[t].pc = "high"
                                 /\ th[t].pc \notin {"count", "onlyedge", "onlylarge", "degrees", "clear"}
             /\ Counts(b, j)' <=>
                  /\ Occupied(b, j)' \/ th'[t].pc \in {"onlyedge", "onlylarge", "degrees", "high"}
                  /\ th'[t].pc \notin {"count", "clear"}
             /\ Weighs(b, j)' <=> /\ Occupied(b, j)' \/ th'[t].pc = "high"
                                  /\ th'[t].pc \notin {"count", "onlyedge", "onlylarge", "degrees", "clear"}
      BY <1>3, <1>4 DEF Counts, Weighs, CountPcs
<1>5. ASSUME Here(t, b, j), th[t].pc = "uncount" PROVE Occupied(b, j)
      BY <1>5 DEF Results, Removes, EmptyPcs, Found, Here
<1>6. CASE Here(t, b, j) /\ th[t].pc \in {"setnbr", "uncount"} \cup CountPcs
      BY <1>1, <1>4, <1>5, <1>6, CountMoves, Refilled DEF CountPcs
<1>7. CASE ~(Here(t, b, j) /\ th[t].pc \in {"setnbr", "uncount"} \cup CountPcs)
      BY <1>2, <1>7 DEF CountPcs
<1>. QED BY <1>6, <1>7

(* An edge that a thread updates, or has filled in, stays below the mark.  *)
LEMMA ThreadBelow ==
  ASSUME Safe, Safe', Results, NEW t \in Threads, Step(t), NEW u \in Threads, Below(th[u])
  PROVE  Below(th[u])'
<1>1. IInv /\ IInv' BY DEF Safe
<1>2. CASE u # t
  <2>1. th'[u] = th[u] BY <1>1, <1>2, OthersKeep
  <2>2. ASSUME th[u].pc \in UpdatePcs \cup {"unlockslot"} PROVE th[u].k < eb'[th[u].tmp].high
    <3>1. th[u].pc \in SlotPcs BY <2>2 DEF UpdatePcs, SlotPcs
    <3>2. th[u].tmp \in Blocks /\ th[u].k \in Nat BY <1>1, <3>1, AtSlot DEF Slots
    <3>3. th[u].k < eb[th[u].tmp].high BY <2>2 DEF Below
    <3>. QED BY <1>1, <3>2, <3>3, HighRises
  <2>. QED BY <2>1, <2>2 DEF Below
<1>3. CASE u = t
  <2>. SUFFICES ASSUME NEW x, NEW y, x = th[t], y = th'[t],
                       y.pc \in UpdatePcs \cup {"unlockslot"}
                PROVE  y.k < eb'[y.tmp].high
       BY <1>3 DEF Below
  <2>1. Continues(t, x, y)
    <3>1. ASSUME NEW i \in DOMAIN res, Take(t, i) PROVE FALSE
          BY <1>1, <3>1, Starts DEF UpdatePcs
    <3>2. ASSUME Ends(t) PROVE FALSE BY <1>1, <3>2, Ending, Returned DEF UpdatePcs
    <3>. QED BY <1>1, <3>1, <3>2, Course
  <2>2. ASSUME x.tmp \in Blocks, x.k \in Nat, y.tmp = x.tmp, y.k = x.k, x.k < eb[x.tmp].high
        PROVE  y.k < eb'[y.tmp].high
        BY <1>1, <2>2, HighRises
  <2>3. x.pc \in SlotPcs => x.tmp \in Blocks /\ x.k \in Nat BY <1>1, AtSlot DEF Slots
  <2>4. CASE Walks(t, x, y) BY <2>4 DEF Walks, AddPcs
  <2>5. CASE Meets(t, x, y)
        BY <2>2, <2>3, <2>5 DEF Meets, Found, Occupied, SlotPcs
  <2>6. CASE Takes(t, x, y) BY <2>6 DEF Takes, UpdatePcs
  <2>7. CASE Stores(t, x, y) /\ x.pc = "high"
    <3>1. x.k < eb'[x.tmp].high BY <1>1, <2>7, StepAt, RaisedHigh
    <3>. QED BY <2>7, <3>1 DEF Stores
  <2>8. CASE Stores(t, x, y) /\ x.pc # "high"
    <3>1. x.pc \in UpdatePcs \cup {"unlockslot"}
          BY <2>8 DEF Stores, UpdatePcs, AddPcs, FillPcs, SettlePcs
    <3>2. x.k < eb[x.tmp].high /\ x.pc \in SlotPcs
          BY <1>3, <3>1 DEF Below, UpdatePcs, SlotPcs
    <3>. QED BY <2>2, <2>3, <2>8, <3>2 DEF Stores
  <2>. QED BY <2>1, <2>4, <2>5, <2>6, <2>7, <2>8 DEF Continues
<1>. QED BY <1>2, <1>3

(* Above the mark only the slot is touched whose lock is then held.        *)
LEMMA ThreadBare ==
  ASSUME Safe, Safe', Results, NEW t \in Threads, Step(t), Bare, Below(th[t])
  PROVE  Bare'
<1>1. IInv /\ IInv' /\ Places BY DEF Safe
<1>2. \A u \in Threads : u # t => th'[u] = th[u] BY <1>1, OthersKeep
<1>. SUFFICES ASSUME NEW b \in Blocks, NEW j \in Slots, eb'[b].high <= j
              PROVE  eb'[b].edges[j] = ZeroEdge \/ SomeAt(BarePcs, b, j)'
     BY DEF Bare, BarePcs
<1>3. /\ eb[b].high \in Nat /\ eb'[b].high \in Nat /\ eb[b].high <= eb'[b].high /\ j \in Nat
      /\ eb[b].high <= j
      BY <1>1, HighRises, Numbers
<1>4. CASE SomeAt(BarePcs, b, j)
  <2>1. PICK u \in Threads : th[u].pc \in BarePcs /\ th[u].tmp = b /\ th[u].k = j
        BY <1>4 DEF SomeAt
  <2>2. CASE u # t BY <1>2, <2>1, <2>2 DEF SomeAt
  <2>3. CASE u = t /\ th[t].pc = "recheck"
    <3>1. th'[t].pc = "setnbr" BY <1>1, <1>3, <2>1, <2>3, CountMoves
    <3>2. Continues(t, th[t], th'[t])
      <4>1. ASSUME NEW i \in DOMAIN res, Take(t, i) PROVE FALSE BY <1>1, <4>1, <2>3, Starts
      <4>2. ASSUME Ends(t) PROVE FALSE BY <1>1, <4>2, <2>3, Ending
      <4>. QED BY <1>1, <4>1, <4>2, Course
    <3>3. Takes(t, th[t], th'[t])
          BY <1>1, <2>3, <3>1, <3>2, ExistingPc
             DEF Continues, Walks, Meets, Stores, AddPcs, FillPcs, SettlePcs
    <3>. QED BY <2>1, <2>3, <3>3 DEF Takes, SomeAt, BarePcs, FillPcs
  <2>4. CASE u = t /\ th[t].pc # "recheck"
    <3>1. th[t].pc \in FillPcs BY <2>1, <2>4 DEF BarePcs
    <3>2. th[t].pc # "high"
      <4>1. th[t].pc = "high" => th[t].k < eb'[b].high BY <1>1, <2>1, <2>4, StepAt, RaisedHigh
      <4>. QED BY <1>3, <2>1, <2>4, <4>1
    <3>3. th'[t].tmp = b /\ th'[t].k = j /\ th'[t].pc \in FillPcs
          BY <1>1, <2>1, <2>4, <3>1, <3>2, CountMoves DEF FillPcs
    <3>. QED BY <3>3 DEF SomeAt, BarePcs
  <2>. QED BY <2>2, <2>3, <2>4
<1>5. CASE ~SomeAt(BarePcs, b, j)
  <2>1. eb[b].edges[j] = ZeroEdge BY <1>3, <1>5 DEF Bare, BarePcs
  <2>2. CASE NewBlock(t)
    <3>1. b # tail => eb'[b] = eb[b] BY <1>1, <2>2, BlockAdded
    <3>2. ASSUME b = tail PROVE eb'[b].edges[j] = ZeroEdge
      <4>. SUFFICES ASSUME NEW o, o = Op(t) PROVE eb'[b].edges[j] = ZeroEdge
           OBVIOUS
      <4>1. eb'[b] = BlockWith(o) BY <1>1, <2>2, <3>2, BlockAdded
      <4>2. BlockWith(o).high = 1 BY DEF BlockWith
      <4>3. j # 0 BY <1>3, <4>1, <4>2
      <4>4. BlockWith(o).edges[j] = ZeroEdge BY <4>3 DEF BlockWith
      <4>. QED BY <4>1, <4>4
    <3>. QED BY <2>1, <3>1, <3>2
  <2>3. CASE ~NewBlock(t) /\ eb'[b].edges[j] # eb[b].edges[j]
    <3>1. th[t].pc \in StorePcs /\ b = th[t].tmp /\ j = th[t].k
          BY <1>1, <2>3, StoresHere
    <3>2. th[t].pc \notin UpdatePcs \cup {"unlockslot"} BY <1>3, <3>1 DEF Below
    <3>3. th[t].pc \notin {"reremove", "clear", "lockweight"}
      <4>1. th[t].pc \in EmptyPcs => Found(t) BY DEF Results, Removes
      <4>2. ASSUME th[t].pc = "lockweight" PROVE Found(t)
        <5>1. Slot(t).weight # MARKER BY <1>1, <4>2, StepAt, WeightLocked
        <5>. QED BY <4>2, <5>1 DEF Results, Removes
      <4>. QED BY <1>3, <3>1, <4>1, <4>2 DEF EmptyPcs, Found, Occupied
    <3>4. th[t].pc # "release" BY <1>1, <1>3, <3>1 DEF Places, PlaceOK
    <3>5. th[t].pc # "setnbr" BY <1>5, <3>1 DEF SomeAt, BarePcs, FillPcs
    <3>6. th[t].pc = "lockslot" BY <3>1, <3>2, <3>3, <3>4, <3>5 DEF StorePcs, UpdatePcs
    <3>7. th'[t].pc = "recheck" /\ th'[t].tmp = b /\ th'[t].k = j
          BY <1>1, <3>1, <3>6, CountMoves
    <3>. QED BY <3>7 DEF SomeAt, BarePcs
  <2>. QED BY <2>1, <2>2, <2>3
<1>. QED BY <1>4, <1>5

(* The degrees a step leaves, and the blocks it leaves handed out.         *)
Raised(u, w)  == deg' = [deg EXCEPT ![u].out = @ + 1, ![w].in = @ + 1]
Lowered(u, w) == deg' = [deg EXCEPT ![u].out = @ - 1, ![w].in = @ - 1]
LEMMA DegreesRaised ==
  ASSUME deg \in [Vertices -> [in : Int, out : Int]], NEW u, NEW w, NEW v \in Vertices,
         Raised(u, w)
  PROVE  /\ deg'[v].out = deg[v].out + (IF v = u THEN 1 ELSE 0)
         /\ deg'[v].in = deg[v].in + (IF v = w THEN 1 ELSE 0)
BY DEF Raised

LEMMA DegreesLowered ==
  ASSUME deg \in [Vertices -> [in : Int, out : Int]], NEW u, NEW w, NEW v \in Vertices,
         Lowered(u, w)
  PROVE  /\ deg'[v].out = deg[v].out - (IF v = u THEN 1 ELSE 0)
         /\ deg'[v].in = deg[v].in - (IF v = w THEN 1 ELSE 0)
BY DEF Lowered

LEMMA CountedSteps ==
  ASSUME NEW t \in Threads, Step(t)
  PROVE  /\ th[t].pc = "degrees" => CountDegrees(t)
         /\ th[t].pc = "uncount" => Uncount(t)
         /\ th[t].pc \notin {"degrees", "uncount"} => deg' = deg \/ NewBlock(t)
         /\ tail' # tail => NewBlock(t) \/ PoolExhausted(t)
<1>1. CASE CountDegrees(t) BY <1>1 DEF CountDegrees, At, poolVars
<1>2. CASE Uncount(t) BY <1>2 DEF Uncount, At, poolVars
<1>3. CASE NewBlock(t) BY <1>3 DEF NewBlock, At
<1>4. CASE PoolExhausted(t) BY <1>4 DEF PoolExhausted, At
<1>5. CASE \/ \E i \in DOMAIN res : Take(t, i)
           \/ ReadActive(t) \/ CasActive(t) \/ RefuseLoop(t) \/ EtypeBegin(t) \/ EtypeWalk(t)
           \/ FindBlock(t) \/ FindSlot(t) \/ FindNext(t) \/ FindEnd(t)
           \/ Rescan(t) \/ ScanBlock(t) \/ ScanSlot(t) \/ ScanNext(t)
           \/ LockSlot(t) \/ Recheck(t) \/ Release(t) \/ LockLink(t) \/ UnlockLink(t)
           \/ ClaimPlace(t) \/ FillPlace(t) \/ LinkBlock(t)
           \/ SetNeighbor(t) \/ CountEdge(t) \/ ResetSmall(t) \/ ResetLarge(t) \/ RaiseHigh(t) \/ UnlockSlot(t)
           \/ ReadWeight(t) \/ ChangeTotal(t) \/ WriteWeight(t)
           \/ CheckSmall(t) \/ CheckLarge(t) \/ CompareLarge(t) \/ LockStamp(t) \/ StoreLarge(t) \/ UnlockStamp(t) \/ WriteRecent(t)
           \/ RestoreFirst(t) \/ LockWeight(t) \/ RecheckRemove(t) \/ ClearSlot(t)
  <2>1. UNCHANGED <<deg, tail>>
        BY <1>5, Zenon
           DEF countVars, poolVars, Take, ReadActive, CasActive, RefuseLoop, EtypeBegin,
               EtypeWalk, EtypeStep, FindBlock, FindSlot, FindNext, FindEnd, Rescan, ScanFrom,
               ScanBlock, ScanSlot, ScanNext, LockSlot, Recheck, Release, LockLink, UnlockLink,
               ClaimPlace, FillPlace, LinkBlock, SetNeighbor, CountEdge, ResetSmall, ResetLarge, RaiseHigh,
               UnlockSlot, ReadWeight, ChangeTotal, WriteWeight, CheckSmall, CheckLarge, CompareLarge, LockStamp,
               StoreLarge, UnlockStamp, WriteRecent, RestoreFirst, LockWeight, RecheckRemove, ClearSlot
  <2>2. th[t].pc \notin {"degrees", "uncount"}
        BY <1>5, Zenon
           DEF At, Take, ReadActive, CasActive, RefuseLoop, EtypeBegin,
               EtypeWalk, EtypeStep, FindBlock, FindSlot, FindNext, FindEnd, Rescan, ScanFrom,
               ScanBlock, ScanSlot, ScanNext, LockSlot, Recheck, Release, LockLink, UnlockLink,
               ClaimPlace, FillPlace, LinkBlock, SetNeighbor, CountEdge, ResetSmall, ResetLarge, RaiseHigh,
               UnlockSlot, ReadWeight, ChangeTotal, WriteWeight, CheckSmall, CheckLarge, CompareLarge, LockStamp,
               StoreLarge, UnlockStamp, WriteRecent, RestoreFirst, LockWeight, RecheckRemove, ClearSlot
  <2>. QED BY <2>1, <2>2
<1>. QED BY <1>1, <1>2, <1>3, <1>4, <1>5, Zenon DEF Step

LEMMA HandedOutStays ==
  ASSUME IInv, NEW t \in Threads, Step(t), ~NewBlock(t)
  PROVE  HandedOut' = HandedOut
<1>1. tail \in Nat /\ PoolSize \in Nat BY SizesPositive DEF IInv, TypeOK
<1>2. CASE tail' = tail BY <1>2 DEF HandedOut
<1>3. CASE PoolExhausted(t)
  <2>1. tail + 1 >= PoolSize /\ tail' = tail + 1 BY <1>3 DEF PoolExhausted
  <2>. QED BY <1>1, <2>1, Numbers DEF HandedOut
<1>. QED BY <1>2, <1>3, CountedSteps

(* An edge is not weighed while it is put in its slot, or taken out.       *)
LEMMA Unweighed ==
  ASSUME Safe, Results, NEW t \in Threads, th[t].pc \in {"setnbr", "clear"},
         NEW b, NEW j, Here(t, b, j)
  PROVE  ~Weighs(b, j)
<1>1. CASE th[t].pc = "clear" BY <1>1 DEF Weighs, SomeAt, Here
<1>2. CASE th[t].pc = "setnbr"
  <2>1. ~Occupied(b, j) BY <1>2 DEF Safe, Places, PlaceOK, Here
  <2>2. ASSUME NEW u \in Threads, th[u].pc = "high" PROVE ~(th[u].tmp = b /\ th[u].k = j)
    <3>1. u # t BY <1>2, <2>2
    <3>. QED BY <1>2, <2>2, <3>1, AloneAtSlot DEF Results, Here, FillPcs, CountPcs
  <2>. QED BY <2>1, <2>2 DEF Weighs, SomeAt
<1>. QED BY <1>1, <1>2

(* The pairs of the degrees change by the pair of the thread's own slot.   *)
LEMMA PairCounts ==
  ASSUME Safe, Safe', Results, NEW t \in Threads, Step(t), ~NewBlock(t), NEW v,
         NEW b \in Blocks, NEW j \in Slots
  PROVE  /\ (Weighs(b, j) /\ eb[b].vertex = v)' <=>
              \/ Weighs(b, j) /\ eb[b].vertex = v /\ ~(th[t].pc = "uncount" /\ Here(t, b, j))
              \/ th[t].pc = "degrees" /\ Here(t, b, j) /\ eb[b].vertex = v
         /\ (Weighs(b, j) /\ eb[b].edges[j].nbr = v)' <=>
              \/ /\ Weighs(b, j) /\ eb[b].edges[j].nbr = v
                 /\ ~(th[t].pc = "uncount" /\ Here(t, b, j))
              \/ th[t].pc = "degrees" /\ Here(t, b, j) /\ Op(t).to = v
<1>1. eb'[b].vertex = eb[b].vertex BY StepEdits DEF Safe, Edit
<1>2. Weighs(b, j)' <=> \/ Weighs(b, j) /\ ~(th[t].pc = "uncount" /\ Here(t, b, j))
                        \/ th[t].pc = "degrees" /\ Here(t, b, j)
      BY SlotCounts
<1>3. ASSUME Weighs(b, j) \/ (th[t].pc = "degrees" /\ Here(t, b, j))
      PROVE  eb'[b].edges[j].nbr = eb[b].edges[j].nbr
  <2>1. ~(th[t].pc \in {"setnbr", "clear"} /\ Here(t, b, j)) BY <1>3, Unweighed
  <2>. QED BY <2>1, Refilled
<1>4. th[t].pc = "degrees" /\ Here(t, b, j) => eb[b].edges[j].nbr = Op(t).to /\ ~Weighs(b, j)
  <2>1. Fills(t) BY DEF Safe, Uniqueness
  <2>. QED BY <2>1, SlotCounts DEF Fills, FillPcs, Slot, Here
<1>. QED BY <1>1, <1>2, <1>3, <1>4

LEMMA SlotPairs ==
  /\ IsFiniteSet(Slots) /\ IsFiniteSet(Blocks \X Slots)
  /\ HandedOut \X Slots \subseteq Blocks \X Slots
<1>1. IsFiniteSet(Slots) BY FS_Interval, SizesPositive DEF Slots
<1>2. IsFiniteSet(Blocks) BY FS_Interval, SizesPositive DEF Blocks
<1>. QED BY <1>1, <1>2, FS_Product DEF HandedOut

LEMMA OneMore ==
  ASSUME NEW U, IsFiniteSet(U), NEW A \in SUBSET U, NEW B \in SUBSET U, NEW p
  PROVE  /\ IsFiniteSet(A) /\ Cardinality(A) \in Nat
         /\ p \in U /\ p \notin A /\ (\A q \in U : q \in B <=> q \in A \/ q = p) =>
              Cardinality(B) = Cardinality(A) + 1
         /\ p \in A /\ (\A q \in U : q \in B <=> q \in A /\ q # p) =>
              Cardinality(B) = Cardinality(A) - 1
         /\ (\A q \in U : q \in B <=> q \in A) => B = A
<1>1. IsFiniteSet(A) /\ Cardinality(A) \in Nat BY FS_Subset, FS_CardinalityType
<1>2. ASSUME p \in U, p \notin A, \A q \in U : q \in B <=> q \in A \/ q = p
      PROVE  Cardinality(B) = Cardinality(A) + 1
  <2>1. B = A \cup {p} BY <1>2
  <2>. QED BY <1>1, <1>2, <2>1, FS_AddElement
<1>3. ASSUME p \in A, \A q \in U : q \in B <=> q \in A /\ q # p
      PROVE  Cardinality(B) = Cardinality(A) - 1
  <2>1. B = A \ {p} BY <1>3
  <2>. QED BY <1>1, <1>3, <2>1, FS_RemoveElement
<1>. QED BY <1>1, <1>2, <1>3

(* The steps that leave the pool alone.                                    *)
LEMMA ThreadTotals ==
  ASSUME Safe, Safe', Results, NEW t \in Threads, Step(t), ~NewBlock(t), Totals
  PROVE  Totals'
<1>. DEFINE x == th[t]
            p == <<x.tmp, x.k>>
<1>1. IInv /\ HandedOut' = HandedOut /\ HandedOut \subseteq Blocks
      BY HandedOutStays DEF Safe, HandedOut
<1>2. ASSUME x.pc \in {"count", "degrees", "uncount"}
      PROVE  /\ x.tmp \in HandedOut /\ x.k \in Slots
             /\ eb[x.tmp].vertex \in Vertices /\ Op(t).to \in Vertices
  <2>1. x.pc \in SlotPcs BY <1>2 DEF SlotPcs
  <2>. QED BY <1>1, <1>2, <2>1, SlotListed, OpFields DEF Listed, HandedOut
<1>3. ASSUME NEW b \in HandedOut PROVE eb'[b].num = Cardinality(Counted(b)')
  <2>1. b \in Blocks /\ eb[b].num = Cardinality(Counted(b)) BY <1>1, <1>3 DEF Totals
  <2>2. Counted(b) \in SUBSET Slots /\ Counted(b)' \in SUBSET Slots BY DEF Counted
  <2>3. \A j \in Slots :
          /\ j \in Counted(b)' <=>
               \/ j \in Counted(b) /\ ~(x.pc = "uncount" /\ b = x.tmp /\ j = x.k)
               \/ x.pc = "count" /\ b = x.tmp /\ j = x.k
          /\ x.pc = "count" /\ b = x.tmp /\ j = x.k => j \notin Counted(b)
          /\ x.pc = "uncount" /\ b = x.tmp /\ j = x.k => j \in Counted(b)
        BY <2>1, SlotCounts DEF Here, Counted
  <2>4. CASE x.pc = "count" /\ b = x.tmp
    <3>1. Cardinality(Counted(b)') = Cardinality(Counted(b)) + 1
          BY <1>2, <2>2, <2>3, <2>4, OneMore, SlotPairs
    <3>. QED BY <1>1, <2>1, <2>4, <3>1, StoresHere
  <2>5. CASE x.pc = "uncount" /\ b = x.tmp
    <3>1. Cardinality(Counted(b)') = Cardinality(Counted(b)) - 1
          BY <1>2, <2>2, <2>3, <2>5, OneMore, SlotPairs
    <3>. QED BY <1>1, <2>1, <2>5, <3>1, StoresHere
  <2>6. CASE ~(x.pc \in {"count", "uncount"} /\ b = x.tmp)
    <3>1. Counted(b)' = Counted(b) BY <2>2, <2>3, <2>6
    <3>. QED BY <1>1, <2>1, <2>6, <3>1, StoresHere
  <2>. QED BY <2>4, <2>5, <2>6
<1>4. ASSUME NEW v \in Vertices
      PROVE  /\ deg'[v].out = Cardinality(Leaving(v)')
             /\ deg'[v].in = Cardinality(Entering(v)')
  <2>. DEFINE U == Blocks \X Slots
  <2>1. /\ deg[v].out = Cardinality(Leaving(v)) /\ deg[v].in = Cardinality(Entering(v))
        /\ deg \in [Vertices -> [in : Int, out : Int]]
        BY <1>1, <1>4 DEF Totals, IInv, TypeOK
  <2>2. /\ IsFiniteSet(U)
        /\ Leaving(v) \in SUBSET U /\ Leaving(v)' \in SUBSET U
        /\ Entering(v) \in SUBSET U /\ Entering(v)' \in SUBSET U
        BY <1>1, SlotPairs DEF Leaving, Entering
  <2>3. ASSUME NEW q \in HandedOut \X Slots
        PROVE  /\ q \in Leaving(v)' <=>
                    \/ q \in Leaving(v) /\ ~(x.pc = "uncount" /\ q = p)
                    \/ x.pc = "degrees" /\ q = p /\ eb[x.tmp].vertex = v
               /\ q \in Entering(v)' <=>
                    \/ q \in Entering(v) /\ ~(x.pc = "uncount" /\ q = p)
                    \/ x.pc = "degrees" /\ q = p /\ Op(t).to = v
               /\ x.pc = "degrees" /\ q = p => q \notin Leaving(v) /\ q \notin Entering(v)
               /\ x.pc = "uncount" /\ q = p => Weighs(q[1], q[2])
    <3>1. PICK b \in HandedOut, j \in Slots : q = <<b, j>> BY <2>3
    <3>2. b \in Blocks /\ (Here(t, b, j) <=> q = p) BY <1>1, <3>1 DEF Here
    <3>3. /\ q \in Leaving(v) <=> Weighs(b, j) /\ eb[b].vertex = v
          /\ q \in Leaving(v)' <=> (Weighs(b, j) /\ eb[b].vertex = v)'
          /\ q \in Entering(v) <=> Weighs(b, j) /\ eb[b].edges[j].nbr = v
          /\ q \in Entering(v)' <=> (Weighs(b, j) /\ eb[b].edges[j].nbr = v)'
          BY <1>1, <3>1 DEF Leaving, Entering
    <3>4. q = p => b = x.tmp BY <3>1
    <3>. HIDE DEF p
    <3>5. /\ (Weighs(b, j) /\ eb[b].vertex = v)' <=>
               \/ Weighs(b, j) /\ eb[b].vertex = v /\ ~(th[t].pc = "uncount" /\ Here(t, b, j))
               \/ th[t].pc = "degrees" /\ Here(t, b, j) /\ eb[b].vertex = v
          /\ (Weighs(b, j) /\ eb[b].edges[j].nbr = v)' <=>
               \/ /\ Weighs(b, j) /\ eb[b].edges[j].nbr = v
                  /\ ~(th[t].pc = "uncount" /\ Here(t, b, j))
               \/ th[t].pc = "degrees" /\ Here(t, b, j) /\ Op(t).to = v
          BY <3>2, PairCounts
    <3>6. /\ th[t].pc = "degrees" /\ q = p => ~Weighs(b, j)
          /\ th[t].pc = "uncount" /\ q = p => Weighs(b, j)
          BY <3>2, SlotCounts
    <3>. QED BY <3>1, <3>2, <3>3, <3>4, <3>5, <3>6
  <2>4. \A q \in U \ (HandedOut \X Slots) :
          /\ q \notin Leaving(v) /\ q \notin Leaving(v)'
          /\ q \notin Entering(v) /\ q \notin Entering(v)'
        BY <1>1 DEF Leaving, Entering
  <2>5. x.pc \in {"degrees", "uncount"} => p \in HandedOut \X Slots /\ p \in U
        BY <1>1, <1>2
  <2>. HIDE DEF U, p
  <2>6. CASE x.pc = "degrees"
    <3>. SUFFICES ASSUME NEW u, u = eb[x.tmp].vertex, NEW w, w = Op(t).to
                  PROVE  /\ deg'[v].out = Cardinality(Leaving(v)')
                         /\ deg'[v].in = Cardinality(Entering(v)')
         OBVIOUS
    <3>1. Raised(u, w) BY <2>6, CountedSteps, Zenon DEF CountDegrees, Raised
    <3>2. /\ deg'[v].out = deg[v].out + (IF v = u THEN 1 ELSE 0)
          /\ deg'[v].in = deg[v].in + (IF v = w THEN 1 ELSE 0)
          BY <2>1, <3>1, DegreesRaised
    <3>3. Cardinality(Leaving(v)') = Cardinality(Leaving(v)) + (IF v = u THEN 1 ELSE 0)
      <4>1. CASE v = u BY <2>2, <2>3, <2>4, <2>5, <2>6, <4>1, OneMore
      <4>2. CASE v # u BY <2>2, <2>3, <2>4, <2>6, <4>2, OneMore
      <4>. QED BY <4>1, <4>2
    <3>4. Cardinality(Entering(v)') = Cardinality(Entering(v)) + (IF v = w THEN 1 ELSE 0)
      <4>1. CASE v = w BY <2>2, <2>3, <2>4, <2>5, <2>6, <4>1, OneMore
      <4>2. CASE v # w BY <2>2, <2>3, <2>4, <2>6, <4>2, OneMore
      <4>. QED BY <4>1, <4>2
    <3>. QED BY <2>1, <3>2, <3>3, <3>4
  <2>7. CASE x.pc = "uncount"
    <3>. SUFFICES ASSUME NEW u, u = eb[x.tmp].vertex, NEW w, w = Slot(t).nbr
                  PROVE  /\ deg'[v].out = Cardinality(Leaving(v)')
                         /\ deg'[v].in = Cardinality(Entering(v)')
         OBVIOUS
    <3>1. Lowered(u, w) BY <2>7, CountedSteps, Zenon DEF Uncount, Lowered
    <3>2. /\ deg'[v].out = deg[v].out - (IF v = u THEN 1 ELSE 0)
          /\ deg'[v].in = deg[v].in - (IF v = w THEN 1 ELSE 0)
          BY <2>1, <3>1, DegreesLowered
    <3>3. (p \in Leaving(v) <=> v = u) /\ (p \in Entering(v) <=> v = w)
          BY <2>3, <2>5, <2>7 DEF Leaving, Entering, Slot, p
    <3>4. Cardinality(Leaving(v)') = Cardinality(Leaving(v)) - (IF v = u THEN 1 ELSE 0)
      <4>1. CASE v = u BY <2>2, <2>3, <2>4, <2>5, <2>7, <3>3, <4>1, OneMore
      <4>2. CASE v # u
        <5>1. Leaving(v)' = Leaving(v) BY <2>2, <2>3, <2>4, <2>7, <3>3, <4>2
        <5>. QED BY <2>2, <4>2, <5>1, OneMore
      <4>. QED BY <4>1, <4>2
    <3>5. Cardinality(Entering(v)') = Cardinality(Entering(v)) - (IF v = w THEN 1 ELSE 0)
      <4>1. CASE v = w BY <2>2, <2>3, <2>4, <2>5, <2>7, <3>3, <4>1, OneMore
      <4>2. CASE v # w
        <5>1. Entering(v)' = Entering(v) BY <2>2, <2>3, <2>4, <2>7, <3>3, <4>2
        <5>. QED BY <2>2, <4>2, <5>1, OneMore
      <4>. QED BY <4>1, <4>2
    <3>. QED BY <2>1, <3>2, <3>4, <3>5
  <2>8. CASE x.pc \notin {"degrees", "uncount"}
    <3>1. deg' = deg BY <2>8, CountedSteps
    <3>2. Leaving(v)' = Leaving(v) /\ Entering(v)' = Entering(v) BY <2>2, <2>3, <2>4, <2>8
    <3>. QED BY <2>1, <3>1, <3>2
  <2>. QED BY <2>6, <2>7, <2>8
<1>. QED BY <1>1, <1>3, <1>4 DEF Totals

(* A block from the pool brings one edge, counted and weighed at once.     *)
LEMMA AddedCounts ==
  ASSUME Safe, Safe', Results, NEW t \in Threads, Step(t), NewBlock(t), NEW n, n = tail
  PROVE  /\ n \in Blocks /\ n \notin HandedOut /\ HandedOut' = HandedOut \cup {n}
         /\ HandedOut \subseteq Blocks
         /\ eb'[n].num = 1 /\ eb'[n].vertex = Op(t).from
         /\ eb'[n].edges[0].nbr = Op(t).to
         /\ Op(t).from \in Vertices /\ Op(t).to \in Vertices
         /\ \A j \in Slots : (Counts(n, j)' <=> j = 0) /\ (Weighs(n, j)' <=> j = 0)
         /\ \A b \in HandedOut : eb'[b] = eb[b]
         /\ \A b \in HandedOut : \A j \in Slots :
              (Counts(b, j)' <=> Counts(b, j)) /\ (Weighs(b, j)' <=> Weighs(b, j))
<1>1. /\ th[t].pc = "newblock" /\ n \in Blocks /\ n + 1 < PoolSize /\ tail' = n + 1
      /\ eb'[n] = BlockWith(Op(t)) /\ \A b \in Blocks \ {n} : eb'[b] = eb[b]
      /\ IInv
      BY BlockAdded DEF Safe
<1>2. Op(t).from \in Vertices /\ Op(t).to \in Vertices BY <1>1, OpFields
<1>3. n \notin HandedOut /\ HandedOut' = HandedOut \cup {n} /\ HandedOut \subseteq Blocks
  <2>1. n \in Nat /\ PoolSize \in Nat BY <1>1, Numbers, SizesPositive
  <2>2. \A b \in Blocks : (b < n + 1 <=> b < n \/ b = n) /\ ~(n < n) BY <2>1, Numbers
  <2>3. HandedOut' = {b \in Blocks : b < n + 1 /\ b + 1 < PoolSize}
        BY <1>1 DEF HandedOut
  <2>4. HandedOut = {b \in Blocks : b < n /\ b + 1 < PoolSize} BY DEF HandedOut
  <2>. QED BY <1>1, <2>2, <2>3, <2>4
<1>4. \A b \in HandedOut : eb'[b] = eb[b] BY <1>1, <1>3
<1>5. ASSUME NEW P \in SUBSET CountPcs, NEW b, NEW j
      PROVE  SomeAt(P, b, j)' <=> SomeAt(P, b, j)
  <2>1. th[t].pc \notin CountPcs BY <1>1 DEF CountPcs
  <2>2. th'[t].pc \notin CountPcs BY <1>1, CountMoves
  <2>. QED BY <1>1, <2>1, <2>2, SomeAtStays
<1>6. ASSUME NEW P \in SUBSET CountPcs, NEW j PROVE ~SomeAt(P, n, j)
  <2>. SUFFICES ASSUME NEW u \in Threads, th[u].pc \in P, th[u].tmp = n PROVE FALSE
       BY DEF SomeAt
  <2>1. th[u].pc \in SlotPcs BY DEF CountPcs, SlotPcs
  <2>2. n \in Listed BY <2>1, SlotListed
  <2>3. n \in Nat BY <1>1, Numbers
  <2>. QED BY <2>2, <2>3 DEF Listed
<1>7. /\ eb'[n].num = 1 /\ eb'[n].vertex = Op(t).from /\ eb'[n].high = 1
      /\ 0 \in Slots /\ eb'[n].edges[0].nbr = Op(t).to
  <2>. SUFFICES ASSUME NEW o, o = Op(t)
                PROVE  /\ eb'[n].num = 1 /\ eb'[n].vertex = o.from /\ eb'[n].high = 1
                       /\ 0 \in Slots /\ eb'[n].edges[0].nbr = o.to
       OBVIOUS
  <2>1. eb'[n] = BlockWith(o) BY <1>1
  <2>2. 0 \in Slots BY SizesPositive DEF Slots
  <2>. QED BY <2>1, <2>2 DEF BlockWith, FirstEdge
<1>8. ASSUME NEW j \in Slots PROVE Occupied(n, j)' <=> j = 0
  <2>1. j \in Nat BY Numbers
  <2>2. Op(t).to >= 0 BY <1>2 DEF Vertices
  <2>3. (j < 1) <=> j = 0 BY <2>1
  <2>. QED BY <1>7, <2>2, <2>3 DEF Occupied
<1>9. ASSUME NEW j \in Slots PROVE (Counts(n, j)' <=> j = 0) /\ (Weighs(n, j)' <=> j = 0)
  <2>1. \A P \in SUBSET CountPcs : ~SomeAt(P, n, j)' BY <1>5, <1>6
  <2>. QED BY <1>8, <2>1 DEF Counts, Weighs, CountPcs
<1>10. ASSUME NEW b \in HandedOut, NEW j \in Slots
       PROVE  (Counts(b, j)' <=> Counts(b, j)) /\ (Weighs(b, j)' <=> Weighs(b, j))
  <2>1. Occupied(b, j)' <=> Occupied(b, j) BY <1>4, <1>10 DEF Occupied
  <2>2. \A P \in SUBSET CountPcs : SomeAt(P, b, j)' <=> SomeAt(P, b, j) BY <1>5
  <2>. QED BY <2>1, <2>2 DEF Counts, Weighs, CountPcs
<1>. QED BY <1>1, <1>2, <1>3, <1>4, <1>7, <1>9, <1>10

LEMMA AddedTotals ==
  ASSUME Safe, Safe', Results, NEW t \in Threads, Step(t), NewBlock(t), Totals
  PROVE  Totals'
<1>. SUFFICES ASSUME NEW n, n = tail, NEW u, u = Op(t).from, NEW w, w = Op(t).to
              PROVE  Totals'
     OBVIOUS
<1>1. /\ n \in Blocks /\ n \notin HandedOut /\ HandedOut' = HandedOut \cup {n}
      /\ HandedOut \subseteq Blocks
      /\ eb'[n].num = 1 /\ eb'[n].vertex = u /\ eb'[n].edges[0].nbr = w
      /\ \A j \in Slots : (Counts(n, j)' <=> j = 0) /\ (Weighs(n, j)' <=> j = 0)
      /\ \A b \in HandedOut : eb'[b] = eb[b]
      /\ \A b \in HandedOut : \A j \in Slots :
           (Counts(b, j)' <=> Counts(b, j)) /\ (Weighs(b, j)' <=> Weighs(b, j))
      BY AddedCounts
<1>2. 0 \in Slots BY SizesPositive DEF Slots
<1>3. eb'[n].num = Cardinality(Counted(n)')
  <2>1. Counted(n)' = {} \cup {0} BY <1>1, <1>2 DEF Counted
  <2>2. Cardinality({} \cup {0}) = 0 + 1 BY FS_EmptySet, FS_AddElement
  <2>. QED BY <1>1, <2>1, <2>2
<1>4. ASSUME NEW b \in HandedOut PROVE eb'[b].num = Cardinality(Counted(b)')
  <2>1. Counted(b)' = Counted(b) BY <1>1, <1>4 DEF Counted
  <2>. QED BY <1>1, <1>4, <2>1 DEF Totals
<1>5. ASSUME NEW v \in Vertices
      PROVE  /\ deg'[v].out = Cardinality(Leaving(v)')
             /\ deg'[v].in = Cardinality(Entering(v)')
  <2>. DEFINE U == Blocks \X Slots
              p == <<n, 0>>
  <2>1. /\ deg[v].out = Cardinality(Leaving(v)) /\ deg[v].in = Cardinality(Entering(v))
        /\ deg \in [Vertices -> [in : Int, out : Int]]
        BY <1>5 DEF Totals, Safe, IInv, TypeOK
  <2>2. /\ IsFiniteSet(U) /\ p \in U
        /\ Leaving(v) \in SUBSET U /\ Leaving(v)' \in SUBSET U
        /\ Entering(v) \in SUBSET U /\ Entering(v)' \in SUBSET U
        BY <1>1, <1>2, SlotPairs DEF Leaving, Entering
  <2>3. p \notin Leaving(v) /\ p \notin Entering(v) BY <1>1 DEF Leaving, Entering
  <2>4. ASSUME NEW q \in U
        PROVE  /\ q \in Leaving(v)' <=> q \in Leaving(v) \/ (q = p /\ v = u)
               /\ q \in Entering(v)' <=> q \in Entering(v) \/ (q = p /\ v = w)
    <3>1. PICK b \in Blocks, j \in Slots : q = <<b, j>> BY <2>4
    <3>2. /\ q \in Leaving(v) <=> b \in HandedOut /\ Weighs(b, j) /\ eb[b].vertex = v
          /\ q \in Leaving(v)' <=> b \in HandedOut' /\ Weighs(b, j)' /\ eb'[b].vertex = v
          /\ q \in Entering(v) <=> b \in HandedOut /\ Weighs(b, j) /\ eb[b].edges[j].nbr = v
          /\ q \in Entering(v)' <=>
               b \in HandedOut' /\ Weighs(b, j)' /\ eb'[b].edges[j].nbr = v
          BY <3>1 DEF Leaving, Entering
    <3>3. q = p <=> b = n /\ j = 0 BY <3>1
    <3>. HIDE DEF p
    <3>4. CASE b = n BY <1>1, <3>2, <3>3, <3>4
    <3>5. CASE b # n BY <1>1, <3>2, <3>3, <3>5
    <3>. QED BY <3>4, <3>5
  <2>. HIDE DEF U, p
  <2>5. Raised(u, w) BY Zenon DEF NewBlock, Raised
  <2>6. /\ deg'[v].out = deg[v].out + (IF v = u THEN 1 ELSE 0)
        /\ deg'[v].in = deg[v].in + (IF v = w THEN 1 ELSE 0)
        BY <2>1, <2>5, DegreesRaised
  <2>7. Cardinality(Leaving(v)') = Cardinality(Leaving(v)) + (IF v = u THEN 1 ELSE 0)
    <3>1. CASE v = u BY <2>2, <2>3, <2>4, <3>1, OneMore
    <3>2. CASE v # u BY <2>2, <2>4, <3>2, OneMore
    <3>. QED BY <3>1, <3>2
  <2>8. Cardinality(Entering(v)') = Cardinality(Entering(v)) + (IF v = w THEN 1 ELSE 0)
    <3>1. CASE v = w BY <2>2, <2>3, <2>4, <3>1, OneMore
    <3>2. CASE v # w BY <2>2, <2>4, <3>2, OneMore
    <3>. QED BY <3>1, <3>2
  <2>. QED BY <2>1, <2>6, <2>7, <2>8
<1>. QED BY <1>1, <1>3, <1>4, <1>5 DEF Totals

------------------------------------------------------------------------------
(* The counts, from the first state on.                                    *)
LEMMA NextSums == Safe /\ Safe' /\ Results /\ Sums /\ [Next]_vars => Sums'
<1>. SUFFICES ASSUME Safe, Safe', Results, Sums, [Next]_vars PROVE Sums'
     OBVIOUS
<1>1. CASE UNCHANGED <<eb, tail, deg, th>>
  <2>1. HandedOut' = HandedOut BY <1>1 DEF HandedOut
  <2>2. \A b, j : (Counts(b, j)' <=> Counts(b, j)) /\ (Weighs(b, j)' <=> Weighs(b, j))
        BY <1>1 DEF Counts, Weighs, SomeAt, Occupied
  <2>3. \A b : Counted(b)' = Counted(b) BY <2>2 DEF Counted
  <2>4. \A v : Leaving(v)' = Leaving(v) BY <1>1, <2>1, <2>2 DEF Leaving
  <2>5. \A v : Entering(v)' = Entering(v) BY <1>1, <2>1, <2>2 DEF Entering
  <2>6. Totals' BY <1>1, <2>1, <2>3, <2>4, <2>5 DEF Sums, Totals
  <2>7. Bare' BY <1>1 DEF Sums, Bare, SomeAt
  <2>8. \A t \in Threads : Below(th[t])' BY <1>1 DEF Sums, Below
  <2>. QED BY <2>6, <2>7, <2>8 DEF Sums
<1>2. ASSUME NEW t \in Threads, Step(t) PROVE Sums'
  <2>1. Totals' BY <1>2, ThreadTotals, AddedTotals DEF Sums
  <2>2. Bare' BY <1>2, ThreadBare DEF Sums
  <2>3. \A u \in Threads : Below(th[u])' BY <1>2, ThreadBelow DEF Sums
  <2>. QED BY <2>1, <2>2, <2>3 DEF Sums
<1>3. Barrier \/ Over \/ UNCHANGED vars => UNCHANGED <<eb, tail, deg, th>>
      BY DEF Barrier, Over, vars, edgeVars, poolVars, countVars
<1>. QED BY <1>1, <1>2, <1>3, Zenon DEF Next

LEMMA InitSums == Init => Sums
<1>. SUFFICES ASSUME Init PROVE Sums
     OBVIOUS
<1>1. /\ tail = 1 /\ eb = [b \in Blocks |-> NoBlock]
      /\ deg = [v \in Vertices |-> [in |-> 0, out |-> 0]]
      /\ \A t \in Threads : th[t].pc = "idle"
      BY DEF Init, Idle
<1>2. HandedOut = {} BY <1>1, Numbers, SizesPositive DEF HandedOut, Blocks
<1>3. \A v : Leaving(v) = {} /\ Entering(v) = {} BY <1>2 DEF Leaving, Entering
<1>4. Totals BY <1>1, <1>2, <1>3, FS_EmptySet DEF Totals
<1>5. Bare BY <1>1 DEF Bare, NoBlock
<1>6. \A t \in Threads : Below(th[t])  BY <1>1 DEF Below, UpdatePcs
<1>. QED BY <1>4, <1>5, <1>6 DEF Sums

LEMMA SumsHold == Spec => []Sums
<1>1. Safe /\ Safe' /\ Results /\ Sums /\ [Next]_vars => Sums' BY NextSums
<1>2. IInv /\ Places /\ Lists /\ Uniqueness => Safe BY DEF Safe
<1>. QED BY <1>1, <1>2, Invariance, PlacesHold, ListsHold, UniqueHold, ResultsHold, InitSums, PTL
     DEF Spec

(* Whenever no update is running, what stinger_consistency_check counts is *)
(* right, whatever updates have run together: the edges of each block, the *)
(* zeroed slots above its mark, the degrees, and no self-loop.             *)
THEOREM CountedRight == Spec => []CountsWhenIdle
<1>1. Results /\ Sums => CountsWhenIdle
  <2>. SUFFICES ASSUME Results, Sums, \A t \in Threads : th[t].pc = "idle"
                PROVE  /\ \A b \in Listed :
                            /\ eb[b].num = Cardinality(Occupants(b))
                            /\ \A k \in Slots : k >= eb[b].high => eb[b].edges[k] = ZeroEdge
                            /\ \A k \in Occupants(b) : eb[b].edges[k].nbr # eb[b].vertex
                       /\ \A v \in Vertices :
                            /\ deg[v].out = Cardinality({p \in EdgeSlots : eb[p[1]].vertex = v})
                            /\ deg[v].in =
                                 Cardinality({p \in EdgeSlots : eb[p[1]].edges[p[2]].nbr = v})
       BY DEF CountsWhenIdle, AllIdle
  <2>1. Listed = HandedOut BY DEF Listed, HandedOut, Private
  <2>2. \A b, j : (Counts(b, j) <=> Occupied(b, j)) /\ (Weighs(b, j) <=> Occupied(b, j))
        BY DEF Counts, Weighs, SomeAt
  <2>3. ASSUME NEW b \in Listed
        PROVE  /\ eb[b].num = Cardinality(Occupants(b))
               /\ \A k \in Slots : k >= eb[b].high => eb[b].edges[k] = ZeroEdge
               /\ \A k \in Occupants(b) : eb[b].edges[k].nbr # eb[b].vertex
    <3>1. Counted(b) = Occupants(b) BY <2>2 DEF Counted, Occupants
    <3>2. \A k \in Slots : eb[b].high <= k => eb[b].edges[k] = ZeroEdge
          BY <2>3, Numbers DEF Sums, Bare, BarePcs, SomeAt, FillPcs
    <3>3. \A k \in Occupants(b) : eb[b].edges[k].nbr # eb[b].vertex
          BY <2>3, LoopFree DEF Results, Occupants
    <3>. QED BY <2>1, <2>3, <3>1, <3>2, <3>3 DEF Sums, Totals
  <2>4. ASSUME NEW v \in Vertices
        PROVE  /\ deg[v].out = Cardinality({p \in EdgeSlots : eb[p[1]].vertex = v})
               /\ deg[v].in = Cardinality({p \in EdgeSlots : eb[p[1]].edges[p[2]].nbr = v})
    <3>1. /\ Leaving(v) = {p \in EdgeSlots : eb[p[1]].vertex = v}
          /\ Entering(v) = {p \in EdgeSlots : eb[p[1]].edges[p[2]].nbr = v}
          BY <2>1, <2>2 DEF Leaving, Entering, EdgeSlots
    <3>. QED BY <2>4, <3>1 DEF Sums, Totals
  <2>. QED BY <2>3, <2>4
<1>. QED BY <1>1, ResultsHold, SumsHold, PTL

------------------------------------------------------------------------------
(* Fourth part: the stamps.                                                *)

(* A thread resets the stamps of the block it is at; holds their lock to   *)
(* widen them; has begun to store into the slot it is at.                  *)
ResetPcs   == {"onlyedge", "onlylarge"}
WidenPcs   == {"widen", "raise", "unlockstamp"}
StoringPcs == {"count", "degrees", "high", "unlockslot"} \cup ResetPcs \cup SettlePcs

(* "assuming we have block effectively locked", says update_edge_data when *)
(* it resets the stamps of a block whose only edge is the one it stores:   *)
(* nobody else stores into a slot of the block meanwhile.                  *)
BlockEffectivelyLocked ==
  \A t, u \in Threads :
    th[t].pc \in ResetPcs /\ th[u].pc \in StoringPcs /\ th[u].tmp = th[t].tmp => u = t

(* The smaller stamp of b is no later than x, also once those who hold the *)
(* stamps' lock are done; the stamps cover x.                              *)
Under(b, x) ==
  /\ x \in Nat /\ eb[b].small <= x
  /\ \A t \in Threads : th[t].pc \in WidenPcs /\ th[t].tmp = b => th[t].sm <= x
Spans(b, x) == Under(b, x) /\ x <= eb[b].large

(* They cover x, or the thread that puts a new edge with time x in slot j  *)
(* has yet to look at them.                                                *)
AtPlace(t, b, j) == th[t].tmp = b /\ th[t].k = j
Settled(b, j, x) ==
  \/ Spans(b, x)
  \/ \E t \in Threads : th[t].rv = 1 /\ th[t].pc # "recent" /\ AtPlace(t, b, j) /\ Op(t).ts = x

(* The two times of an edge: one is right once its slot is unlocked, the   *)
(* other once the thread that puts the edge there has returned.            *)
FirstSpanned(b, j) ==
  \/ \E t \in Threads : HoldsSlot(t) /\ AtPlace(t, b, j)
  \/ Settled(b, j, eb[b].edges[j].first)
RecentSpanned(b, j) ==
  \/ \E t \in Threads : th[t].rv = 1 /\ AtPlace(t, b, j)
  \/ Spans(b, eb[b].edges[j].recent)
EdgesSpanned ==
  \A b \in HandedOut : \A j \in Slots :
    Occupied(b, j) => FirstSpanned(b, j) /\ RecentSpanned(b, j)

(* Stamps are widened by one thread at a time, while the smaller one reads *)
(* MARKER.                                                                 *)
Widening ==
  /\ \A t \in Threads : th[t].pc \in WidenPcs => eb[th[t].tmp].small = MARKER
  /\ \A t, u \in Threads :
       th[t].pc \in WidenPcs /\ th[u].pc \in WidenPcs /\ th[t].tmp = th[u].tmp => t = u

(* What a thread has found when it compared the larger stamp stays so for  *)
(* the one that holds the lock; one that has compared the smaller one      *)
(* without the lock finds it no later than its time from then on.          *)
Compared(t) ==
  /\ th[t].pc = "checklarge" => Under(th[t].tmp, Op(t).ts)
  /\ th[t].pc = "raise" => eb[th[t].tmp].large < Op(t).ts
  /\ th[t].pc = "unlockstamp" => Op(t).ts <= eb[th[t].tmp].large
  /\ th[t].pc = "recent" => Spans(th[t].tmp, Op(t).ts)

(* A thread that is to reset the stamps has the only edge of the block; a  *)
(* time that is to be put back is covered.                                 *)
Covers(t) ==
  /\ th[t].pc \in ResetPcs => \A j \in Slots : Occupied(th[t].tmp, j) => j = th[t].k
  /\ HoldsSlot(t) /\ th[t].pc \notin AddPcs /\ Occupied(th[t].tmp, th[t].k) =>
       Settled(th[t].tmp, th[t].k, th[t].sv)

Stamping ==
  Widening /\ EdgesSpanned /\ \A t \in Threads : Covers(t) /\ Compared(t)

------------------------------------------------------------------------------
LEMMA StampAt ==
  ASSUME NEW t \in Threads, Step(t)
  PROVE  /\ th[t].pc = "lockslot" => LockSlot(t)
         /\ th[t].pc = "recheck" => Recheck(t)
         /\ th[t].pc = "release" => Release(t)
         /\ th[t].pc = "count" => CountEdge(t)
         /\ th[t].pc = "onlyedge" => ResetSmall(t)
         /\ th[t].pc = "onlylarge" => ResetLarge(t)
         /\ th[t].pc = "unlockslot" => UnlockSlot(t)
         /\ th[t].pc = "readweight" => ReadWeight(t)
         /\ th[t].pc = "change" => ChangeTotal(t)
         /\ th[t].pc = "weight" => WriteWeight(t)
         /\ th[t].pc = "stamps" => CheckSmall(t)
         /\ th[t].pc = "checklarge" => CheckLarge(t)
         /\ th[t].pc = "lockstamp" => LockStamp(t)
         /\ th[t].pc = "widen" => CompareLarge(t)
         /\ th[t].pc = "raise" => StoreLarge(t)
         /\ th[t].pc = "unlockstamp" => UnlockStamp(t)
         /\ th[t].pc = "recent" => WriteRecent(t)
         /\ th[t].pc = "restore" => RestoreFirst(t)
BY DEF Step, Take, ReadActive, CasActive, RefuseLoop, EtypeBegin, EtypeWalk,
       FindBlock, FindSlot, FindNext, FindEnd, Rescan, ScanBlock, ScanSlot,
       ScanNext, LockSlot, Recheck, Release, LockLink, UnlockLink, NewBlock,
       PoolExhausted, ClaimPlace, FillPlace, LinkBlock, SetNeighbor, CountEdge,
       ResetSmall, ResetLarge, CountDegrees, RaiseHigh, UnlockSlot, ReadWeight, ChangeTotal,
       WriteWeight, CheckSmall, CheckLarge, CompareLarge, LockStamp, StoreLarge, UnlockStamp, WriteRecent,
       RestoreFirst, LockWeight, RecheckRemove, Uncount, ClearSlot, At

(* What a step does to the stamps of a block.                              *)
StampPcs == ResetPcs \cup {"lockstamp", "raise", "unlockstamp"}
LEMMA StampsHere ==
  ASSUME IInv, NEW t \in Threads, Step(t), ~NewBlock(t), NEW b \in Blocks
  PROVE  /\ ~(th[t].pc \in StampPcs /\ b = th[t].tmp) =>
              eb'[b].small = eb[b].small /\ eb'[b].large = eb[b].large
         /\ th[t].pc = "lockstamp" /\ b = th[t].tmp =>
              eb[b].small # MARKER /\ eb'[b].small = MARKER /\ eb'[b].large = eb[b].large
         /\ th[t].pc = "raise" /\ b = th[t].tmp =>
              eb'[b].small = eb[b].small /\ eb'[b].large = Op(t).ts
         /\ th[t].pc = "unlockstamp" /\ b = th[t].tmp =>
              eb'[b].small = Lesser(th[t].sm, Op(t).ts) /\ eb'[b].large = eb[b].large
<1>1. eb \in [Blocks -> EdgeBlock] /\ eb[b] \in EdgeBlock BY DEF IInv, TypeOK
<1>2. ASSUME NEW c \in Blocks, NEW j \in Slots, NEW v, StoresEdge(c, j, v)
      PROVE  eb'[b].small = eb[b].small /\ eb'[b].large = eb[b].large
      BY <1>1, <1>2, SMT DEF StoresEdge, EdgeBlock
<1>3. th[t].pc \in SlotPcs => th[t].tmp \in Blocks /\ th[t].k \in Slots BY AtSlot
<1>4. CASE LockSlot(t)
  <2>1. /\ th[t].pc = "lockslot"
        /\ StoresEdge(th[t].tmp, th[t].k, [Slot(t) EXCEPT !.first = MARKER])
        BY <1>4, Zenon DEF StoresEdge, LockSlot, Slot, At
  <2>. QED BY <1>2, <1>3, <2>1 DEF SlotPcs, StampPcs, ResetPcs
<1>5. CASE Release(t) \/ RestoreFirst(t)
  <2>1. /\ th[t].pc \in {"release", "restore"}
        /\ StoresEdge(th[t].tmp, th[t].k, [Slot(t) EXCEPT !.first = th[t].sv])
        BY <1>5, Zenon DEF StoresEdge, Release, RestoreFirst, Slot, At
  <2>. QED BY <1>2, <1>3, <2>1 DEF SlotPcs, StampPcs, ResetPcs
<1>6. CASE UnlockSlot(t)
  <2>1. /\ th[t].pc = "unlockslot"
        /\ StoresEdge(th[t].tmp, th[t].k, [Slot(t) EXCEPT !.first = Op(t).ts])
        BY <1>6, Zenon DEF StoresEdge, UnlockSlot, Slot, At
  <2>. QED BY <1>2, <1>3, <2>1 DEF SlotPcs, StampPcs, ResetPcs
<1>7. CASE SetNeighbor(t)
  <2>1. /\ th[t].pc = "setnbr"
        /\ StoresEdge(th[t].tmp, th[t].k, [Slot(t) EXCEPT !.nbr = Op(t).to])
        BY <1>7, Zenon DEF StoresEdge, SetNeighbor, Slot, At
  <2>. QED BY <1>2, <1>3, <2>1 DEF SlotPcs, StampPcs, ResetPcs
<1>8. CASE WriteWeight(t)
  <2>1. /\ th[t].pc = "weight"
        /\ StoresEdge(th[t].tmp, th[t].k, [Slot(t) EXCEPT !.weight = th[t].nw])
        BY <1>8, Zenon DEF StoresEdge, WriteWeight, Slot, At
  <2>. QED BY <1>2, <1>3, <2>1 DEF SlotPcs, StampPcs, ResetPcs
<1>9. CASE WriteRecent(t)
  <2>1. /\ th[t].pc = "recent"
        /\ StoresEdge(th[t].tmp, th[t].k, [Slot(t) EXCEPT !.recent = Op(t).ts])
        BY <1>9, Zenon DEF StoresEdge, WriteRecent, Slot, At
  <2>. QED BY <1>2, <1>3, <2>1 DEF SlotPcs, StampPcs, ResetPcs
<1>10. CASE LockWeight(t)
  <2>1. /\ th[t].pc = "lockweight"
        /\ StoresEdge(th[t].tmp, th[t].k, [Slot(t) EXCEPT !.weight = MARKER])
        BY <1>10, Zenon DEF StoresEdge, LockWeight, Slot, At
  <2>. QED BY <1>2, <1>3, <2>1 DEF SlotPcs, StampPcs, ResetPcs
<1>11. CASE RecheckRemove(t)
  <2>1. /\ th[t].pc = "reremove"
        /\ \/ eb' = eb
           \/ StoresEdge(th[t].tmp, th[t].k, [Slot(t) EXCEPT !.weight = th[t].sv])
        BY <1>11, Zenon DEF StoresEdge, RecheckRemove, Slot, At
  <2>. QED BY <1>2, <1>3, <2>1 DEF SlotPcs, StampPcs, ResetPcs
<1>12. CASE ClearSlot(t)
  <2>1. /\ th[t].pc = "clear"
        /\ StoresEdge(th[t].tmp, th[t].k, [Slot(t) EXCEPT !.nbr = Complement(Op(t).to)])
        BY <1>12, Zenon DEF StoresEdge, ClearSlot, Slot, At
  <2>. QED BY <1>2, <1>3, <2>1 DEF SlotPcs, StampPcs, ResetPcs
<1>13. CASE CountEdge(t) \/ Uncount(t)
  <2>1. /\ th[t].pc \in {"count", "uncount"}
        /\ \/ eb' = [eb EXCEPT ![th[t].tmp].num = @ + 1]
           \/ eb' = [eb EXCEPT ![th[t].tmp].num = @ - 1]
        BY <1>13, Zenon DEF CountEdge, Uncount, At
  <2>. QED BY <1>1, <1>3, <2>1, SMT DEF SlotPcs, StampPcs, ResetPcs, EdgeBlock
<1>14. CASE RaiseHigh(t)
  <2>1. /\ th[t].pc = "high"
        /\ eb' = eb \/ eb' = [eb EXCEPT ![th[t].tmp].high = th[t].k + 1]
        BY <1>14, Zenon DEF RaiseHigh, At
  <2>. QED BY <1>1, <1>3, <2>1, SMT DEF SlotPcs, StampPcs, ResetPcs, EdgeBlock
<1>15. CASE ResetSmall(t) \/ ResetLarge(t)
  <2>. SUFFICES ASSUME NEW s, s = Op(t).ts
                PROVE  /\ b # th[t].tmp => eb'[b] = eb[b]
                       /\ th[t].pc \in ResetPcs
       BY DEF StampPcs, ResetPcs
  <2>1. /\ th[t].pc \in ResetPcs /\ th[t].tmp \in Blocks
        /\ \/ eb' = [eb EXCEPT ![th[t].tmp].small = s]
           \/ eb' = [eb EXCEPT ![th[t].tmp].large = s]
        BY <1>3, <1>15, Zenon DEF ResetSmall, ResetLarge, At, SlotPcs, ResetPcs
  <2>. QED BY <1>1, <2>1, SMT DEF EdgeBlock
<1>16. CASE LockStamp(t)
  <2>1. /\ th[t].pc = "lockstamp" /\ th[t].tmp \in Blocks /\ eb[th[t].tmp].small # MARKER
        /\ eb' = [eb EXCEPT ![th[t].tmp].small = MARKER]
        BY <1>3, <1>16, Zenon DEF LockStamp, At, SlotPcs
  <2>. QED BY <1>1, <2>1, SMT DEF StampPcs, ResetPcs, EdgeBlock
<1>17. CASE StoreLarge(t)
  <2>1. /\ th[t].pc = "raise" /\ th[t].tmp \in Blocks
        /\ eb' = [eb EXCEPT ![th[t].tmp].large = Op(t).ts]
        BY <1>3, <1>17, Zenon DEF StoreLarge, At, SlotPcs
  <2>2. ASSUME NEW s, eb' = [eb EXCEPT ![th[t].tmp].large = s]
        PROVE  /\ b # th[t].tmp => eb'[b] = eb[b]
               /\ b = th[t].tmp => eb'[b].small = eb[b].small /\ eb'[b].large = s
        BY <1>1, <2>1, <2>2, SMT DEF EdgeBlock
  <2>. QED BY <2>1, <2>2 DEF StampPcs, ResetPcs
<1>19. CASE UnlockStamp(t)
  <2>1. /\ th[t].pc = "unlockstamp" /\ th[t].tmp \in Blocks
        /\ eb' = [eb EXCEPT ![th[t].tmp].small = Lesser(th[t].sm, Op(t).ts)]
        BY <1>3, <1>19, Zenon DEF UnlockStamp, At, SlotPcs
  <2>2. ASSUME NEW s, eb' = [eb EXCEPT ![th[t].tmp].small = s]
        PROVE  /\ b # th[t].tmp => eb'[b] = eb[b]
               /\ b = th[t].tmp => eb'[b].small = s /\ eb'[b].large = eb[b].large
        BY <1>1, <2>1, <2>2, SMT DEF EdgeBlock
  <2>. QED BY <2>1, <2>2 DEF StampPcs, ResetPcs
<1>18. CASE \/ \E i \in DOMAIN res : Take(t, i)
            \/ ReadActive(t) \/ CasActive(t) \/ RefuseLoop(t) \/ EtypeBegin(t) \/ EtypeWalk(t)
            \/ FindBlock(t) \/ FindSlot(t) \/ FindNext(t) \/ FindEnd(t)
            \/ Rescan(t) \/ ScanBlock(t) \/ ScanSlot(t) \/ ScanNext(t) \/ Recheck(t)
            \/ LockLink(t) \/ UnlockLink(t) \/ PoolExhausted(t)
            \/ ClaimPlace(t) \/ FillPlace(t) \/ LinkBlock(t)
            \/ CountDegrees(t) \/ ReadWeight(t) \/ ChangeTotal(t) \/ CheckSmall(t) \/ CheckLarge(t) \/ CompareLarge(t)
  <2>1. eb' = eb
        BY <1>18, Zenon
           DEF edgeVars, Take, ReadActive, CasActive, RefuseLoop, EtypeBegin, EtypeWalk,
               EtypeStep, FindBlock, FindSlot, FindNext, FindEnd, Rescan, ScanFrom, ScanBlock,
               ScanSlot, ScanNext, Recheck, LockLink, UnlockLink, PoolExhausted, ClaimPlace,
               FillPlace, LinkBlock, CountDegrees, ReadWeight, ChangeTotal, CheckSmall, CheckLarge, CompareLarge
  <2>2. th[t].pc \notin {"lockstamp", "raise", "unlockstamp"}
        BY <1>18, Zenon
           DEF At, Take, ReadActive, CasActive, RefuseLoop, EtypeBegin, EtypeWalk,
               EtypeStep, FindBlock, FindSlot, FindNext, FindEnd, Rescan, ScanFrom, ScanBlock,
               ScanSlot, ScanNext, Recheck, LockLink, UnlockLink, PoolExhausted, ClaimPlace,
               FillPlace, LinkBlock, CountDegrees, ReadWeight, ChangeTotal, CheckSmall, CheckLarge, CompareLarge
  <2>. QED BY <2>1, <2>2
<1>. QED BY <1>4, <1>5, <1>6, <1>7, <1>8, <1>9, <1>10, <1>11, <1>12, <1>13, <1>14, <1>15,
            <1>16, <1>17, <1>18, <1>19, Zenon DEF Step

(* What a step does to the times of an edge.                               *)
FirstPcs == {"lockslot", "release", "restore", "unlockslot"}
LEMMA TimesHere ==
  ASSUME IInv, NEW t \in Threads, Step(t), ~NewBlock(t), NEW b \in Blocks, NEW j \in Slots
  PROVE  /\ th[t].pc = "lockslot" /\ Here(t, b, j) => eb'[b].edges[j].first = MARKER
         /\ th[t].pc \in {"release", "restore"} /\ Here(t, b, j) =>
              eb'[b].edges[j].first = th[t].sv
         /\ th[t].pc = "unlockslot" /\ Here(t, b, j) => eb'[b].edges[j].first = Op(t).ts
         /\ th[t].pc = "recent" /\ Here(t, b, j) => eb'[b].edges[j].recent = Op(t).ts
         /\ ~(th[t].pc \in FirstPcs /\ Here(t, b, j)) =>
              eb'[b].edges[j].first = eb[b].edges[j].first
         /\ ~(th[t].pc = "recent" /\ Here(t, b, j)) =>
              eb'[b].edges[j].recent = eb[b].edges[j].recent
         /\ th[t].pc = "lockslot" => Slot(t).first # MARKER
<1>1. /\ eb \in [Blocks -> EdgeBlock] /\ eb[b].edges[j] \in Edge
      /\ th[t].pc \in SlotPcs => th[t].tmp \in Blocks /\ th[t].k \in Slots
      BY BlockTypes, AtSlot DEF IInv, TypeOK
<1>2. CASE ~Here(t, b, j)
  <2>1. eb'[b].edges[j] = eb[b].edges[j] BY <1>2, StoresHere DEF Here
  <2>. QED BY <1>2, <2>1, StampAt DEF LockSlot
<1>. SUFFICES ASSUME Here(t, b, j), NEW e, e = eb[b].edges[j], NEW s, s = th[t].sv,
                     NEW ts, ts = Op(t).ts
              PROVE  /\ th[t].pc = "lockslot" => eb'[b].edges[j].first = MARKER
                     /\ th[t].pc \in {"release", "restore"} => eb'[b].edges[j].first = s
                     /\ th[t].pc = "unlockslot" => eb'[b].edges[j].first = ts
                     /\ th[t].pc = "recent" => eb'[b].edges[j].recent = ts
                     /\ th[t].pc \notin FirstPcs => eb'[b].edges[j].first = e.first
                     /\ th[t].pc # "recent" => eb'[b].edges[j].recent = e.recent
                     /\ th[t].pc = "lockslot" => Slot(t).first # MARKER
     BY <1>2
<1>3. ASSUME NEW v, StoresEdge(th[t].tmp, th[t].k, v) PROVE eb'[b].edges[j] = v
      BY <1>1, <1>3, SlotEdit DEF Here
<1>4. e \in Edge /\ Slot(t) = e BY <1>1 DEF Here, Slot
<1>5. CASE th[t].pc = "lockslot"
  <2>1. Slot(t).first # MARKER /\ StoresEdge(th[t].tmp, th[t].k, [Slot(t) EXCEPT !.first = MARKER])
        BY <1>5, StampAt, Zenon DEF StoresEdge, LockSlot, Slot
  <2>2. eb'[b].edges[j] = [e EXCEPT !.first = MARKER] BY <1>3, <1>4, <2>1
  <2>. QED BY <1>4, <1>5, <2>1, <2>2, SMT DEF Edge, FirstPcs
<1>6. CASE th[t].pc \in {"release", "restore"}
  <2>1. StoresEdge(th[t].tmp, th[t].k, [Slot(t) EXCEPT !.first = s])
        BY <1>6, StampAt, Zenon DEF StoresEdge, Release, RestoreFirst, Slot
  <2>2. eb'[b].edges[j] = [e EXCEPT !.first = s] BY <1>3, <1>4, <2>1
  <2>. QED BY <1>4, <1>6, <2>2, SMT DEF Edge, FirstPcs
<1>7. CASE th[t].pc = "unlockslot"
  <2>1. StoresEdge(th[t].tmp, th[t].k, [Slot(t) EXCEPT !.first = ts])
        BY <1>7, StampAt, Zenon DEF StoresEdge, UnlockSlot, Slot
  <2>2. eb'[b].edges[j] = [e EXCEPT !.first = ts] BY <1>3, <1>4, <2>1
  <2>. QED BY <1>4, <1>7, <2>2, SMT DEF Edge, FirstPcs
<1>8. CASE th[t].pc = "recent"
  <2>1. StoresEdge(th[t].tmp, th[t].k, [Slot(t) EXCEPT !.recent = ts])
        BY <1>8, StampAt, Zenon DEF StoresEdge, WriteRecent, Slot
  <2>2. eb'[b].edges[j] = [e EXCEPT !.recent = ts] BY <1>3, <1>4, <2>1
  <2>. QED BY <1>4, <1>8, <2>2, SMT DEF Edge, FirstPcs
<1>9. CASE th[t].pc \in {"setnbr", "weight", "lockweight", "reremove", "clear"}
  <2>1. \/ \E x : StoresEdge(th[t].tmp, th[t].k, [Slot(t) EXCEPT !.nbr = x])
        \/ \E x : StoresEdge(th[t].tmp, th[t].k, [Slot(t) EXCEPT !.weight = x])
        \/ eb' = eb
    <3>1. CASE th[t].pc = "setnbr"
      <4>1. StoresEdge(th[t].tmp, th[t].k, [Slot(t) EXCEPT !.nbr = Op(t).to])
            BY <3>1, StepAt, Zenon DEF StoresEdge, SetNeighbor, Slot
      <4>. QED BY <4>1
    <3>2. CASE th[t].pc = "weight"
      <4>1. StoresEdge(th[t].tmp, th[t].k, [Slot(t) EXCEPT !.weight = th[t].nw])
            BY <3>2, StampAt, Zenon DEF StoresEdge, WriteWeight, Slot
      <4>. QED BY <4>1
    <3>3. CASE th[t].pc = "lockweight"
      <4>1. StoresEdge(th[t].tmp, th[t].k, [Slot(t) EXCEPT !.weight = MARKER])
            BY <3>3, StepAt, Zenon DEF StoresEdge, LockWeight, Slot
      <4>. QED BY <4>1
    <3>4. CASE th[t].pc = "reremove"
      <4>1. eb' = eb \/ StoresEdge(th[t].tmp, th[t].k, [Slot(t) EXCEPT !.weight = th[t].sv])
            BY <3>4, StepAt, Zenon DEF StoresEdge, RecheckRemove, Slot
      <4>. QED BY <4>1
    <3>5. CASE th[t].pc = "clear"
      <4>1. StoresEdge(th[t].tmp, th[t].k, [Slot(t) EXCEPT !.nbr = Complement(Op(t).to)])
            BY <3>5, StepAt, Zenon DEF StoresEdge, ClearSlot, Slot
      <4>. QED BY <4>1
    <3>. QED BY <1>9, <3>1, <3>2, <3>3, <3>4, <3>5
  <2>2. ASSUME NEW x PROVE /\ [e EXCEPT !.nbr = x].first = e.first
                           /\ [e EXCEPT !.nbr = x].recent = e.recent
                           /\ [e EXCEPT !.weight = x].first = e.first
                           /\ [e EXCEPT !.weight = x].recent = e.recent
        BY <1>4, SMT DEF Edge
  <2>3. eb'[b].edges[j].first = e.first /\ eb'[b].edges[j].recent = e.recent
    <3>. SUFFICES ASSUME NEW v, v = eb'[b].edges[j]
                  PROVE  v.first = e.first /\ v.recent = e.recent
         OBVIOUS
    <3>1. Slot(t) = e BY <1>4
    <3>2. ASSUME NEW x, StoresEdge(th[t].tmp, th[t].k, [Slot(t) EXCEPT !.nbr = x])
          PROVE  v.first = e.first /\ v.recent = e.recent
      <4>1. v = [e EXCEPT !.nbr = x] BY <1>3, <3>1, <3>2, Zenon
      <4>. QED BY <2>2, <4>1, Zenon
    <3>3. ASSUME NEW x, StoresEdge(th[t].tmp, th[t].k, [Slot(t) EXCEPT !.weight = x])
          PROVE  v.first = e.first /\ v.recent = e.recent
      <4>1. v = [e EXCEPT !.weight = x] BY <1>3, <3>1, <3>3, Zenon
      <4>. QED BY <2>2, <4>1, Zenon
    <3>4. eb' = eb => v = e OBVIOUS
    <3>. QED BY <2>1, <3>2, <3>3, <3>4, Zenon
  <2>. QED BY <1>9, <2>3 DEF FirstPcs
<1>10. CASE th[t].pc \notin StorePcs
  <2>1. eb'[b].edges[j] = e BY <1>10, StoresHere
  <2>. QED BY <1>10, <2>1 DEF StorePcs, FirstPcs
<1>. QED BY <1>5, <1>6, <1>7, <1>8, <1>9, <1>10 DEF StorePcs

(* A thread that puts a new edge in its slot goes on with it, or is done.  *)
LEMMA AddsOn ==
  ASSUME IInv, NEW t \in Threads, Step(t), Returns(th[t]), th[t].rv = 1
  PROVE  /\ th[t].pc \in AddPcs \cup SettlePcs /\ ~th[t].held
         /\ \/ th[t].pc = "recent"
            \/ /\ th'[t].op = th[t].op /\ th'[t].tmp = th[t].tmp /\ th'[t].k = th[t].k
               /\ th'[t].rv = 1 /\ Op(t)' = Op(t)
<1>1. th[t].pc \in AddPcs \cup SettlePcs /\ ~th[t].held BY DEF Returns
<1>2. CASE \E i \in DOMAIN res : Take(t, i)
      BY <1>1, <1>2, Starts DEF AddPcs, FillPcs, SettlePcs
<1>3. CASE Ends(t) BY <1>1, <1>3, Ending DEF AddPcs, FillPcs, SettlePcs
<1>4. CASE Continues(t, th[t], th'[t])
  <2>1. ~Walks(t, th[t], th'[t]) BY <1>1 DEF Walks, UpdatePcs, SettlePcs
  <2>2. ~Meets(t, th[t], th'[t]) /\ ~Takes(t, th[t], th'[t])
        BY <1>1 DEF Meets, Takes, AddPcs, FillPcs, SettlePcs
  <2>3. Stores(t, th[t], th'[t]) BY <1>4, <2>1, <2>2 DEF Continues
  <2>4. UNCHANGED <<work, phase>> BY SamePhase
  <2>. QED BY <1>1, <2>3, <2>4 DEF Stores, Op
<1>. QED BY <1>2, <1>3, <1>4, Course

(* How a thread comes to reset the stamps, to widen them, and past them.   *)
LEMMA StampMoves ==
  ASSUME IInv, NEW t \in Threads, Step(t), NEW x, NEW y, x = th[t], y = th'[t]
  PROVE  /\ y.pc \in ResetPcs \cup WidenPcs \cup {"checklarge", "recent"} =>
              y.op = x.op /\ y.tmp = x.tmp /\ y.k = x.k /\ Op(t)' = Op(t)
         /\ y.pc = "onlyedge" => x.pc = "count" /\ eb[x.tmp].num = 0
         /\ y.pc = "onlylarge" => x.pc = "onlyedge"
         /\ y.pc = "checklarge" =>
              /\ x.pc = "stamps" /\ eb' = eb
              /\ eb[x.tmp].small # MARKER /\ ~(Op(t).ts < eb[x.tmp].small)
         /\ y.pc = "widen" => x.pc = "lockstamp" /\ y.sm = eb[x.tmp].small
         /\ y.pc = "raise" =>
              x.pc = "widen" /\ y.sm = x.sm /\ eb' = eb /\ Op(t).ts > eb[x.tmp].large
         /\ y.pc = "unlockstamp" =>
              /\ y.sm = x.sm
              /\ \/ x.pc = "raise"
                 \/ x.pc = "widen" /\ eb' = eb /\ ~(Op(t).ts > eb[x.tmp].large)
         /\ y.pc = "recent" =>
              \/ x.pc = "unlockstamp"
              \/ x.pc = "checklarge" /\ eb' = eb /\ ~(Op(t).ts > eb[x.tmp].large)
<1>. DEFINE Comes == ResetPcs \cup WidenPcs \cup {"checklarge", "recent"}
<1>. USE DEF ResetPcs, WidenPcs
<1>1. th \in [Threads -> Locals] /\ x \in Locals /\ UNCHANGED <<work, phase>>
      BY SamePhase DEF IInv, TypeOK
<1>2. ASSUME y.pc \in Comes PROVE Stores(t, x, y)
  <2>1. ASSUME NEW i \in DOMAIN res, Take(t, i) PROVE FALSE BY <1>2, <2>1, Starts
  <2>2. ~Ends(t) BY <1>2, Ending, Returned
  <2>3. ~Walks(t, x, y) BY <1>2 DEF Walks, AddPcs, FillPcs, UpdatePcs
  <2>4. ~Meets(t, x, y)
    <3>1. ASSUME Meets(t, x, y) PROVE FALSE
      <4>1. x.pc # "idle" BY <3>1 DEF Meets
      <4>2. y.pc \in {"lockweight", "readweight", "change"} BY <3>1, <4>1, ExistingPc DEF Meets
      <4>. QED BY <1>2, <4>2
    <3>. QED BY <3>1
  <2>5. ~Takes(t, x, y) BY <1>2 DEF Takes
  <2>. QED BY <2>1, <2>2, <2>3, <2>4, <2>5, Course DEF Continues
<1>3. y.pc \in Comes => y.op = x.op /\ y.tmp = x.tmp /\ y.k = x.k /\ Op(t)' = Op(t)
      BY <1>1, <1>2 DEF Stores, Op
<1>4. /\ x.pc = "count" => Move(t, IF eb[x.tmp].num = 0 THEN "onlyedge" ELSE "degrees")
      /\ x.pc = "onlyedge" => Move(t, "onlylarge")
      /\ x.pc = "weight" => Move(t, "stamps")
      /\ x.pc = "stamps" =>
           /\ eb' = eb /\ eb[x.tmp].small # MARKER
           /\ Move(t, IF Op(t).ts < eb[x.tmp].small THEN "lockstamp" ELSE "checklarge")
      /\ x.pc = "checklarge" =>
           /\ eb' = eb
           /\ Move(t, IF Op(t).ts > eb[x.tmp].large THEN "lockstamp" ELSE "recent")
      /\ x.pc = "widen" =>
           /\ eb' = eb
           /\ Move(t, IF Op(t).ts > eb[x.tmp].large THEN "raise" ELSE "unlockstamp")
      /\ x.pc = "raise" => Move(t, "unlockstamp")
      /\ x.pc = "unlockstamp" => Move(t, "recent")
      /\ x.pc = "lockstamp" =>
           Goto(t, [th[t] EXCEPT !.sm = eb[th[t].tmp].small, !.pc = "widen"])
      BY StampAt, Zenon
         DEF CountEdge, ResetSmall, WriteWeight, CheckSmall, CheckLarge, LockStamp,
             CompareLarge, StoreLarge, UnlockStamp, edgeVars
<1>5. x.pc = "lockstamp" => y.pc = "widen" /\ y.sm = eb[x.tmp].small
  <2>1. ASSUME NEW v
        PROVE  [x EXCEPT !.sm = v, !.pc = "widen"].pc = "widen"
               /\ [x EXCEPT !.sm = v, !.pc = "widen"].sm = v
        BY <1>1, SMT DEF Locals
  <2>2. x.pc = "lockstamp" => y = [x EXCEPT !.sm = eb[x.tmp].small, !.pc = "widen"]
        BY <1>1, <1>4, Zenon DEF Goto
  <2>. QED BY <2>1, <2>2
<1>6. x.pc = "recent" => y.pc \notin Comes
  <2>1. x.pc = "recent" =>
          Move(t, "restore") \/ \E r : Finish(t, r)
        BY StampAt, Zenon DEF WriteRecent
  <2>2. ASSUME NEW r, Finish(t, r) PROVE y.pc = "idle"
        BY <1>1, <2>2 DEF Finish, Goto, Idle
  <2>. QED BY <1>1, <2>1, <2>2, Stepped
<1>7. ASSUME y.pc = "onlyedge" PROVE x.pc = "count" /\ eb[x.tmp].num = 0
  <2>1. x.pc \in {"setnbr", "count", "onlyedge", "onlylarge", "degrees", "uncount"}
        BY <1>7, CountMoves DEF CountPcs
  <2>2. x.pc = "count" BY <1>7, <2>1, CountMoves
  <2>. QED BY <1>1, <1>4, <1>7, <2>2, Stepped
<1>8. ASSUME y.pc = "onlylarge" PROVE x.pc = "onlyedge"
  <2>1. x.pc \in {"setnbr", "count", "onlyedge", "onlylarge", "degrees", "uncount"}
        BY <1>8, CountMoves DEF CountPcs
  <2>. QED BY <1>8, <2>1, CountMoves
<1>9. ASSUME y.pc \in WidenPcs \cup {"checklarge", "recent"}
      PROVE  x.pc \in WidenPcs \cup {"stamps", "checklarge", "lockstamp"}
  <2>1. x.pc \in SettlePcs BY <1>2, <1>9 DEF Stores, AddPcs, FillPcs
  <2>2. x.pc # "weight" BY <1>1, <1>4, <1>9, Stepped
  <2>. QED BY <1>6, <1>9, <2>1, <2>2 DEF SettlePcs
<1>10. ASSUME x.pc \in WidenPcs
       PROVE  /\ y.sm = x.sm
              /\ x.pc = "widen" => y.pc = IF Op(t).ts > eb[x.tmp].large
                                          THEN "raise" ELSE "unlockstamp"
              /\ x.pc = "raise" => y.pc = "unlockstamp"
              /\ x.pc = "unlockstamp" => y.pc = "recent"
  <2>1. ASSUME NEW p, Move(t, p) PROVE y.sm = x.sm /\ y.pc = p
        BY <1>1, <2>1, SMT DEF Move, Goto, Locals
  <2>. QED BY <1>4, <1>10, <2>1
<1>11. /\ x.pc = "stamps" =>
           y.pc = IF Op(t).ts < eb[x.tmp].small THEN "lockstamp" ELSE "checklarge"
       /\ x.pc = "checklarge" =>
           y.pc = IF Op(t).ts > eb[x.tmp].large THEN "lockstamp" ELSE "recent"
       BY <1>1, <1>4, Stepped
<1>12. ASSUME y.pc \in WidenPcs \cup {"checklarge", "recent"}
       PROVE  /\ y.pc = "checklarge" =>
                   /\ x.pc = "stamps" /\ eb' = eb
                   /\ eb[x.tmp].small # MARKER /\ ~(Op(t).ts < eb[x.tmp].small)
              /\ y.pc = "widen" => x.pc = "lockstamp" /\ y.sm = eb[x.tmp].small
              /\ y.pc = "raise" =>
                   x.pc = "widen" /\ y.sm = x.sm /\ eb' = eb /\ Op(t).ts > eb[x.tmp].large
              /\ y.pc = "unlockstamp" =>
                   /\ y.sm = x.sm
                   /\ \/ x.pc = "raise"
                      \/ x.pc = "widen" /\ eb' = eb /\ ~(Op(t).ts > eb[x.tmp].large)
              /\ y.pc = "recent" =>
                   \/ x.pc = "unlockstamp"
                   \/ x.pc = "checklarge" /\ eb' = eb /\ ~(Op(t).ts > eb[x.tmp].large)
       BY <1>4, <1>5, <1>9, <1>10, <1>11, <1>12
<1>. QED BY <1>3, <1>7, <1>8, <1>12

(* A thread that looks at the slot it has locked.                          *)
LEMMA Rechecked ==
  ASSUME IInv, NEW t \in Threads, NEW x, NEW y, x = th[t], y = th'[t], Recheck(t)
  PROVE  /\ x.pc = "recheck" /\ y.tmp = x.tmp /\ y.k = x.k /\ y.sv = x.sv /\ y.op = x.op
         /\ y.held \/ y.pc \in {"setnbr", "release"}
<1>1. th \in [Threads -> Locals] /\ x \in Locals BY DEF IInv, TypeOK
<1>. SUFFICES ASSUME NEW high, high = eb[x.tmp].high
              PROVE  /\ x.pc = "recheck" /\ y.tmp = x.tmp /\ y.k = x.k /\ y.sv = x.sv
                     /\ y.op = x.op /\ (y.held \/ y.pc \in {"setnbr", "release"})
     OBVIOUS
<1>2. /\ x.pc = "recheck"
      /\ \/ Goto(t, [th[t] EXCEPT !.endk = high, !.rv = 1, !.pc = "setnbr"])
         \/ Goto(t, [th[t] EXCEPT !.endk = high, !.held = TRUE, !.pc = Existing(t)])
         \/ Goto(t, [th[t] EXCEPT !.endk = high, !.pc = "release"])
      BY Zenon DEF Recheck, At
<1>3. CASE Goto(t, [th[t] EXCEPT !.endk = high, !.rv = 1, !.pc = "setnbr"])
  <2>1. /\ y.tmp = x.tmp /\ y.k = x.k /\ y.sv = x.sv /\ y.op = x.op /\ y.pc = "setnbr"
        BY <1>1, <1>3, SMT DEF Goto, Locals
  <2>. QED BY <1>2, <2>1
<1>4. CASE Goto(t, [th[t] EXCEPT !.endk = high, !.held = TRUE, !.pc = Existing(t)])
  <2>1. /\ y.tmp = x.tmp /\ y.k = x.k /\ y.sv = x.sv /\ y.op = x.op /\ y.held = TRUE
        BY <1>1, <1>4, SMT DEF Goto, Locals
  <2>. QED BY <1>2, <2>1
<1>5. CASE Goto(t, [th[t] EXCEPT !.endk = high, !.pc = "release"])
  <2>1. /\ y.tmp = x.tmp /\ y.k = x.k /\ y.sv = x.sv /\ y.op = x.op /\ y.pc = "release"
        BY <1>1, <1>5, SMT DEF Goto, Locals
  <2>. QED BY <1>2, <2>1
<1>. QED BY <1>2, <1>3, <1>4, <1>5

(* One that updates an edge it has found under the lock of its slot.       *)
LEMMA UpdatesOn ==
  ASSUME th \in [Threads -> Locals], NEW t \in Threads, NEW p, NEW v,
         \/ Move(t, p)
         \/ Goto(t, [th[t] EXCEPT !.nw = v, !.pc = p])
         \/ Goto(t, [th[t] EXCEPT !.sm = v, !.pc = p])
  PROVE  /\ th'[t].tmp = th[t].tmp /\ th'[t].k = th[t].k /\ th'[t].sv = th[t].sv
         /\ th'[t].op = th[t].op /\ th'[t].held = th[t].held
<1>1. th[t] \in Locals OBVIOUS
<1>2. CASE Move(t, p) BY <1>1, <1>2, SMT DEF Move, Goto, Locals
<1>3. CASE Goto(t, [th[t] EXCEPT !.nw = v, !.pc = p]) BY <1>1, <1>3, SMT DEF Goto, Locals
<1>4. CASE Goto(t, [th[t] EXCEPT !.sm = v, !.pc = p]) BY <1>1, <1>4, SMT DEF Goto, Locals
<1>. QED BY <1>2, <1>3, <1>4

LEMMA HeldOn ==
  ASSUME IInv, NEW t \in Threads, Step(t), NEW x, NEW y, x = th[t], y = th'[t],
         x.held, x.pc # "restore"
  PROVE  /\ x.pc \in UpdatePcs
         /\ y.tmp = x.tmp /\ y.k = x.k /\ y.sv = x.sv /\ y.op = x.op /\ y.held = x.held
<1>1. th \in [Threads -> Locals] /\ x \in Locals BY DEF IInv, TypeOK
<1>2. x.pc \in UpdatePcs BY <1>1, FieldTypes DEF IInv, LocalOK, Fits
<1>3. ASSUME NEW p, Move(t, p)
      PROVE  y.tmp = x.tmp /\ y.k = x.k /\ y.sv = x.sv /\ y.op = x.op /\ y.held = x.held
      BY <1>1, <1>3, UpdatesOn
<1>4. /\ x.pc = "change" => Move(t, "setnbr") \/ Move(t, "weight")
      /\ x.pc = "weight" => Move(t, "stamps")
      /\ x.pc = "stamps" => Move(t, "lockstamp") \/ Move(t, "checklarge")
      /\ x.pc = "checklarge" => Move(t, "lockstamp") \/ Move(t, "recent")
      /\ x.pc = "widen" => Move(t, "raise") \/ Move(t, "unlockstamp")
      /\ x.pc = "raise" => Move(t, "unlockstamp")
      /\ x.pc = "unlockstamp" => Move(t, "recent")
      /\ x.pc = "recent" => Move(t, "restore")
      BY StampAt, Zenon
         DEF ChangeTotal, WriteWeight, CheckSmall, CheckLarge, CompareLarge, StoreLarge,
             UnlockStamp, WriteRecent
<1>5. CASE x.pc = "readweight"
  <2>1. PICK v : Goto(t, [th[t] EXCEPT !.nw = v, !.pc = "change"])
        BY <1>5, StampAt, Zenon DEF ReadWeight
  <2>. QED BY <1>1, <1>2, <2>1, UpdatesOn
<1>6. CASE x.pc = "lockstamp"
  <2>1. PICK v : Goto(t, [th[t] EXCEPT !.sm = v, !.pc = "widen"])
        BY <1>6, StampAt, Zenon DEF LockStamp
  <2>. QED BY <1>1, <1>2, <2>1, UpdatesOn
<1>. QED BY <1>2, <1>3, <1>4, <1>5, <1>6 DEF UpdatePcs

(* How a thread comes to hold a slot's lock without filling the slot.      *)
LEMMA HolderPcs ==
  ASSUME IInv, NEW t \in Threads, Step(t), th'[t].pc \in {"recheck", "release"}
  PROVE  \/ LockSlot(t) /\ th'[t].pc = "recheck"
         \/ Recheck(t)
<1>1. th \in [Threads -> Locals] /\ th[t] \in Locals BY DEF IInv, TypeOK
<1>2. CASE LockSlot(t)
  <2>1. th'[t].pc = "recheck" BY <1>1, <1>2, SMT DEF LockSlot, Goto, Locals
  <2>. QED BY <1>2, <2>1
<1>3. CASE ScanBlock(t)
  <2>1. th'[t].pc \in {"scannext", "slot"} BY <1>1, <1>3, SMT DEF ScanBlock, Goto, Locals
  <2>. QED BY <2>1
<1>4. CASE ScanSlot(t) \/ Release(t)
  <2>1. /\ th[t].pc # "idle"
        /\ Move(t, Existing(t)) \/ Move(t, "lockslot") \/ Goto(t, NextSlot(t))
        BY <1>4, Zenon DEF ScanSlot, Release, At
  <2>2. Existing(t) \in {"lockweight", "readweight", "change"} BY <2>1, ExistingPc
  <2>3. CASE Goto(t, NextSlot(t))
    <3>1. th'[t].pc \in {"scannext", "slot"} BY <1>1, <2>3, SMT DEF NextSlot, Goto, Locals
    <3>. QED BY <3>1
  <2>. QED BY <1>1, <2>1, <2>2, <2>3, Stepped
<1>5. CASE \/ SetNeighbor(t) \/ CountEdge(t) \/ ResetSmall(t) \/ ResetLarge(t) \/ CountDegrees(t)
           \/ ChangeTotal(t)
  <2>1. \/ Move(t, "count") \/ Move(t, "onlyedge") \/ Move(t, "onlylarge")
        \/ Move(t, "degrees") \/ Move(t, "high") \/ Move(t, "setnbr") \/ Move(t, "weight")
        BY <1>5, Zenon DEF SetNeighbor, CountEdge, ResetSmall, ResetLarge, CountDegrees, ChangeTotal
  <2>. QED BY <1>1, <2>1, Stepped
<1>. QED BY <1>2, <1>3, <1>4, <1>5, NoPlaceSteps, Zenon DEF Step, PlacePcs

LEMMA HolderCame ==
  ASSUME IInv, NEW t \in Threads, Step(t), NEW x, NEW y, x = th[t], y = th'[t],
         HoldsSlot(t)', y.pc \notin AddPcs
  PROVE  /\ y.tmp = x.tmp /\ y.k = x.k /\ x.pc \in SlotPcs
         /\ \/ x.pc = "lockslot" /\ y.sv = Slot(t).first
            \/ HoldsSlot(t) /\ x.pc \notin AddPcs /\ y.sv = x.sv
<1>1. th \in [Threads -> Locals] /\ x \in Locals BY DEF IInv, TypeOK
<1>2. CASE LockSlot(t)
  <2>1. /\ x.pc = "lockslot" /\ y.tmp = x.tmp /\ y.k = x.k /\ y.sv = Slot(t).first
    <3>. SUFFICES ASSUME NEW v, v = Slot(t).first
                  PROVE  x.pc = "lockslot" /\ y.tmp = x.tmp /\ y.k = x.k /\ y.sv = v
         OBVIOUS
    <3>1. x.pc = "lockslot" /\ Goto(t, [th[t] EXCEPT !.sv = v, !.pc = "recheck"])
          BY <1>2, Zenon DEF LockSlot, At
    <3>2. th'[t].tmp = th[t].tmp /\ th'[t].k = th[t].k /\ th'[t].sv = v
          BY <1>1, <3>1, SMT DEF Goto, Locals
    <3>. QED BY <3>1, <3>2
  <2>. QED BY <2>1 DEF SlotPcs
<1>3. CASE Recheck(t)
  <2>1. x.pc = "recheck" /\ y.tmp = x.tmp /\ y.k = x.k /\ y.sv = x.sv BY <1>3, Rechecked
  <2>. QED BY <2>1 DEF SlotPcs, HoldsSlot, AddPcs, FillPcs
<1>4. CASE x.held /\ x.pc # "restore"
  <2>1. /\ x.pc \in UpdatePcs /\ y.tmp = x.tmp /\ y.k = x.k /\ y.sv = x.sv BY <1>4, HeldOn
  <2>. QED BY <1>4, <2>1 DEF HoldsSlot, UpdatePcs, AddPcs, FillPcs, SlotPcs
<1>5. CASE ~LockSlot(t) /\ ~Recheck(t) /\ ~(x.held /\ x.pc # "restore")
  <2>1. y.held \/ y.pc = "restore"
        BY <1>5, HolderPcs DEF HoldsSlot, AddPcs, FillPcs
  <2>2. CASE \E i \in DOMAIN res : Take(t, i) BY <2>1, <2>2, Starts
  <2>3. CASE Ends(t) BY <2>1, <2>3, Ending, Returned
  <2>4. CASE Continues(t, x, y)
    <3>. USE DEF UpdatePcs, AddPcs, FillPcs, SettlePcs
    <3>1. x.pc # "restore" BY <2>4 DEF Continues, Walks, Meets, Takes, Stores
    <3>2. ~x.held BY <1>5, <3>1
    <3>3. x.pc # "recheck" BY <1>5, StampAt
    <3>4. CASE Walks(t, x, y) BY <2>1, <3>2, <3>4 DEF Walks
    <3>5. CASE Meets(t, x, y)
      <4>1. x.pc # "idle" /\ y.pc = Existing(t) /\ y.held = x.held BY <3>3, <3>5 DEF Meets
      <4>2. y.pc \in {"lockweight", "readweight", "change"} BY <4>1, ExistingPc
      <4>. QED BY <2>1, <3>2, <4>1, <4>2
    <3>6. CASE Takes(t, x, y) BY <3>3, <3>6 DEF Takes
    <3>7. CASE Stores(t, x, y) BY <2>1, <3>2, <3>7 DEF Stores
    <3>. QED BY <2>4, <3>4, <3>5, <3>6, <3>7 DEF Continues
  <2>. QED BY <2>2, <2>3, <2>4, Course
<1>. QED BY <1>2, <1>3, <1>4, <1>5

(* A lock is given back in three places.                                   *)
LEMMA HoldsOn ==
  ASSUME IInv, NEW t \in Threads, Step(t), NEW x, NEW y, x = th[t], y = th'[t], HoldsSlot(t),
         x.pc \notin {"release", "unlockslot", "restore"}
  PROVE  HoldsSlot(t)' /\ y.tmp = x.tmp /\ y.k = x.k
<1>1. CASE x.pc = "recheck" BY <1>1, StampAt, Rechecked DEF HoldsSlot
<1>2. CASE x.pc \in FillPcs BY <1>2, CountMoves DEF HoldsSlot, FillPcs
<1>3. CASE x.held BY <1>3, HeldOn DEF HoldsSlot
<1>. QED BY <1>1, <1>2, <1>3 DEF HoldsSlot, FillPcs
------------------------------------------------------------------------------
(* What a step leaves of the stamps.                                       *)
LEMMA HandedOutBlocks ==
  ASSUME Safe
  PROVE  /\ HandedOut \subseteq Blocks /\ Listed \subseteq HandedOut
         /\ \A b \in HandedOut : b # tail
         /\ \A t \in Threads : th[t].pc \in SlotPcs => th[t].tmp \in HandedOut
<1>1. tail \in Nat BY SizesPositive DEF Safe, IInv, TypeOK
<1>. QED BY <1>1, Numbers, SlotListed DEF HandedOut, Listed

LEMMA StampTypes ==
  ASSUME IInv, NEW t \in Threads
  PROVE  /\ \A b \in Blocks : /\ eb[b].small \in Int /\ eb[b].large \in Int
                              /\ \A j \in Slots : eb[b].edges[j].first \in Int
         /\ th[t].sm \in Int /\ th[t].tmp \in Nat
         /\ th[t].pc # "idle" => Op(t).ts \in Nat
<1>1. th[t] \in Locals /\ eb \in [Blocks -> EdgeBlock] BY DEF IInv, TypeOK
<1>2. th[t].sm \in Int /\ th[t].tmp \in Nat BY <1>1, SizesPositive, FieldTypes
<1>. QED BY <1>1, <1>2, BlockTypes, OpFields

(* The larger stamp does not fall, and the smaller one does not rise above *)
(* a time it is no later than, until they are reset.                       *)
LEMMA LargeRises ==
  ASSUME Safe, NEW t \in Threads, Step(t), Compared(t), NEW b \in HandedOut,
         ~(th[t].pc \in ResetPcs /\ th[t].tmp = b)
  PROVE  eb[b].large <= eb'[b].large
<1>1. /\ IInv /\ b \in Blocks /\ b # tail /\ eb[b].large \in Int
      /\ th[t].pc # "idle" => Op(t).ts \in Nat
  <2>1. IInv BY DEF Safe
  <2>. QED BY <2>1, HandedOutBlocks, StampTypes
<1>2. CASE NewBlock(t) BY <1>1, <1>2, BlockAdded
<1>3. CASE ~NewBlock(t) /\ ~(th[t].pc \in StampPcs /\ b = th[t].tmp)
      BY <1>1, <1>3, StampsHere
<1>4. CASE ~NewBlock(t) /\ th[t].pc \in {"lockstamp", "unlockstamp"} /\ b = th[t].tmp
  <2>1. eb'[b].large = eb[b].large BY <1>1, <1>4, StampsHere
  <2>. QED BY <1>1, <2>1
<1>5. CASE ~NewBlock(t) /\ th[t].pc = "raise" /\ b = th[t].tmp
  <2>1. eb'[b].large = Op(t).ts BY <1>1, <1>5, StampsHere
  <2>2. eb[b].large < Op(t).ts BY <1>5 DEF Compared
  <2>. QED BY <1>1, <1>5, <2>1, <2>2
<1>. QED BY <1>2, <1>3, <1>4, <1>5 DEF StampPcs

LEMMA UnderStays ==
  ASSUME Safe, NEW t \in Threads, Step(t), NEW b \in HandedOut, NEW x, Under(b, x),
         ~(th[t].pc \in ResetPcs /\ th[t].tmp = b)
  PROVE  Under(b, x)'
<1>1. /\ IInv /\ b \in Blocks /\ b # tail /\ x \in Nat
      /\ eb[b].small \in Int /\ eb[b].large \in Int /\ th[t].sm \in Int
      /\ th[t].pc # "idle" => Op(t).ts \in Nat
  <2>1. IInv BY DEF Safe
  <2>. QED BY <2>1, HandedOutBlocks, StampTypes DEF Under
<1>2. ASSUME NEW u \in Threads, th'[u].pc \in WidenPcs, th'[u].tmp = b PROVE th'[u].sm <= x
  <2>1. CASE u # t BY <1>1, <1>2, <2>1, OthersKeep DEF Under
  <2>2. CASE u = t
    <3>1. /\ th[t].tmp = b
          /\ th'[t].sm = eb[b].small \/ (th[t].pc \in WidenPcs /\ th'[t].sm = th[t].sm)
          BY <1>1, <1>2, <2>2, StampMoves DEF WidenPcs
    <3>. QED BY <2>2, <3>1 DEF Under
  <2>. QED BY <2>1, <2>2
<1>3. eb'[b].small <= x
  <2>1. CASE NewBlock(t) BY <1>1, <2>1, BlockAdded DEF Under
  <2>2. CASE ~NewBlock(t)
    <3>1. CASE \/ ~(th[t].pc \in StampPcs /\ b = th[t].tmp)
               \/ th[t].pc = "raise" /\ b = th[t].tmp
      <4>1. eb'[b].small = eb[b].small BY <1>1, <2>2, <3>1, StampsHere
      <4>. QED BY <4>1 DEF Under
    <3>2. CASE th[t].pc = "lockstamp" /\ b = th[t].tmp
      <4>1. eb'[b].small = MARKER BY <1>1, <2>2, <3>2, StampsHere
      <4>. QED BY <1>1, <4>1 DEF MARKER
    <3>3. CASE th[t].pc = "unlockstamp" /\ b = th[t].tmp
      <4>1. eb'[b].small = Lesser(th[t].sm, Op(t).ts) BY <1>1, <2>2, <3>3, StampsHere
      <4>2. th[t].sm <= x /\ Op(t).ts \in Nat BY <1>1, <3>3 DEF Under, WidenPcs
      <4>. QED BY <1>1, <4>1, <4>2 DEF Lesser
    <3>. QED BY <3>1, <3>2, <3>3 DEF StampPcs
  <2>. QED BY <2>1, <2>2
<1>. QED BY <1>1, <1>2, <1>3 DEF Under

(* A time that the stamps of a block cover stays covered, until they are   *)
(* reset.                                                                  *)
LEMMA SpansStay ==
  ASSUME Safe, Safe', NEW t \in Threads, Step(t), Compared(t), NEW b \in HandedOut, NEW x,
         Spans(b, x), ~(th[t].pc \in ResetPcs /\ th[t].tmp = b)
  PROVE  Spans(b, x)'
<1>1. Under(b, x)' BY UnderStays DEF Spans
<1>2. eb[b].large <= eb'[b].large BY LargeRises
<1>3. eb[b].large \in Int /\ eb'[b].large \in Int /\ x \in Nat
  <2>1. CASE NewBlock(t)
    <3>1. eb'[b] = eb[b] BY <2>1, HandedOutBlocks, BlockAdded DEF Safe
    <3>. QED BY <3>1, HandedOutBlocks, StampTypes DEF Safe, Spans, Under
  <2>2. CASE ~NewBlock(t)
    <3>1. IInv' BY DEF Safe
    <3>2. b \in Blocks BY HandedOutBlocks
    <3>3. eb[b] \in EdgeBlock /\ eb'[b] \in EdgeBlock BY <3>1, <3>2 DEF Safe, IInv, TypeOK
    <3>. QED BY <3>3 DEF EdgeBlock, Spans, Under
  <2>. QED BY <2>1, <2>2
<1>. QED BY <1>1, <1>2, <1>3 DEF Spans

(* What the steps of a thread past its looks at the stamps rest on.        *)
LEMMA OwnCompared ==
  ASSUME Safe, Widening, NEW t \in Threads, Step(t), Compared(t)
  PROVE  /\ Compared(t)'
         /\ th'[t].pc = "recent" =>
              Spans(th[t].tmp, Op(t).ts)' /\ th'[t].tmp = th[t].tmp /\ Op(t)' = Op(t)
<1>. DEFINE Looks == {"checklarge", "raise", "unlockstamp", "recent"}
<1>. USE DEF WidenPcs
<1>1. IInv BY DEF Safe
<1>. SUFFICES ASSUME th'[t].pc \in Looks
              PROVE  /\ Compared(t)'
                     /\ th'[t].pc = "recent" => /\ Spans(th[t].tmp, Op(t).ts)'
                                               /\ th'[t].tmp = th[t].tmp /\ Op(t)' = Op(t)
     BY DEF Compared
<1>2. th'[t].tmp = th[t].tmp /\ Op(t)' = Op(t) BY <1>1, StampMoves
<1>. SUFFICES ASSUME NEW b, b = th[t].tmp, NEW s, s = Op(t).ts
              PROVE  /\ th'[t].pc \in {"checklarge", "recent"} =>
                          /\ s \in Nat /\ eb'[b].small <= s
                          /\ \A u \in Threads :
                               th'[u].pc \in WidenPcs /\ th'[u].tmp = b => th'[u].sm <= s
                     /\ th'[t].pc = "raise" => eb'[b].large < s
                     /\ th'[t].pc \in {"unlockstamp", "recent"} => s <= eb'[b].large
     BY <1>2 DEF Compared, Spans, Under
<1>3. /\ th[t].pc \in {"stamps", "checklarge"} \cup WidenPcs
      /\ th[t].pc \in SlotPcs /\ ~NewBlock(t)
  <2>1. th[t].pc \in {"stamps", "checklarge"} \cup WidenPcs BY <1>1, StampMoves
  <2>. QED BY <2>1 DEF SlotPcs, NewBlock, At
<1>4. /\ b \in Blocks /\ s \in Nat /\ th[t].sm \in Int
      /\ eb[b].small \in Int /\ eb[b].large \in Int
      BY <1>1, <1>3, AtSlot, StampTypes
<1>5. CASE th'[t].pc = "checklarge"
  <2>1. eb' = eb /\ eb[b].small # MARKER /\ ~(s < eb[b].small) BY <1>1, <1>5, StampMoves
  <2>2. ASSUME NEW u \in Threads, th'[u].pc \in WidenPcs, th'[u].tmp = b PROVE FALSE
    <3>1. u # t BY <1>5, <2>2
    <3>2. th[u].pc \in WidenPcs /\ th[u].tmp = b BY <1>1, <2>2, <3>1, OthersKeep
    <3>. QED BY <2>1, <3>2 DEF Widening
  <2>. QED BY <1>4, <1>5, <2>1, <2>2
<1>6. CASE th'[t].pc = "raise"
  <2>1. eb' = eb /\ s > eb[b].large BY <1>1, <1>6, StampMoves
  <2>. QED BY <1>4, <1>6, <2>1
<1>7. CASE th'[t].pc = "unlockstamp"
  <2>1. CASE th[t].pc = "raise"
    <3>1. eb'[b].large = s BY <1>1, <1>3, <1>4, <2>1, StampsHere
    <3>. QED BY <1>4, <1>7, <3>1
  <2>2. CASE th[t].pc # "raise"
    <3>1. eb' = eb /\ ~(s > eb[b].large) BY <1>1, <1>7, <2>2, StampMoves
    <3>. QED BY <1>4, <1>7, <3>1
  <2>. QED BY <2>1, <2>2
<1>8. CASE th'[t].pc = "recent" /\ th[t].pc = "unlockstamp"
  <2>1. eb'[b].small = Lesser(th[t].sm, s) /\ eb'[b].large = eb[b].large
        BY <1>1, <1>3, <1>4, <1>8, StampsHere
  <2>2. s <= eb[b].large BY <1>8 DEF Compared
  <2>3. ASSUME NEW u \in Threads, th'[u].pc \in WidenPcs, th'[u].tmp = b PROVE FALSE
    <3>1. u # t BY <1>8, <2>3
    <3>2. th[u].pc \in WidenPcs /\ th[u].tmp = b BY <1>1, <2>3, <3>1, OthersKeep
    <3>. QED BY <1>8, <3>1, <3>2 DEF Widening
  <2>. QED BY <1>4, <1>8, <2>1, <2>2, <2>3 DEF Lesser
<1>9. CASE th'[t].pc = "recent" /\ th[t].pc # "unlockstamp"
  <2>1. th[t].pc = "checklarge" /\ eb' = eb /\ ~(s > eb[b].large) BY <1>1, <1>9, StampMoves
  <2>2. /\ eb[b].small <= s
        /\ \A u \in Threads : th[u].pc \in WidenPcs /\ th[u].tmp = b => th[u].sm <= s
        BY <2>1 DEF Compared, Under
  <2>3. ASSUME NEW u \in Threads, th'[u].pc \in WidenPcs, th'[u].tmp = b PROVE th'[u].sm <= s
    <3>1. u # t BY <1>9, <2>3
    <3>2. th'[u] = th[u] BY <1>1, <3>1, OthersKeep
    <3>. QED BY <2>2, <2>3, <3>2
  <2>. QED BY <1>4, <1>9, <2>1, <2>2, <2>3
<1>. QED BY <1>5, <1>6, <1>7, <1>8, <1>9

(* The other threads find what they have found.                            *)
LEMMA OthersCompared ==
  ASSUME Safe, Safe', Widening, BlockEffectivelyLocked, NEW t \in Threads, Step(t), Compared(t),
         NEW u \in Threads, u # t, Compared(u)
  PROVE  Compared(u)'
<1>. SUFFICES ASSUME NEW b, b = th[u].tmp, NEW s, s = Op(u).ts,
                     th[u].pc \in WidenPcs \cup {"checklarge", "recent"}
              PROVE  Compared(u)'
     BY OthersKeep DEF Safe, Compared, WidenPcs
<1>1. IInv /\ th'[u] = th[u] /\ Op(u)' = Op(u) BY OthersKeep DEF Safe
<1>2. b \in HandedOut
  <2>1. th[u].pc \in SlotPcs BY DEF SlotPcs, WidenPcs
  <2>. QED BY <2>1, HandedOutBlocks
<1>3. ~(th[t].pc \in ResetPcs /\ th[t].tmp = b)
      BY DEF BlockEffectivelyLocked, StoringPcs, SettlePcs, WidenPcs
<1>4. ASSUME th[u].pc = "checklarge" PROVE Under(b, s)'
      BY <1>2, <1>3, <1>4, UnderStays DEF Compared
<1>5. ASSUME th[u].pc = "recent" PROVE Spans(b, s)'
      BY <1>2, <1>3, <1>5, SpansStay DEF Compared
<1>6. ASSUME th[u].pc \in {"raise", "unlockstamp"} PROVE eb'[b].large = eb[b].large
  <2>1. b \in Blocks /\ b # tail BY <1>2, HandedOutBlocks
  <2>2. CASE NewBlock(t) BY <1>1, <2>1, <2>2, BlockAdded
  <2>3. CASE ~NewBlock(t)
    <3>1. ~(th[t].pc = "raise" /\ th[t].tmp = b)
          BY <1>6 DEF Widening, WidenPcs
    <3>. QED BY <1>1, <1>3, <2>1, <2>3, <3>1, StampsHere DEF StampPcs
  <2>. QED BY <2>2, <2>3
<1>. QED BY <1>1, <1>4, <1>5, <1>6 DEF Compared, Spans, Under

LEMMA SettledStays ==
  ASSUME Safe, Safe', Results, Widening, NEW t \in Threads, Step(t), Compared(t),
         NEW b \in HandedOut, NEW j \in Slots, NEW x, Settled(b, j, x),
         ~(th[t].pc \in ResetPcs /\ th[t].tmp = b)
  PROVE  Settled(b, j, x)'
<1>1. IInv BY DEF Safe
<1>2. CASE Spans(b, x) BY <1>2, SpansStay DEF Settled
<1>3. CASE \E u \in Threads :
             th[u].rv = 1 /\ th[u].pc # "recent" /\ AtPlace(u, b, j) /\ Op(u).ts = x
  <2>1. PICK u \in Threads :
          th[u].rv = 1 /\ th[u].pc # "recent" /\ AtPlace(u, b, j) /\ Op(u).ts = x
        BY <1>3
  <2>2. CASE u # t
    <3>1. th'[u] = th[u] /\ Op(u)' = Op(u) BY <1>1, <2>2, OthersKeep
    <3>. QED BY <2>1, <3>1 DEF Settled, AtPlace
  <2>3. CASE u = t
    <3>1. th'[t].tmp = b /\ th'[t].k = j /\ th'[t].rv = 1 /\ Op(t)' = Op(t)
          BY <1>1, <2>1, <2>3, AddsOn DEF Results, AtPlace
    <3>2. CASE th'[t].pc = "recent"
      <4>1. Spans(b, x)' BY <2>1, <2>3, <3>2, OwnCompared DEF AtPlace, Spans, Under
      <4>. QED BY <4>1 DEF Settled
    <3>3. CASE th'[t].pc # "recent" BY <2>1, <2>3, <3>1, <3>3 DEF Settled, AtPlace
    <3>. QED BY <3>2, <3>3
  <2>. QED BY <2>2, <2>3
<1>. QED BY <1>2, <1>3 DEF Settled

(* Stamps are locked by one thread at a time.                              *)
LEMMA WideningStays ==
  ASSUME Safe, BlockEffectivelyLocked, Widening, NEW t \in Threads, Step(t)
  PROVE  Widening'
<1>1. IInv BY DEF Safe
<1>2. ASSUME NEW u \in Threads, th'[u].pc \in WidenPcs, u # t
      PROVE  /\ th[u].pc \in WidenPcs /\ th'[u].tmp = th[u].tmp
             /\ eb[th[u].tmp].small = MARKER /\ th[u].tmp \in HandedOut
  <2>1. th[u].pc \in WidenPcs /\ th'[u].tmp = th[u].tmp BY <1>1, <1>2, OthersKeep
  <2>2. th[u].pc \in SlotPcs BY <2>1 DEF SlotPcs, WidenPcs
  <2>. QED BY <2>1, <2>2, HandedOutBlocks DEF Widening
<1>3. ASSUME th'[t].pc \in WidenPcs
      PROVE  /\ th'[t].tmp = th[t].tmp /\ th[t].tmp \in Blocks
             /\ eb'[th[t].tmp].small = MARKER
             /\ th[t].pc \in WidenPcs \/ eb[th[t].tmp].small # MARKER
  <2>1. /\ th[t].pc \in {"lockstamp", "widen", "raise"} /\ th'[t].tmp = th[t].tmp
        /\ th[t].pc = "widen" => eb' = eb
        BY <1>1, <1>3, StampMoves DEF WidenPcs
  <2>2. th[t].pc \in SlotPcs /\ ~NewBlock(t) BY <2>1 DEF SlotPcs, NewBlock, At
  <2>3. th[t].tmp \in Blocks BY <1>1, <2>2, AtSlot
  <2>4. CASE th[t].pc = "lockstamp" BY <1>1, <2>1, <2>2, <2>3, <2>4, StampsHere
  <2>5. CASE th[t].pc # "lockstamp"
    <3>1. th[t].pc \in WidenPcs /\ eb[th[t].tmp].small = MARKER
          BY <2>1, <2>5 DEF Widening, WidenPcs
    <3>2. eb'[th[t].tmp].small = eb[th[t].tmp].small BY <1>1, <2>1, <2>2, <2>3, <2>5, StampsHere
    <3>. QED BY <2>1, <2>3, <3>1, <3>2
  <2>. QED BY <2>4, <2>5
<1>4. ASSUME NEW u \in Threads, th'[u].pc \in WidenPcs PROVE eb'[th'[u].tmp].small = MARKER
  <2>1. CASE u = t BY <1>3, <1>4, <2>1
  <2>2. CASE u # t
    <3>. SUFFICES ASSUME NEW b, b = th[u].tmp PROVE eb'[b].small = MARKER
         BY <1>2, <1>4, <2>2
    <3>1. /\ th[u].pc \in WidenPcs /\ eb[b].small = MARKER
          /\ b \in HandedOut /\ b \in Blocks /\ b # tail
          BY <1>2, <1>4, <2>2, HandedOutBlocks
    <3>2. CASE NewBlock(t) BY <1>1, <3>1, <3>2, BlockAdded
    <3>3. CASE ~NewBlock(t)
      <4>1. ASSUME th[t].pc \in StampPcs, b = th[t].tmp PROVE th[t].pc = "lockstamp"
        <5>1. th[t].pc \notin WidenPcs BY <2>2, <3>1, <4>1 DEF Widening
        <5>2. th[t].pc \notin ResetPcs
              BY <2>2, <3>1, <4>1 DEF BlockEffectivelyLocked, StoringPcs, SettlePcs, WidenPcs
        <5>. QED BY <4>1, <5>1, <5>2 DEF StampPcs, WidenPcs
      <4>. QED BY <1>1, <3>1, <3>3, <4>1, StampsHere
    <3>. QED BY <3>2, <3>3
  <2>. QED BY <2>1, <2>2
<1>5. ASSUME NEW u \in Threads, NEW v \in Threads,
             th'[u].pc \in WidenPcs, th'[v].pc \in WidenPcs, th'[u].tmp = th'[v].tmp
      PROVE  u = v
  <2>1. CASE u # t /\ v # t BY <1>2, <1>5, <2>1 DEF Widening
  <2>2. CASE u = t /\ v # t BY <1>2, <1>3, <1>5, <2>2 DEF Widening
  <2>3. CASE u # t /\ v = t BY <1>2, <1>3, <1>5, <2>3 DEF Widening
  <2>. QED BY <2>1, <2>2, <2>3
<1>. QED BY <1>4, <1>5 DEF Widening

------------------------------------------------------------------------------
(* A thread that is to reset the stamps has the only edge of the block.    *)
LEMMA OnlyEdgeCame ==
  ASSUME Safe, Safe', Results, Sums, BlockEffectivelyLocked', NEW t \in Threads, Step(t),
         th'[t].pc = "onlyedge", NEW j \in Slots, Occupied(th[t].tmp, j)'
  PROVE  j = th'[t].k
<1>. SUFFICES ASSUME NEW b, b = th[t].tmp PROVE j = th'[t].k
     OBVIOUS
<1>1. IInv BY DEF Safe
<1>2. th[t].pc = "count" /\ eb[b].num = 0 /\ th'[t].tmp = b /\ th'[t].k = th[t].k
  <2>. SUFFICES ASSUME NEW x, NEW y, x = th[t], y = th'[t]
                PROVE  x.pc = "count" /\ eb[x.tmp].num = 0 /\ y.tmp = x.tmp /\ y.k = x.k
       OBVIOUS
  <2>1. y.pc = "onlyedge" OBVIOUS
  <2>. QED BY <1>1, <2>1, StampMoves DEF ResetPcs
<1>3. /\ th[t].pc \in SlotPcs /\ ~NewBlock(t) /\ b \in HandedOut /\ b \in Blocks
  <2>1. th[t].pc \in SlotPcs /\ ~NewBlock(t) BY <1>2 DEF SlotPcs, NewBlock, At
  <2>. QED BY <2>1, HandedOutBlocks
<1>4. Occupied(b, j)
  <2>1. Occupied(b, j)' BY <1>2 DEF Occupied
  <2>. QED BY <1>2, <1>3, <2>1, Refilled
<1>5. ~Counts(b, j)
  <2>1. Cardinality(Counted(b)) = 0 BY <1>2, <1>3 DEF Sums, Totals
  <2>2. IsFiniteSet(Slots) BY FS_Interval, SizesPositive DEF Slots
  <2>3. IsFiniteSet(Counted(b)) BY <2>2, FS_Subset DEF Counted
  <2>4. Counted(b) = {} BY <2>1, <2>3, FS_EmptySet
  <2>. QED BY <2>4 DEF Counted
<1>6. PICK u \in Threads : th[u].pc \in {"count", "clear"} /\ th[u].tmp = b /\ th[u].k = j
      BY <1>4, <1>5 DEF Counts, SomeAt
<1>7. CASE u = t BY <1>2, <1>6, <1>7
<1>8. CASE u # t /\ th[u].pc = "count"
  <2>1. th'[u] = th[u] BY <1>1, <1>8, OthersKeep
  <2>. QED BY <1>2, <1>6, <1>8, <2>1 DEF BlockEffectivelyLocked, StoringPcs, ResetPcs
<1>9. CASE th[u].pc = "clear"
  <2>1. /\ Fits(th[t].pc, Op(t).kind, th[t].tmp, th[t].k, th[t].endk, th[t].sv, th[t].held)
        /\ Fits(th[u].pc, Op(u).kind, th[u].tmp, th[u].k, th[u].endk, th[u].sv, th[u].held)
        BY <1>1, <1>2, <1>9, Working
  <2>2. Op(t).kind # "remove" /\ Op(u).kind = "remove"
        BY <1>2, <1>9, <2>1 DEF Fits, InsertPcs, RemovalPcs
  <2>. QED BY <1>1, <1>2, <1>9, <2>2, KindsAgree
<1>. QED BY <1>6, <1>7, <1>8, <1>9

LEMMA OnlyEdgeStays ==
  ASSUME Safe, Safe', Results, BlockEffectivelyLocked, BlockEffectivelyLocked',
         NEW t \in Threads, Step(t), NEW u \in Threads, u # t, Covers(u),
         th'[u].pc \in ResetPcs, NEW j \in Slots, Occupied(th[u].tmp, j)'
  PROVE  j = th'[u].k
<1>. SUFFICES ASSUME NEW b, b = th[u].tmp PROVE j = th'[u].k
     OBVIOUS
<1>1. IInv BY DEF Safe
<1>2. th'[u] = th[u] /\ th[u].pc \in ResetPcs BY <1>1, OthersKeep
<1>3. b \in HandedOut /\ b \in Blocks /\ b # tail
  <2>1. th[u].pc \in SlotPcs BY <1>2 DEF SlotPcs, ResetPcs
  <2>. QED BY <2>1, HandedOutBlocks
<1>4. Occupied(b, j)
  <2>0. Occupied(b, j)' BY <1>2 DEF Occupied
  <2>1. CASE NewBlock(t) BY <1>1, <1>3, <2>0, <2>1, BlockAdded DEF Occupied
  <2>2. CASE ~NewBlock(t)
    <3>1. ASSUME th[t].pc \in {"setnbr", "high", "clear"}, Here(t, b, j) PROVE FALSE
      <4>1. CASE th[t].pc = "setnbr"
        <5>1. th'[t].pc = "count" /\ th'[t].tmp = th[t].tmp
              BY <1>1, <4>1, CountMoves DEF FillPcs
        <5>. QED BY <1>2, <3>1, <5>1 DEF BlockEffectivelyLocked, StoringPcs, Here
      <4>2. CASE th[t].pc = "high"
            BY <1>2, <3>1, <4>2 DEF BlockEffectivelyLocked, StoringPcs, Here
      <4>3. CASE th[t].pc = "clear" BY <1>3, <2>0, <2>2, <3>1, <4>3, Refilled
      <4>. QED BY <3>1, <4>1, <4>2, <4>3
    <3>. QED BY <1>3, <2>0, <2>2, <3>1, Refilled
  <2>. QED BY <2>1, <2>2
<1>. QED BY <1>2, <1>4 DEF Covers

(* It still has once it has reset the first of them.                       *)
LEMMA OnlyEdgeGoesOn ==
  ASSUME Safe, Safe', Results, NEW t \in Threads, Step(t), Covers(t),
         th'[t].pc = "onlylarge", NEW j \in Slots, Occupied(th[t].tmp, j)'
  PROVE  j = th'[t].k
<1>. SUFFICES ASSUME NEW b, b = th[t].tmp PROVE j = th'[t].k
     OBVIOUS
<1>1. IInv BY DEF Safe
<1>2. th[t].pc = "onlyedge" /\ th'[t].tmp = b /\ th'[t].k = th[t].k
      BY <1>1, StampMoves DEF ResetPcs
<1>3. /\ ~NewBlock(t) /\ b \in HandedOut /\ b \in Blocks
  <2>1. th[t].pc \in SlotPcs /\ ~NewBlock(t) BY <1>2 DEF SlotPcs, NewBlock, At
  <2>. QED BY <2>1, HandedOutBlocks
<1>4. Occupied(b, j)
  <2>1. Occupied(b, j)' BY <1>2 DEF Occupied
  <2>. QED BY <1>2, <1>3, <2>1, Refilled
<1>. QED BY <1>2, <1>4 DEF Covers, ResetPcs

(* A slot that somebody else holds is not filled meanwhile.                *)
LEMMA HeldNotFilled ==
  ASSUME Safe, Safe', Results, NEW t \in Threads, Step(t), NEW b \in HandedOut, NEW j \in Slots,
         Occupied(b, j)', ~Occupied(b, j)
  PROVE  th[t].pc \in {"setnbr", "high"} /\ Here(t, b, j) /\ HoldsSlot(t)
<1>1. IInv /\ b \in Blocks /\ b # tail BY HandedOutBlocks DEF Safe
<1>2. ~NewBlock(t) BY <1>1, BlockAdded DEF Occupied
<1>. QED BY <1>1, <1>2, Refilled DEF HoldsSlot

(* A time that is to be put back is covered.                               *)
LEMMA SavedSettled ==
  ASSUME Safe, Safe', Results, Stamping, NEW t \in Threads, Step(t), NEW u \in Threads,
         HoldsSlot(u)', th'[u].pc \notin AddPcs, Occupied(th[u].tmp, th[u].k)'
  PROVE  Settled(th[u].tmp, th[u].k, th[u].sv)'
<1>1. IInv BY DEF Safe
<1>2. \A v \in Threads : HoldsSlot(v) /\ v # u => ~(AtPlace(v, th[u].tmp, th[u].k) /\ HoldsSlot(u))
      BY <1>1 DEF IInv, SlotLockExclusive, AtPlace
<1>3. CASE u # t
  <2>. SUFFICES ASSUME NEW b, b = th[u].tmp, NEW j, j = th[u].k, NEW s, s = th[u].sv
                PROVE  Settled(th[u].tmp, th[u].k, th[u].sv)'
       OBVIOUS
  <2>1. th'[u] = th[u] /\ HoldsSlot(u) /\ th[u].pc \notin AddPcs
        BY <1>1, <1>3, OthersKeep DEF HoldsSlot
  <2>2. b \in HandedOut /\ j \in Slots BY <1>1, <2>1, HoldsAtSlot, HandedOutBlocks
  <2>3. Occupied(b, j)
    <3>1. Occupied(b, j)' BY <2>1 DEF Occupied
    <3>. QED BY <1>2, <1>3, <2>1, <2>2, <3>1, HeldNotFilled DEF Here, AtPlace
  <2>4. Settled(b, j, s) BY <2>1, <2>3 DEF Stamping, Covers
  <2>5. ~(th[t].pc \in ResetPcs /\ th[t].tmp = b)
    <3>. SUFFICES ASSUME th[t].pc \in ResetPcs, th[t].tmp = b PROVE FALSE
         OBVIOUS
    <3>1. j = th[t].k BY <2>2, <2>3 DEF Stamping, Covers
    <3>. QED BY <1>2, <1>3, <2>1, <3>1 DEF HoldsSlot, AtPlace, ResetPcs
  <2>6. Settled(b, j, s)' BY <2>2, <2>4, <2>5, SettledStays DEF Stamping
  <2>. QED BY <2>1, <2>6 DEF Settled, Spans, Under, AtPlace
<1>4. CASE u = t
  <2>. SUFFICES ASSUME NEW b, b = th[t].tmp, NEW j, j = th[t].k, NEW s, s = th'[t].sv
                PROVE  Settled(th[t].tmp, th[t].k, th[t].sv)'
       BY <1>4
  <2>1. /\ th'[t].tmp = b /\ th'[t].k = j /\ th[t].pc \in SlotPcs
        /\ \/ th[t].pc = "lockslot" /\ s = eb[b].edges[j].first
           \/ HoldsSlot(t) /\ th[t].pc \notin AddPcs /\ s = th[t].sv
        BY <1>1, <1>4, HolderCame DEF Slot
  <2>2. b \in HandedOut /\ j \in Slots BY <1>1, <2>1, AtSlot, HandedOutBlocks
  <2>3. th[t].pc \notin {"setnbr", "high"} \cup ResetPcs BY <2>1 DEF AddPcs, FillPcs, ResetPcs
  <2>4. Occupied(b, j)
    <3>1. Occupied(b, j)' BY <1>4, <2>1 DEF Occupied
    <3>. QED BY <2>2, <2>3, <3>1, HeldNotFilled
  <2>5. Settled(b, j, s)
    <3>1. CASE th[t].pc = "lockslot" /\ s = eb[b].edges[j].first
      <4>1. FirstSpanned(b, j) BY <2>2, <2>4 DEF Stamping, EdgesSpanned
      <4>2. ASSUME NEW v \in Threads, HoldsSlot(v), AtPlace(v, b, j) PROVE FALSE
        <5>1. eb[b].edges[j].first = MARKER
              BY <1>1, <4>2 DEF IInv, SlotLockExclusive, Slot, AtPlace
        <5>2. Slot(t).first # MARKER BY <3>1, StampAt DEF LockSlot
        <5>. QED BY <5>1, <5>2 DEF Slot
      <4>. QED BY <3>1, <4>1, <4>2 DEF FirstSpanned
    <3>2. CASE HoldsSlot(t) /\ th[t].pc \notin AddPcs /\ s = th[t].sv
          BY <2>4, <3>2 DEF Stamping, Covers
    <3>. QED BY <2>1, <3>1, <3>2
  <2>6. Settled(b, j, s)' BY <2>2, <2>3, <2>5, SettledStays DEF Stamping
  <2>. QED BY <2>1, <2>6 DEF Settled, Spans, Under, AtPlace
<1>. QED BY <1>3, <1>4

LEMMA CoversStay ==
  ASSUME Safe, Safe', Results, Sums, BlockEffectivelyLocked, BlockEffectivelyLocked', Stamping,
         NEW t \in Threads, Step(t), NEW u \in Threads
  PROVE  Covers(u)' /\ Compared(u)'
<1>1. ASSUME th'[u].pc \in ResetPcs, NEW j \in Slots, Occupied(th[u].tmp, j)'
      PROVE  j = th'[u].k
      BY <1>1, OnlyEdgeCame, OnlyEdgeGoesOn, OnlyEdgeStays DEF Stamping, ResetPcs
<1>2. Covers(u)' BY <1>1, SavedSettled DEF Covers
<1>3. CASE u = t BY <1>2, <1>3, OwnCompared DEF Stamping
<1>4. CASE u # t BY <1>2, <1>4, OthersCompared DEF Stamping
<1>. QED BY <1>3, <1>4

------------------------------------------------------------------------------
(* The times of the edges of a block stay between its stamps.              *)
LEMMA AddedSpanned ==
  ASSUME Safe, Safe', Results, Stamping, NEW t \in Threads, Step(t), NewBlock(t),
         NEW b \in HandedOut', NEW j \in Slots, Occupied(b, j)'
  PROVE  FirstSpanned(b, j)' /\ RecentSpanned(b, j)'
<1>1. IInv /\ th[t].pc = "newblock" /\ HandedOut' = HandedOut \cup {tail}
      BY BlockAdded, AddedCounts DEF Safe
<1>2. th'[t].pc = "claim" /\ ~HoldsSlot(t) /\ th[t].rv # 1
  <2>1. th[t] \in Locals /\ th \in [Threads -> Locals] BY <1>1 DEF IInv, TypeOK
  <2>2. th'[t].pc = "claim" BY <2>1, SMT DEF NewBlock, Goto, Locals
  <2>3. ~th[t].held BY <1>1, Working DEF Fits, UpdatePcs
  <2>. QED BY <1>1, <2>2, <2>3
       DEF HoldsSlot, Results, Returns, AddPcs, FillPcs, SettlePcs
<1>3. \A u \in Threads : u # t => th'[u] = th[u] /\ Op(u)' = Op(u) BY <1>1, OthersKeep
<1>4. CASE b = tail
  <2>. SUFFICES ASSUME NEW s, s = Op(t).ts PROVE FirstSpanned(b, j)' /\ RecentSpanned(b, j)'
       OBVIOUS
  <2>1. s \in Nat BY <1>1, OpFields
  <2>2. eb'[b] = BlockWith(Op(t)) BY <1>1, <1>4, BlockAdded
  <2>3. /\ eb'[b].small = s /\ eb'[b].large = s /\ eb'[b].high = 1
        /\ j = 0 => eb'[b].edges[j].first = s /\ eb'[b].edges[j].recent = s
        BY <2>2 DEF BlockWith, FirstEdge
  <2>4. j = 0
    <3>1. j \in Nat BY Numbers
    <3>. QED BY <2>3, <3>1 DEF Occupied
  <2>5. ASSUME NEW u \in Threads, th'[u].pc \in WidenPcs, th'[u].tmp = b PROVE FALSE
    <3>1. u # t BY <1>2, <2>5 DEF WidenPcs
    <3>2. th[u].pc \in SlotPcs /\ th[u].tmp = tail
          BY <1>3, <1>4, <2>5, <3>1 DEF SlotPcs, WidenPcs
    <3>. QED BY <3>2, HandedOutBlocks
  <2>6. Spans(b, s)' BY <2>1, <2>3, <2>5 DEF Spans, Under
  <2>. QED BY <2>3, <2>4, <2>6 DEF FirstSpanned, RecentSpanned, Settled
<1>5. CASE b # tail
  <2>1. b \in HandedOut /\ b \in Blocks /\ eb'[b] = eb[b]
        BY <1>1, <1>5, HandedOutBlocks, BlockAdded
  <2>2. FirstSpanned(b, j) /\ RecentSpanned(b, j)
        BY <2>1 DEF Stamping, EdgesSpanned, Occupied
  <2>3. FirstSpanned(b, j)'
    <3>1. CASE \E u \in Threads : HoldsSlot(u) /\ AtPlace(u, b, j)
          BY <1>2, <1>3, <3>1 DEF FirstSpanned, HoldsSlot, AtPlace
    <3>2. CASE Settled(b, j, eb[b].edges[j].first)
      <4>. SUFFICES ASSUME NEW s, s = eb[b].edges[j].first PROVE FirstSpanned(b, j)'
           OBVIOUS
      <4>1. Settled(b, j, s)' BY <1>1, <2>1, <3>2, SettledStays DEF Stamping, ResetPcs
      <4>. QED BY <2>1, <4>1 DEF FirstSpanned, Settled, Spans, Under
    <3>. QED BY <2>2, <3>1, <3>2 DEF FirstSpanned
  <2>4. RecentSpanned(b, j)'
    <3>1. CASE \E u \in Threads : th[u].rv = 1 /\ AtPlace(u, b, j)
          BY <1>2, <1>3, <3>1 DEF RecentSpanned, AtPlace
    <3>2. CASE Spans(b, eb[b].edges[j].recent)
      <4>. SUFFICES ASSUME NEW s, s = eb[b].edges[j].recent PROVE RecentSpanned(b, j)'
           OBVIOUS
      <4>1. Spans(b, s)' BY <1>1, <2>1, <3>2, SpansStay DEF Stamping, ResetPcs
      <4>. QED BY <2>1, <4>1 DEF RecentSpanned, Spans, Under
    <3>. QED BY <2>2, <3>1, <3>2 DEF RecentSpanned
  <2>. QED BY <2>3, <2>4
<1>. QED BY <1>4, <1>5

LEMMA FirstStays ==
  ASSUME Safe, Safe', Results, Stamping, NEW t \in Threads, Step(t), ~NewBlock(t),
         NEW b \in HandedOut, NEW j \in Slots, Occupied(b, j)'
  PROVE  FirstSpanned(b, j)'
<1>. SUFFICES ASSUME ~(HoldsSlot(t)' /\ AtPlace(t, b, j)'),
                     NEW f, f = eb[b].edges[j].first
              PROVE  FirstSpanned(b, j)'
     BY DEF FirstSpanned
<1>1. IInv /\ b \in Blocks /\ \A u \in Threads : u # t => th'[u] = th[u]
      BY HandedOutBlocks, OthersKeep DEF Safe
<1>2. HoldsSlot(t) /\ AtPlace(t, b, j) => th[t].pc \in {"release", "unlockslot", "restore"}
      BY <1>1, HoldsOn DEF AtPlace
<1>3. Occupied(b, j) BY <1>2, HeldNotFilled DEF Here, AtPlace
<1>4. ~(th[t].pc \in ResetPcs /\ th[t].tmp = b)
  <2>. SUFFICES ASSUME th[t].pc \in ResetPcs, th[t].tmp = b PROVE FALSE
       OBVIOUS
  <2>1. j = th[t].k BY <1>3 DEF Stamping, Covers
  <2>. QED BY <1>2, <2>1 DEF HoldsSlot, AtPlace, ResetPcs
<1>5. CASE th[t].pc \in {"release", "restore"} /\ Here(t, b, j)
  <2>. SUFFICES ASSUME NEW s, s = th[t].sv PROVE FirstSpanned(b, j)'
       OBVIOUS
  <2>1. eb'[b].edges[j].first = s BY <1>1, <1>5, TimesHere
  <2>2. Settled(b, j, s)
        BY <1>3, <1>5 DEF Stamping, Covers, HoldsSlot, AddPcs, FillPcs, Here
  <2>3. Settled(b, j, s)' BY <1>4, <2>2, SettledStays DEF Stamping
  <2>. QED BY <2>1, <2>3 DEF FirstSpanned, Settled, Spans, Under
<1>6. CASE th[t].pc = "unlockslot" /\ Here(t, b, j)
  <2>. SUFFICES ASSUME NEW s, s = Op(t).ts PROVE FirstSpanned(b, j)'
       OBVIOUS
  <2>1. eb'[b].edges[j].first = s BY <1>1, <1>6, TimesHere
  <2>2. th[t].rv = 1 /\ AtPlace(t, b, j) BY <1>6 DEF Results, Returns, AddPcs, Here, AtPlace
  <2>3. Settled(b, j, s) BY <1>6, <2>2 DEF Settled
  <2>4. Settled(b, j, s)' BY <1>4, <2>3, SettledStays DEF Stamping
  <2>. QED BY <2>1, <2>4 DEF FirstSpanned, Settled, Spans, Under
<1>7. CASE ~(th[t].pc \in {"release", "restore", "unlockslot"} /\ Here(t, b, j))
  <2>1. ~(th[t].pc = "lockslot" /\ Here(t, b, j))
    <3>. SUFFICES ASSUME th[t].pc = "lockslot", Here(t, b, j) PROVE FALSE
         OBVIOUS
    <3>1. th'[t].pc = "recheck" /\ th'[t].tmp = b /\ th'[t].k = j
          BY <1>1, CountMoves DEF Here
    <3>. QED BY <3>1 DEF HoldsSlot, AtPlace
  <2>2. eb'[b].edges[j].first = f BY <1>1, <1>7, <2>1, TimesHere DEF FirstPcs
  <2>3. CASE \E u \in Threads : HoldsSlot(u) /\ AtPlace(u, b, j)
    <3>1. PICK u \in Threads : HoldsSlot(u) /\ AtPlace(u, b, j) BY <2>3
    <3>2. u # t BY <1>2, <1>7, <3>1 DEF Here, AtPlace
    <3>. QED BY <1>1, <3>1, <3>2 DEF FirstSpanned, HoldsSlot, AtPlace
  <2>4. CASE Settled(b, j, f)
    <3>1. Settled(b, j, f)' BY <1>4, <2>4, SettledStays DEF Stamping
    <3>. QED BY <2>2, <3>1 DEF FirstSpanned, Settled, Spans, Under
  <2>. QED BY <1>3, <2>3, <2>4 DEF Stamping, EdgesSpanned, FirstSpanned
<1>. QED BY <1>5, <1>6, <1>7

LEMMA RecentStays ==
  ASSUME Safe, Safe', Results, Stamping, NEW t \in Threads, Step(t), ~NewBlock(t),
         NEW b \in HandedOut, NEW j \in Slots, Occupied(b, j)'
  PROVE  RecentSpanned(b, j)'
<1>1. IInv /\ b \in Blocks /\ \A u \in Threads : u # t => th'[u] = th[u]
      BY HandedOutBlocks, OthersKeep DEF Safe
<1>2. CASE th[t].pc = "recent" /\ AtPlace(t, b, j)
  <2>. SUFFICES ASSUME NEW s, s = Op(t).ts PROVE RecentSpanned(b, j)'
       OBVIOUS
  <2>1. eb'[b].edges[j].recent = s BY <1>1, <1>2, TimesHere DEF Here, AtPlace
  <2>2. Spans(b, s) BY <1>2 DEF Stamping, Compared, AtPlace
  <2>3. Spans(b, s)' BY <1>2, <2>2, SpansStay DEF Stamping, ResetPcs
  <2>. QED BY <2>1, <2>3 DEF RecentSpanned, Spans, Under
<1>3. CASE th[t].pc # "recent" /\ th[t].rv = 1 /\ AtPlace(t, b, j)
  <2>1. th'[t].rv = 1 /\ AtPlace(t, b, j)' BY <1>1, <1>3, AddsOn DEF Results, AtPlace
  <2>. QED BY <2>1 DEF RecentSpanned
<1>4. CASE ~(th[t].pc = "recent" /\ AtPlace(t, b, j)) /\ ~(th[t].rv = 1 /\ AtPlace(t, b, j))
  <2>. SUFFICES ASSUME NEW r, r = eb[b].edges[j].recent PROVE RecentSpanned(b, j)'
       OBVIOUS
  <2>1. th[t].pc \in AddPcs => ~AtPlace(t, b, j) BY <1>4 DEF Results, Returns
  <2>2. Occupied(b, j) BY <2>1, HeldNotFilled DEF Here, AtPlace, AddPcs, FillPcs
  <2>3. ~(th[t].pc \in ResetPcs /\ th[t].tmp = b)
    <3>. SUFFICES ASSUME th[t].pc \in ResetPcs, th[t].tmp = b PROVE FALSE
         OBVIOUS
    <3>1. j = th[t].k BY <2>2 DEF Stamping, Covers
    <3>. QED BY <2>1, <3>1 DEF AddPcs, FillPcs, AtPlace, ResetPcs
  <2>4. eb'[b].edges[j].recent = r BY <1>1, <1>4, TimesHere DEF Here, AtPlace
  <2>5. CASE \E u \in Threads : th[u].rv = 1 /\ AtPlace(u, b, j)
    <3>1. PICK u \in Threads : th[u].rv = 1 /\ AtPlace(u, b, j) BY <2>5
    <3>2. u # t BY <1>4, <3>1
    <3>. QED BY <1>1, <3>1, <3>2 DEF RecentSpanned, AtPlace
  <2>6. CASE Spans(b, r)
    <3>1. Spans(b, r)' BY <2>3, <2>6, SpansStay DEF Stamping
    <3>. QED BY <2>4, <3>1 DEF RecentSpanned, Spans, Under
  <2>. QED BY <2>2, <2>5, <2>6 DEF Stamping, EdgesSpanned, RecentSpanned
<1>. QED BY <1>2, <1>3, <1>4

LEMMA ThreadStamps ==
  ASSUME Safe, Safe', Results, Sums, BlockEffectivelyLocked, BlockEffectivelyLocked', Stamping,
         NEW t \in Threads, Step(t)
  PROVE  Stamping'
<1>1. Widening' BY WideningStays DEF Stamping
<1>2. EdgesSpanned'
  <2>. SUFFICES ASSUME NEW b \in HandedOut', NEW j \in Slots, Occupied(b, j)'
                PROVE  FirstSpanned(b, j)' /\ RecentSpanned(b, j)'
       BY DEF EdgesSpanned
  <2>1. CASE NewBlock(t) BY <2>1, AddedSpanned DEF Stamping
  <2>2. CASE ~NewBlock(t)
    <3>1. b \in HandedOut BY <2>2, HandedOutStays DEF Safe
    <3>. QED BY <2>2, <3>1, FirstStays, RecentStays
  <2>. QED BY <2>1, <2>2
<1>3. \A u \in Threads : Covers(u)' /\ Compared(u)' BY CoversStay
<1>. QED BY <1>1, <1>2, <1>3 DEF Stamping

LEMMA NextStamps ==
  (/\ Safe /\ Safe' /\ Results /\ Sums
   /\ BlockEffectivelyLocked /\ BlockEffectivelyLocked'
   /\ Stamping /\ [Next]_vars)
  => Stamping'
<1>. SUFFICES ASSUME Safe, Safe', Results, Sums, BlockEffectivelyLocked,
                     BlockEffectivelyLocked', Stamping, [Next]_vars
              PROVE  Stamping'
     OBVIOUS
<1>1. IInv BY DEF Safe
<1>2. CASE Barrier
  <2>1. UNCHANGED <<eb, tail, th>> BY <1>2, Zenon DEF Barrier, edgeVars, poolVars
  <2>2. \A t \in Threads : th[t].pc = "idle" /\ th'[t] = th[t] /\ ~th[t].held
    <3>1. \A t \in Threads : th[t].pc = "idle" BY <1>1, <1>2, AllIdleAtBarrier
    <3>2. ASSUME NEW t \in Threads PROVE ~th[t].held
      <4>1. th[t] \in Locals /\ LocalOK(th[t]) BY <1>1 DEF IInv, TypeOK
      <4>2. th[t].held => th[t].pc \in UpdatePcs BY <4>1 DEF LocalOK, Fits
      <4>. QED BY <3>1, <4>2 DEF UpdatePcs
    <3>. QED BY <2>1, <3>1, <3>2
  <2>3. \A t \in Threads : th[t].rv # 1
        BY <2>2 DEF Results, Returns, AddPcs, FillPcs, SettlePcs
  <2>4. \A b, x : Spans(b, x)' <=> Spans(b, x) BY <2>1 DEF Spans, Under
  <2>5. \A t \in Threads : ~HoldsSlot(t) /\ ~HoldsSlot(t)' BY <2>2 DEF HoldsSlot
  <2>6. EdgesSpanned'
    <3>. SUFFICES ASSUME NEW b \in HandedOut, NEW j \in Slots, Occupied(b, j)
                  PROVE  FirstSpanned(b, j)' /\ RecentSpanned(b, j)'
         BY <2>1 DEF EdgesSpanned, HandedOut, Occupied
    <3>1. Spans(b, eb[b].edges[j].first) /\ Spans(b, eb[b].edges[j].recent)
          BY <2>3, <2>5 DEF Stamping, EdgesSpanned, FirstSpanned, RecentSpanned, Settled
    <3>. QED BY <2>1, <2>4, <3>1 DEF FirstSpanned, RecentSpanned, Settled
  <2>. QED BY <2>2, <2>5, <2>6
       DEF Stamping, Widening, Covers, Compared, ResetPcs, WidenPcs
<1>3. CASE UNCHANGED vars
  <2>1. UNCHANGED <<work, phase, eb, tail, th>> BY <1>3 DEF vars
  <2>2. /\ \A b, x : (Spans(b, x)' <=> Spans(b, x)) /\ (Under(b, x)' <=> Under(b, x))
        /\ \A t : Op(t)' = Op(t)
        /\ \A b, j : Occupied(b, j)' <=> Occupied(b, j)
        /\ \A t : HoldsSlot(t)' <=> HoldsSlot(t)
        BY <2>1 DEF Spans, Under, Op, Occupied, HoldsSlot
  <2>3. \A b, j, x : Settled(b, j, x)' <=> Settled(b, j, x)
        BY <2>1, <2>2 DEF Settled, AtPlace
  <2>4. \A b, j : (FirstSpanned(b, j)' <=> FirstSpanned(b, j))
                  /\ (RecentSpanned(b, j)' <=> RecentSpanned(b, j))
        BY <2>1, <2>2, <2>3 DEF FirstSpanned, RecentSpanned, AtPlace
  <2>5. EdgesSpanned' BY <2>1, <2>2, <2>4 DEF Stamping, EdgesSpanned, HandedOut
  <2>6. \A t \in Threads : Covers(t)' /\ Compared(t)'
        BY <2>1, <2>2, <2>3 DEF Stamping, Covers, Compared
  <2>7. Widening' BY <2>1 DEF Stamping, Widening
  <2>. QED BY <2>5, <2>6, <2>7 DEF Stamping
<1>4. ASSUME NEW t \in Threads, Step(t) PROVE Stamping' BY <1>4, ThreadStamps
<1>. QED BY <1>2, <1>3, <1>4, Zenon DEF Next, Over

LEMMA InitStamps == Init => Stamping
<1>. SUFFICES ASSUME Init PROVE Stamping
     OBVIOUS
<1>1. tail = 1 /\ th = [t \in Threads |-> Idle] BY DEF Init
<1>2. HandedOut = {} BY <1>1, Numbers, SizesPositive DEF HandedOut, Blocks
<1>3. \A t \in Threads : th[t].pc = "idle" /\ th[t].held = FALSE BY <1>1 DEF Idle
<1>. QED BY <1>2, <1>3
     DEF Stamping, Widening, EdgesSpanned, Covers, Compared, HoldsSlot, ResetPcs, WidenPcs

LEMMA StampingCovers ==
  ASSUME Safe, Results, Stamping
  PROVE  StampsWhenIdle
<1>. SUFFICES ASSUME \A t \in Threads : th[t].pc = "idle", NEW b \in Listed,
                     NEW k \in Slots, Occupied(b, k)
              PROVE  LET e == eb[b].edges[k]
                     IN  /\ eb[b].small <= Lesser(e.first, e.recent)
                         /\ Greater(e.first, e.recent) <= eb[b].large
     BY DEF StampsWhenIdle, AllIdle, StampsCover, Occupants
<1>1. IInv /\ b \in HandedOut BY HandedOutBlocks DEF Safe
<1>2. \A t \in Threads : ~HoldsSlot(t) /\ th[t].rv # 1
  <2>1. \A t \in Threads : ~th[t].held
    <3>1. ASSUME NEW t \in Threads, th[t].held PROVE th[t].pc \in UpdatePcs
          BY <1>1, <3>1 DEF IInv, LocalOK, Fits
    <3>. QED BY <3>1 DEF UpdatePcs
  <2>. QED BY <2>1 DEF HoldsSlot, Results, Returns, AddPcs, FillPcs, SettlePcs
<1>3. Spans(b, eb[b].edges[k].first) /\ Spans(b, eb[b].edges[k].recent)
      BY <1>1, <1>2 DEF Stamping, EdgesSpanned, FirstSpanned, RecentSpanned, Settled
<1>. QED BY <1>3 DEF Spans, Under, Lesser, Greater

(* Whenever no update is running, the stamps of every block bound the      *)
(* times of its edges, as stinger_consistency_check asks (0x10, 0x20),     *)
(* provided that update_edge_data does have the block "effectively locked" *)
(* whenever it resets them, which its comment assumes.                     *)
THEOREM StampsRight == Spec /\ []BlockEffectivelyLocked => []StampsWhenIdle
<1>1. (/\ Safe /\ Safe' /\ Results /\ Sums
       /\ BlockEffectivelyLocked /\ BlockEffectivelyLocked'
       /\ Stamping /\ [Next]_vars)
      => Stamping'
      BY NextStamps
<1>2. IInv /\ Places /\ Lists /\ Uniqueness => Safe BY DEF Safe
<1>3. Safe /\ Results /\ Stamping => StampsWhenIdle BY StampingCovers
<1>. QED BY <1>1, <1>2, <1>3, Invariance, PlacesHold, ListsHold, UniqueHold, ResultsHold,
            SumsHold, InitStamps, PTL
     DEF Spec

(* Workloads that the assumption is right for: once a phase has removed    *)
(* edges, no later one inserts two edges of one type from one vertex.      *)
Removal(w, p) == \E i \in DOMAIN w[p] : w[p][i].kind = "remove"
Apart ==
  \A w \in Workloads : \A p, q \in DOMAIN w :
    p < q /\ Removal(w, p) =>
      \A i, j \in DOMAIN w[q] :
        /\ w[q][i].kind # "remove"
        /\ w[q][i].from = w[q][j].from /\ w[q][i].type = w[q][j].type
        => i = j

(* Until a phase removes edges, every block has one and no stamps are reset.*)
Unemptied ==
  \/ \E p \in DOMAIN work : p <= phase /\ Removal(work, p)
  \/ /\ \A b \in HandedOut : eb[b].num > 0
     /\ \A t \in Threads : th[t].pc \notin ResetPcs

LEMMA ThreadUnemptied ==
  ASSUME Safe, Safe', Results, Unemptied, NEW t \in Threads, Step(t)
  PROVE  Unemptied'
<1>. SUFFICES ASSUME ~(\E p \in DOMAIN work : p <= phase /\ Removal(work, p))
              PROVE  /\ \A b \in HandedOut' : eb'[b].num > 0
                     /\ \A u \in Threads : th'[u].pc \notin ResetPcs
     BY SamePhase DEF Unemptied
<1>1. /\ IInv
      /\ \A b \in HandedOut : eb[b].num > 0
      /\ \A u \in Threads : th[u].pc \notin ResetPcs
      BY DEF Unemptied, Safe
<1>2. th[t].pc # "uncount"
  <2>. SUFFICES ASSUME th[t].pc = "uncount" PROVE FALSE
       OBVIOUS
  <2>1. Op(t).kind = "remove" BY <1>1 DEF IInv, LocalOK, Fits, RemovalPcs, Op
  <2>2. phase \in DOMAIN work /\ th[t].op \in DOMAIN work[phase] BY <1>1 DEF IInv, Assigned
  <2>3. phase <= phase BY <1>1 DEF IInv, TypeOK
  <2>. QED BY <2>1, <2>2, <2>3 DEF Removal, Op
<1>3. ASSUME NEW b \in HandedOut' PROVE eb'[b].num > 0
  <2>1. CASE NewBlock(t)
    <3>. DEFINE n == tail
    <3>1. HandedOut' = HandedOut \cup {n} /\ eb'[n].num = 1 /\ \A c \in HandedOut : eb'[c] = eb[c]
          BY <2>1, AddedCounts
    <3>. QED BY <1>1, <1>3, <3>1
  <2>2. CASE ~NewBlock(t)
    <3>1. b \in HandedOut /\ b \in Blocks BY <1>1, <1>3, <2>2, HandedOutStays, HandedOutBlocks
    <3>2. eb[b] \in EdgeBlock BY <1>1, <3>1 DEF IInv, TypeOK
    <3>3. eb'[b].num = eb[b].num + 1 \/ eb'[b].num = eb[b].num
          BY <1>1, <1>2, <2>2, <3>1, StoresHere
    <3>4. eb[b].num \in Int /\ eb[b].num > 0 BY <1>1, <3>1, <3>2 DEF EdgeBlock
    <3>. QED BY <3>3, <3>4
  <2>. QED BY <2>1, <2>2
<1>4. ASSUME NEW u \in Threads PROVE th'[u].pc \notin ResetPcs
  <2>1. CASE u = t
    <3>. SUFFICES ASSUME th'[t].pc \in ResetPcs PROVE FALSE
         BY <2>1
    <3>1. th[t].pc = "count" /\ eb[th[t].tmp].num = 0 BY <1>1, StampMoves DEF ResetPcs
    <3>2. th[t].tmp \in HandedOut BY <3>1, HandedOutBlocks DEF SlotPcs
    <3>. QED BY <1>1, <3>1, <3>2
  <2>2. CASE u # t BY <1>1, <2>2, OthersKeep
  <2>. QED BY <2>1, <2>2
<1>. QED BY <1>3, <1>4

LEMMA NextUnemptied ==
  Safe /\ Safe' /\ Results /\ Unemptied /\ [Next]_vars => Unemptied'
<1>. SUFFICES ASSUME Safe, Safe', Results, Unemptied, [Next]_vars
              PROVE  Unemptied'
     OBVIOUS
<1>1. CASE Barrier
  <2>1. UNCHANGED <<work, eb, tail, th>> /\ phase' = phase + 1
        BY <1>1, Zenon DEF Barrier, edgeVars, poolVars
  <2>2. phase \in Nat /\ work \in Seq(Seq(Operations))
        BY WorkloadsOK DEF Safe, IInv, TypeOK
  <2>3. \A p \in DOMAIN work : p <= phase => p <= phase + 1 BY <2>2
  <2>. QED BY <2>1, <2>3 DEF Unemptied, HandedOut, Removal
<1>2. CASE UNCHANGED vars BY <1>2 DEF vars, Unemptied, HandedOut, Removal
<1>3. ASSUME NEW t \in Threads, Step(t) PROVE Unemptied' BY <1>3, ThreadUnemptied
<1>. QED BY <1>1, <1>2, <1>3, Zenon DEF Next, Over

LEMMA InitUnemptied == Init => Unemptied
<1>. SUFFICES ASSUME Init PROVE Unemptied
     OBVIOUS
<1>1. tail = 1 /\ th = [t \in Threads |-> Idle] BY DEF Init
<1>2. HandedOut = {} BY <1>1, Numbers, SizesPositive DEF HandedOut, Blocks
<1>. QED BY <1>1, <1>2 DEF Unemptied, Idle, ResetPcs

LEMMA LockedApart ==
  ASSUME Apart, Safe, Results, Unemptied
  PROVE  BlockEffectivelyLocked
<1>. SUFFICES ASSUME NEW t \in Threads, NEW u \in Threads, th[t].pc \in ResetPcs,
                     th[u].pc \in StoringPcs, th[u].tmp = th[t].tmp
              PROVE  u = t
     BY DEF BlockEffectivelyLocked
<1>1. IInv /\ work \in Workloads /\ phase \in Nat BY DEF Safe, IInv, TypeOK
<1>2. /\ th[t].pc \in SlotPcs /\ th[t].pc \in InsertPcs /\ th[t].pc # "idle"
      /\ th[u].pc \in SlotPcs /\ th[u].pc # "idle"
      BY DEF SlotPcs, InsertPcs, StoringPcs, SettlePcs, ResetPcs
<1>3. Op(t).kind # "remove" BY <1>1, <1>2 DEF IInv, LocalOK, Fits, Op
<1>4. /\ phase \in DOMAIN work
      /\ th[t].op \in DOMAIN work[phase] /\ th[u].op \in DOMAIN work[phase]
      /\ th[u].op = th[t].op => u = t
      BY <1>1, <1>2 DEF IInv, Assigned
<1>5. Op(u).from = Op(t).from /\ Op(u).type = Op(t).type
  <2>1. Suits(t) /\ Suits(u) BY DEF Results
  <2>. QED BY <1>2, <2>1, SlotListed DEF Suits
<1>6. PICK p \in DOMAIN work : p <= phase /\ Removal(work, p) BY DEF Unemptied
<1>7. p # phase BY <1>1, <1>3, <1>4, <1>6, WorkloadsOK DEF Removal, Op
<1>8. p \in Nat BY <1>1, WorkloadsOK
<1>9. p < phase BY <1>1, <1>6, <1>7, <1>8
<1>10. th[t].op = th[u].op BY <1>1, <1>3, <1>4, <1>5, <1>6, <1>9 DEF Apart, Op
<1>. QED BY <1>4, <1>10

(* So the stamps are right for every such workload, with every number of   *)
(* threads.                                                                *)
THEOREM StampsApart == Apart => (Spec => []StampsWhenIdle)
<1>. SUFFICES ASSUME Apart PROVE Spec => []StampsWhenIdle
     OBVIOUS
<1>1. IInv /\ Places /\ Lists /\ Uniqueness => Safe BY DEF Safe
<1>2. Safe /\ Results /\ Unemptied => BlockEffectivelyLocked BY LockedApart
<1>. QED BY <1>1, <1>2, Invariance, PlacesHold, ListsHold, UniqueHold, ResultsHold,
            InitUnemptied, NextUnemptied, StampsRight, PTL
     DEF Spec
==============================================================================

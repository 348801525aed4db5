-------------------------- MODULE BatchServerProofs --------------------------
(***************************************************************************)
(* Proofs about BatchServer, for every number of threads, every set of     *)
(* names and all that clients may send: types, the framing of messages,    *)
(* the range of timestamps, and that a batch has the outcome of one        *)
(* insertion after the other and then one deletion after the other,        *)
(* whichever thread takes which.                                           *)
(***************************************************************************)
EXTENDS BatchServer, FiniteSetTheorems, SequenceTheorems, TLAPS

InBatch == {"insert", "delete", "stamps", "finish"}

------------------------------------------------------------------------------
(* The invariant, part by part.                                            *)

(* A unit that a connection has, or its end.                               *)
OnWire(x) ==
  /\ x.msg \in 1..Len(Here.messages) + 1
  /\ x.msg = Len(Here.messages) + 1 => x.part = 0
  /\ x.msg \in 1..Len(Here.messages) => x.part \in 0..Here.messages[x.msg].size + 1

(* The server has read no more than has arrived, and knows the message it  *)
(* is working on.                                                          *)
Framed ==
  /\ session \in Sessions /\ conn \in 0..Len(session) /\ pc \in Labels /\ cur \in Nat
  /\ nfail \in 0..3 /\ (pc # "exited" => nfail \in 0..2) /\ short \in BOOLEAN
  /\ {sent, got} \subseteq [msg : Nat \ {0}, part : Nat]
  /\ conn = 0 => pc = "accept"
  /\ conn > 0 => OnWire(sent) /\ OnWire(got) /\ UpTo(got, sent) /\ UpTo(sent, End)
  /\ pc \in {"body"} \cup InBatch => cur \in 1..Len(Here.messages)
  /\ pc = "body" => got = After(After(Position(cur, 0)))
  /\ pc \in InBatch => got = Position(cur + 1, 0)

(* The messages received of a connection are those behind us that parse.   *)
Order ==
  \A x, y \in DOMAIN handled :
    x < y /\ handled[x][1] = handled[y][1] => handled[x][2] < handled[y][2]
Complete ==
  \A x \in DOMAIN handled : \A l \in 1..handled[x][2] - 1 :
    session[handled[x][1]].messages[l].parses =>
      \E y \in DOMAIN handled : handled[y] = <<handled[x][1], l>>
Behind(n) ==
  /\ \A x \in DOMAIN handled : handled[x][1] = conn => handled[x][2] < n
  /\ \A l \in 1..n - 1 : Here.messages[l].parses =>
       \E x \in DOMAIN handled : handled[x] = <<conn, l>>

InStep ==
  /\ handled \in Seq(Nat \X (Nat \ {0}))
  /\ \A x \in DOMAIN handled : handled[x][1] <= conn
  /\ pc = "junk" => short
  /\ ~short =>
       /\ \A x \in DOMAIN handled : session[handled[x][1]].messages[handled[x][2]].parses
       /\ Order /\ Complete
       /\ pc = "prefix" => got.part = 0 /\ Behind(got.msg)
       /\ pc = "body" => Behind(cur)
       /\ pc \in InBatch => Behind(cur + 1)

(* Numbers are given out from 0.                                           *)
Numbered ==
  next_type \in Nat /\ vertex \in [Names -> {-1} \cup 0..next_type - 1]

(* Where the threads are in each phase, and what they hold.                *)
Stages ==
  IF pc = "insert" THEN {"idle", "source", "destination", "forward", "back", "count", "store"}
  ELSE IF pc = "delete" THEN {"idle", "forward", "back", "count", "store"}
  ELSE IF pc = "stamps" THEN {"idle", "merged"} ELSE {"idle"}
Threaded ==
  /\ th \in [Threads -> Locals] /\ dropped \in BOOLEAN
  /\ \A t \in Threads : th[t].pc \in Stages
  /\ \A t \in Threads : th[t].pc \in {"forward", "back", "count", "store"} =>
       th[t].u \in 0..LV - 1 /\ th[t].v \in 0..LV - 1
  /\ \A t \in Threads : th[t].pc = "destination" => th[t].u \in Nat
  /\ pc \notin {"insert", "delete", "stamps"} => \A t \in Threads : th[t] = Idle
  /\ graph \subseteq Edge /\ before \subseteq Edge

(* A loop over all, of which left has not been taken: an iteration that    *)
(* has been is with a thread at a label of H, and with no other, or done;  *)
(* n of those done have a place in the array, which a thread that stores   *)
(* has for itself.                                                         *)
Storing(x) == {t \in Threads : x[t].pc = "store"}
Holding(x, H) == {t \in Threads : x[t].pc \in H}
DoneIn(x, H, left, all) == (all \ left) \ {x[t].k : t \in Holding(x, H)}
Sharing(x, H, left, all, n) ==
  /\ left \subseteq all
  /\ \A t \in Holding(x, H) : x[t].k \in all \ left
  /\ \A s, t \in Holding(x, H) : x[s].k = x[t].k => s = t
  /\ \A t \in Storing(x) : x[t].k \in 1..n
  /\ \A s, t \in Storing(x) : x[s].k = x[t].k => s = t
  /\ n \in Nat /\ n <= Cardinality(DoneIn(x, H, left, all))

Inserting == {"source", "destination", "forward", "back", "count"}
Deleting  == {"forward", "back", "count"}
Added   == DoneIn(th, Inserting, todo, DOMAIN Batch.ins)
Removed == DoneIn(th, Deleting, todo, DOMAIN Batch.del)

Entry == Edge \cup {<<>>}
Shared ==
  /\ pc \notin {"insert", "delete"} => todo = {}
  /\ pc = "insert" => Sharing(th, Inserting, todo, DOMAIN Batch.ins, nincr) /\ nrem = 0
  /\ pc = "delete" => Sharing(th, Deleting, todo, DOMAIN Batch.del, nrem)
  /\ incr \in Seq(Entry) /\ rem \in Seq(Entry)
  /\ nincr \in 0..Len(incr) /\ nrem \in 0..Len(rem)
  /\ pc \in InBatch => Len(incr) = Len(Batch.ins) /\ Len(rem) = Len(Batch.del)

(* The range of a thread covers the insertions it took, and so does the    *)
(* range it is folded into.                                                *)
Seen  == 1..Len(Batch.ins) \ (IF pc = "insert" THEN todo ELSE {})
Dates == {Batch.ins[k].time : k \in Seen}
Covers(lo, hi, x) == lo <= x /\ x <= hi
Covered ==
  pc \in InBatch =>
    /\ mints \in {MaxTime} \cup Dates /\ maxts \in {0} \cup Dates
    /\ \A t \in Threads : th[t].mn \in {MaxTime} \cup Dates /\ th[t].mx \in {0} \cup Dates
    /\ \A x \in Dates : \/ Covers(mints, maxts, x)
                        \/ \E t \in Threads : /\ th[t].pc # "merged" /\ pc # "finish"
                                              /\ Covers(th[t].mn, th[t].mx, x)

(* What the arrays of changes hold: the entries of n changes, D the        *)
(* iterations that made them, g what each changes.                         *)
Accounted(x, D, g, n, array) ==
  /\ n = Cardinality(D)
  /\ \A w \in 1..n : \/ \E t \in Storing(x) : x[t].k = w
                     \/ \E k \in D : array[w] = g[k]
  /\ \A t \in Storing(x) : \E k \in D : g[k] = <<x[t].u, x[t].v>>
  /\ \A k \in D : \/ \E t \in Storing(x) : g[k] = <<x[t].u, x[t].v>>
                  \/ \E w \in 1..n : /\ array[w] = g[k]
                                     /\ \A t \in Storing(x) : x[t].k # w

(* What iteration k of each loop changes.                                  *)
Inserts == [k \in 1..Len(Batch.ins) |->
              <<Found(Source(Batch.ins[k])), Found(DestinationOf(Batch.ins[k]))>>]
Deletes == [k \in 1..Len(Batch.del) |->
              <<Found(Source(Batch.del[k])), Found(Destination(Batch.del[k]))>>]
Within(g) == {k \in DOMAIN g : g[k] \in Edge}

(* The edges the iterations in D touch in both directions, and those that  *)
(* threads which are half through have touched.                            *)
Touched(D, g) == {e \in Edge : \E k \in D : e = g[k] \/ e = <<g[k][2], g[k][1]>>}
Touching(x) == {e \in Edge : \E t \in Threads :
                  \/ x[t].pc \in {"back", "count"} /\ e = <<x[t].u, x[t].v>>
                  \/ x[t].pc = "count" /\ e = <<x[t].v, x[t].u>>}
Proper(S) == {e \in S : e[1] # e[2]}

(* The batch's insertions, half way and at the end, and so its deletions.  *)
InsertedSoFar ==
  pc = "insert" =>
    /\ \A k \in Added : Inserts[k][1] # -1 /\ Inserts[k][2] # -1
    /\ \A t \in Threads :
         /\ th[t].pc \in {"destination", "forward", "back", "count"} =>
              th[t].u = Inserts[th[t].k][1] /\ th[t].u # -1
         /\ th[t].pc \in {"forward", "back", "count"} => th[t].v = Inserts[th[t].k][2]
    /\ Accounted(th, Added \cap Within(Inserts), Inserts, nincr, incr)
    /\ graph = before \cup Proper(Touched(Added \cap Within(Inserts), Inserts) \cup Touching(th))

Inserted ==
  pc \in {"delete", "stamps", "finish"} =>
    /\ nincr = Cardinality(Within(Inserts))
    /\ {incr[w] : w \in 1..nincr} = {Inserts[k] : k \in Within(Inserts)}

With == before \cup Proper(Touched(Within(Inserts), Inserts))
DeletedSoFar ==
  pc = "delete" =>
    /\ \A t \in Threads : th[t].pc \in Deleting => Deletes[th[t].k] = <<th[t].u, th[t].v>>
    /\ Accounted(th, Removed \cap Within(Deletes), Deletes, nrem, rem)
    /\ graph = With \ (Touched(Removed \cap Within(Deletes), Deletes) \cup Touching(th))

Deleted ==
  pc \in {"stamps", "finish"} =>
    /\ nrem = Cardinality(Within(Deletes))
    /\ {rem[w] : w \in 1..nrem} = {Deletes[k] : k \in Within(Deletes)}
    /\ graph = With \ Touched(Within(Deletes), Deletes)

Loopless == \A e \in graph \cup before : e[1] # e[2]

Outcome == InsertedSoFar /\ Inserted /\ DeletedSoFar /\ Deleted /\ Loopless

(* Work is what the batch is about, InStep the history of the messages.    *)
Work == Framed /\ Numbered /\ Threaded /\ Shared /\ Covered /\ Outcome
SInv == Work /\ InStep

------------------------------------------------------------------------------
(* The types of what clients send.                                         *)

LEMMA Limits ==
  /\ LV \in Nat \ {0} /\ MaxTime \in Nat \ {0} /\ Empty \in Names /\ Lower \in [Names -> Names]
BY ServerOK

LEMMA Sizes ==
  ASSUME NEW x \in Batches
  PROVE  /\ x.size \in Nat /\ x.keep_alive \in BOOLEAN
         /\ x.ins \in Seq([source : Endpoints, destination : Endpoints, time : 0..MaxTime])
         /\ x.del \in Seq([source : Endpoints, destination : Endpoints])
BY DEF Batches

LEMMA Linked ==
  ASSUME NEW c \in Connections
  PROVE  /\ c.messages \in Seq(Batches) /\ Len(c.messages) \in Nat
         /\ c.stop \in [msg : Nat \ {0}, part : Nat]
         /\ \A m \in 1..Len(c.messages) : c.messages[m] \in Batches
<1>1. /\ c.messages \in Seq(Batches) /\ c.stop \in [msg : Nat \ {0}, part : Nat]
      BY DEF Connections
<1>. HIDE DEF Batches
<1>. QED BY <1>1

LEMMA PlacesAre ==
  ASSUME NEW c, NEW x \in Places(c)
  PROVE  \/ x = [msg |-> Len(c.messages) + 1, part |-> 0]
         \/ \E m \in 1..Len(c.messages) : \E p \in 0..c.messages[m].size + 1 :
              x = [msg |-> m, part |-> p]
<1>. DEFINE D == 1..Len(c.messages)
            Of(m) == {Position(m, p) : p \in 0..c.messages[m].size + 1}
            Z == {Position(Len(c.messages) + 1, 0)}
            U == UNION {Of(m) : m \in D}
<1>1. x \in U \cup Z BY DEF Places
<1>2. x \in Z => x = [msg |-> Len(c.messages) + 1, part |-> 0] BY DEF Position
<1>3. ASSUME x \in U PROVE \E m \in D : x \in Of(m)
  <2>. HIDE DEF D, Of
  <2>1. PICK s \in {Of(m) : m \in D} : x \in s BY <1>3
  <2>. QED BY <2>1
<1>4. ASSUME \E m \in D : x \in Of(m)
      PROVE  \E m \in D : \E p \in 0..c.messages[m].size + 1 : x = [msg |-> m, part |-> p]
      BY <1>4 DEF Position
<1>5. x \in U \/ x \in Z
  <2>. HIDE DEF U, Z
  <2>. QED BY <1>1
<1>. HIDE DEF U, Z, Of
<1>. QED BY <1>2, <1>3, <1>4, <1>5

LEMMA WithinOne ==
  ASSUME NEW x, Len(Here.messages) \in Nat, x.msg \in 1..Len(Here.messages),
         x.part \in 0..Here.messages[x.msg].size + 1
  PROVE  OnWire(x)
<1>1. x.msg # Len(Here.messages) + 1 /\ x.msg \in 1..Len(Here.messages) + 1 OBVIOUS
<1>. QED BY <1>1, Zenon DEF OnWire

LEMMA Sent ==
  ASSUME Framed, conn > 0
  PROVE  /\ Here.messages \in Seq(Batches)
         /\ Len(Here.messages) \in Nat
         /\ \A m \in 1..Len(Here.messages) : Here.messages[m] \in Batches
         /\ \A m \in 1..Len(Here.messages) : Here.messages[m].size \in Nat
         /\ End \in [msg : Nat \ {0}, part : Nat] /\ OnWire(End)
<1>1. session \in Seq(Connections) BY ServerOK DEF Framed
<1>2. conn \in 1..Len(session) BY <1>1 DEF Framed
<1>. HIDE DEF Connections
<1>3. Here \in Connections BY <1>1, <1>2 DEF Here
<1>4. /\ Here.messages \in Seq(Batches) /\ Len(Here.messages) \in Nat
      /\ \A m \in 1..Len(Here.messages) : Here.messages[m] \in Batches
      /\ End \in [msg : Nat \ {0}, part : Nat]
      BY <1>3, Linked DEF End
<1>5. \A m \in 1..Len(Here.messages) : Here.messages[m].size \in Nat BY <1>4, Sizes
<1>6. End \in Places(Here) BY <1>2, ServerOK DEF Framed, Here, End
<1>7. OnWire(End)
  <2>1. CASE End = [msg |-> Len(Here.messages) + 1, part |-> 0] BY <1>4, <2>1 DEF OnWire
  <2>2. CASE \E m \in 1..Len(Here.messages) : \E p \in 0..Here.messages[m].size + 1 :
               End = [msg |-> m, part |-> p]
    <3>1. PICK m \in 1..Len(Here.messages) : \E p \in 0..Here.messages[m].size + 1 :
                 End = [msg |-> m, part |-> p]
          BY <2>2
    <3>2. End.msg = m /\ End.part \in 0..Here.messages[m].size + 1 BY <3>1
    <3>3. Len(Here.messages) \in Nat /\ End.msg \in 1..Len(Here.messages) BY <1>4, <3>2
    <3>4. End.part \in 0..Here.messages[End.msg].size + 1 BY <3>2
    <3>. QED BY <3>3, <3>4, WithinOne, Zenon
  <2>. QED BY <1>6, <2>1, <2>2, PlacesAre
<1>. QED BY <1>4, <1>5, <1>7

LEMMA Current ==
  ASSUME Framed, pc \in {"body"} \cup InBatch
  PROVE  /\ conn > 0 /\ conn \in Nat /\ cur \in 1..Len(Here.messages) /\ Batch \in Batches
         /\ Batch.size \in Nat /\ Batch.keep_alive \in BOOLEAN
         /\ Len(Batch.ins) \in Nat /\ Len(Batch.del) \in Nat
         /\ DOMAIN Batch.ins = 1..Len(Batch.ins) /\ DOMAIN Batch.del = 1..Len(Batch.del)
         /\ \A k \in 1..Len(Batch.ins) : /\ Batch.ins[k].source \in Endpoints
                                         /\ Batch.ins[k].destination \in Endpoints
                                         /\ Batch.ins[k].time \in 0..MaxTime
         /\ \A k \in 1..Len(Batch.del) : /\ Batch.del[k].source \in Endpoints
                                         /\ Batch.del[k].destination \in Endpoints
<1>1. session \in Seq(Connections) BY ServerOK DEF Framed
<1>2. conn # 0 /\ conn \in Nat BY <1>1 DEF Framed, InBatch
<1>3. conn > 0 BY <1>2
<1>4. cur \in 1..Len(Here.messages) BY DEF Framed
<1>5. Batch \in Batches BY <1>3, <1>4, Sent DEF Batch
<1>. DEFINE Ins == [source : Endpoints, destination : Endpoints, time : 0..MaxTime]
            Del == [source : Endpoints, destination : Endpoints]
<1>6. /\ Batch.size \in Nat /\ Batch.keep_alive \in BOOLEAN
      /\ Batch.ins \in Seq(Ins) /\ Batch.del \in Seq(Del)
      BY <1>5, Sizes
<1>. HIDE DEF Ins, Del
<1>7. /\ Len(Batch.ins) \in Nat /\ Len(Batch.del) \in Nat
      /\ DOMAIN Batch.ins = 1..Len(Batch.ins) /\ DOMAIN Batch.del = 1..Len(Batch.del)
      /\ \A k \in 1..Len(Batch.ins) : Batch.ins[k] \in Ins
      /\ \A k \in 1..Len(Batch.del) : Batch.del[k] \in Del
      BY <1>6
<1>. QED BY <1>2, <1>3, <1>4, <1>5, <1>6, <1>7 DEF Ins, Del

(* A worker leaves the connection alone.                                   *)
LEMMA Working ==
  ASSUME NEW t, Worker(t)
  PROVE  /\ UNCHANGED <<session, conn, pc, cur, nfail, sent, got, handled, short>>
         /\ pc \in {"insert", "delete", "stamps"}
<1>. USE DEF net, Main, Runs
<1>1. CASE TakeInsertion(t) \/ InsertSource(t) \/ InsertDestination(t)
      BY <1>1 DEF TakeInsertion, InsertSource, InsertDestination
<1>2. CASE Forward(t) \/ Back(t) \/ CountInsertion(t) \/ StoreInsertion(t)
      BY <1>2 DEF Forward, Back, CountInsertion, StoreInsertion
<1>3. CASE TakeDeletion(t) BY <1>3 DEF TakeDeletion
<1>4. CASE RemoveForward(t) \/ RemoveBack(t) \/ CountDeletion(t) \/ StoreDeletion(t)
      BY <1>4 DEF RemoveForward, RemoveBack, CountDeletion, StoreDeletion
<1>5. CASE MergeStamps(t) BY <1>5 DEF MergeStamps
<1>. QED BY <1>1, <1>2, <1>3, <1>4, <1>5, Zenon DEF Worker

------------------------------------------------------------------------------
(* The framing of messages.                                                *)

LEMMA FramedInit == Init => Framed
<1>. SUFFICES ASSUME Init PROVE Framed OBVIOUS
<1>1. session \in Seq(Connections) /\ session \in Sessions BY ServerOK DEF Init
<1>2. Len(session) \in Nat BY <1>1
<1>3. {sent, got} \subseteq [msg : Nat \ {0}, part : Nat] BY DEF Init, First, Position
<1>4. conn = 0 /\ pc = "accept" /\ cur = 0 /\ nfail = 0 BY DEF Init
<1>5. conn \in 0..Len(session) /\ cur \in Nat /\ nfail \in 0..3 /\ nfail \in 0..2 /\ ~(conn > 0)
      BY <1>2, <1>4
<1>6. pc \notin {"body"} \cup InBatch /\ pc \in Labels BY <1>4 DEF InBatch, Labels
<1>7. short \in BOOLEAN BY Zenon DEF Init
<1>. QED BY <1>1, <1>3, <1>4, <1>5, <1>6, <1>7, Zenon DEF Framed

(* The unit behind x, which comes before e.                                *)
LEMMA NextUnit ==
  ASSUME Framed, conn > 0, NEW x \in [msg : Nat \ {0}, part : Nat], OnWire(x),
         NEW e \in [msg : Nat \ {0}, part : Nat], OnWire(e), UpTo(x, e), x # e
  PROVE  /\ x.msg \in 1..Len(Here.messages) /\ After(x) \in [msg : Nat \ {0}, part : Nat]
         /\ OnWire(After(x)) /\ UpTo(x, After(x)) /\ UpTo(After(x), e)
<1>1. Len(Here.messages) \in Nat BY Sent
<1>2. x.msg \in 1..Len(Here.messages)
  <2>. SUFFICES ASSUME x.msg = Len(Here.messages) + 1 PROVE FALSE BY <1>1 DEF OnWire
  <2>1. x.part = 0 BY DEF OnWire
  <2>2. e.msg = Len(Here.messages) + 1 /\ e.part = 0 BY <1>1, <2>1 DEF OnWire, UpTo
  <2>. QED BY <2>1, <2>2
<1>3. Here.messages[x.msg].size \in Nat BY <1>2, Sent
<1>4. \A m \in 1..Len(Here.messages) : Here.messages[m].size \in Nat BY Sent
<1>. DEFINE z == After(x)
<1>5. CASE x.part < Here.messages[x.msg].size + 1
  <2>1. z = [msg |-> x.msg, part |-> x.part + 1] BY <1>5 DEF After, Position
  <2>2. OnWire(z) BY <1>1, <1>2, <1>3, <1>5, <2>1 DEF OnWire
  <2>3. UpTo(x, z) /\ UpTo(z, e) BY <2>1 DEF UpTo
  <2>. QED BY <1>2, <2>1, <2>2, <2>3
<1>6. CASE ~(x.part < Here.messages[x.msg].size + 1)
  <2>1. z = [msg |-> x.msg + 1, part |-> 0] BY <1>6 DEF After, Position
  <2>2. OnWire(z) BY <1>1, <1>2, <1>4, <2>1 DEF OnWire
  <2>3. x.part = Here.messages[x.msg].size + 1 BY <1>2, <1>3, <1>6 DEF OnWire
  <2>4. e.msg = x.msg => e.part <= x.part BY <1>2, <1>3, <2>3 DEF OnWire
  <2>5. UpTo(x, z) /\ UpTo(z, e) BY <2>1, <2>4 DEF UpTo
  <2>. QED BY <1>2, <2>1, <2>2, <2>5
<1>. QED BY <1>5, <1>6

(* A body that is all there has been overtaken by what arrives.            *)
LEMMA AllThere ==
  ASSUME Framed, pc = "body", Waiting = Batch.size
  PROVE  /\ Position(cur + 1, 0) \in [msg : Nat \ {0}, part : Nat]
         /\ OnWire(Position(cur + 1, 0)) /\ UpTo(Position(cur + 1, 0), sent)
<1>1. /\ conn > 0 /\ cur \in 1..Len(Here.messages) /\ Batch.size \in Nat
      BY Current
<1>2. Len(Here.messages) \in Nat /\ \A m \in 1..Len(Here.messages) : Here.messages[m].size \in Nat
      BY <1>1, Sent
<1>3. sent \in [msg : Nat \ {0}, part : Nat] /\ OnWire(sent) /\ UpTo(got, sent)
      BY <1>1 DEF Framed
<1>4. got = After(After(Position(cur, 0))) BY DEF Framed
<1>5. got = IF 0 < Batch.size THEN [msg |-> cur, part |-> 2] ELSE [msg |-> cur + 1, part |-> 0]
  <2>1. After(Position(cur, 0)) = [msg |-> cur, part |-> 1]
        BY <1>1 DEF After, Position, Batch
  <2>. QED BY <1>1, <1>4, <2>1 DEF After, Position, Batch
<1>6. sent.msg > cur
  <2>. SUFFICES ASSUME ~(sent.msg > cur) PROVE FALSE OBVIOUS
  <2>1. sent.part - 2 = Batch.size BY DEF Waiting
  <2>2. sent.msg = cur BY <1>1, <1>2, <1>3, <1>5 DEF UpTo
  <2>3. sent.part \in 0..Batch.size + 1 BY <1>1, <1>3, <2>2 DEF OnWire, Batch
  <2>. QED BY <1>1, <2>1, <2>3
<1>7. OnWire(Position(cur + 1, 0)) BY <1>1, <1>2 DEF OnWire, Position
<1>. QED BY <1>1, <1>3, <1>6, <1>7 DEF Position, UpTo

(* What a read of junk may take lies between what was read and arrived.    *)
LEMMA PlacesOnWire ==
  ASSUME Framed, conn > 0, NEW x \in Places(Here)
  PROVE  x \in [msg : Nat \ {0}, part : Nat] /\ OnWire(x)
<1>1. /\ Len(Here.messages) \in Nat
      /\ \A m \in 1..Len(Here.messages) : Here.messages[m].size \in Nat
      BY Sent
<1>2. CASE x = [msg |-> Len(Here.messages) + 1, part |-> 0] BY <1>1, <1>2 DEF OnWire
<1>3. CASE \E m \in 1..Len(Here.messages) : \E p \in 0..Here.messages[m].size + 1 :
             x = [msg |-> m, part |-> p]
  <2>1. PICK m \in 1..Len(Here.messages) : \E p \in 0..Here.messages[m].size + 1 :
               x = [msg |-> m, part |-> p]
        BY <1>3
  <2>2. PICK p \in 0..Here.messages[m].size + 1 : x = [msg |-> m, part |-> p] BY <2>1
  <2>3. m \in Nat \ {0} /\ p \in Nat BY <1>1
  <2>4. x.msg = m /\ x.part = p BY <2>2
  <2>5. Len(Here.messages) \in Nat /\ x.msg \in 1..Len(Here.messages) BY <1>1, <2>4
  <2>6. x.part \in 0..Here.messages[x.msg].size + 1 BY <2>4
  <2>7. OnWire(x) BY <2>5, <2>6, WithinOne, Zenon
  <2>. QED BY <2>2, <2>3, <2>7
<1>. QED BY <1>2, <1>3, PlacesAre

(* A step of main leaves what it has read on the wire and not ahead of     *)
(* what has arrived.                                                       *)
LEMMA FramedStep == Framed /\ [Next]_vars => Framed'
<1>. SUFFICES ASSUME Framed, [Next]_vars PROVE Framed' OBVIOUS
<1>. DEFINE Units == [msg : Nat \ {0}, part : Nat]
<1>0. /\ session \in Sessions /\ conn \in 0..Len(session) /\ pc \in Labels /\ cur \in Nat
      /\ nfail \in 0..3 /\ (pc # "exited" => nfail \in 0..2) /\ short \in BOOLEAN
      /\ {sent, got} \subseteq Units /\ sent \in Units /\ got \in Units
      /\ Len(session) \in Nat /\ conn \in Nat
  <2>1. session \in Seq(Connections) BY ServerOK DEF Framed
  <2>2. Len(session) \in Nat BY <2>1
  <2>3. conn \in Nat BY <2>2 DEF Framed
  <2>. QED BY <2>2, <2>3, Zenon DEF Framed
<1>1. CASE UNCHANGED <<session, conn, pc, cur, nfail, sent, got, handled, short>>
  <2>1. /\ session' = session /\ conn' = conn /\ pc' = pc /\ cur' = cur /\ nfail' = nfail
        /\ sent' = sent /\ got' = got /\ short' = short BY <1>1, Zenon
  <2>2. Here' = Here BY <2>1, Zenon DEF Here
  <2>. QED BY <2>1, <2>2 DEF Framed, OnWire, After, Position, End
<1>2. CASE \E t \in Threads : Worker(t) BY <1>1, <1>2, Working, Zenon
<1>3. CASE Accept
  <2>1. /\ session' = session /\ conn' = conn + 1 /\ conn < Len(session) /\ pc' = "prefix"
        /\ nfail' = 0 /\ sent' = First /\ got' = First /\ cur' = cur /\ short' = short
        BY <1>3 DEF Accept
  <2>2. First = [msg |-> 1, part |-> 0] BY DEF First, Position
  <2>3. /\ session' \in Sessions /\ conn' \in 0..Len(session') /\ conn' > 0 /\ pc' \in Labels
        /\ pc' \notin {"body"} \cup InBatch /\ cur' \in Nat /\ nfail' \in 0..3 /\ nfail' \in 0..2
        /\ short' \in BOOLEAN /\ {sent', got'} \subseteq Units
        BY <1>0, <2>1, <2>2 DEF Labels, InBatch
  <2>4. /\ Len(Here'.messages) \in Nat /\ Here' = session[conn + 1]
        /\ \A m \in 1..Len(Here'.messages) : Here'.messages[m] \in Batches
        /\ Here'.stop \in Units
    <3>1. session \in Seq(Connections) BY ServerOK, <1>0
    <3>2. conn + 1 \in 1..Len(session) BY <1>0, <2>1
    <3>. HIDE DEF Connections
    <3>3. session[conn + 1] \in Connections BY <3>1, <3>2
    <3>. QED BY <2>1, <3>3, Linked DEF Here
  <2>5. \A m \in 1..Len(Here'.messages) : Here'.messages[m].size \in Nat BY <2>4, Sizes
  <2>6. OnWire(sent)' /\ OnWire(got)' BY <2>1, <2>2, <2>4, <2>5 DEF OnWire
  <2>7. UpTo(got', sent') /\ UpTo(sent', End')
    <3>1. End' \in Units BY <2>4 DEF End
    <3>. QED BY <2>1, <2>2, <3>1 DEF UpTo
  <2>8. conn' # 0 BY <2>3, <1>0, <2>1
  <2>9. /\ pc' # "body" /\ pc' \notin InBatch BY <2>3
  <2>. QED BY <2>3, <2>6, <2>7, <2>8, <2>9, Zenon DEF Framed
(* The other steps stay with the connection.                               *)
<1>4. ASSUME session' = session, conn' = conn, conn > 0, pc' \in Labels, cur' \in Nat,
             nfail' \in 0..3, pc' # "exited" => nfail' \in 0..2, short' \in BOOLEAN,
             sent' \in Units, got' \in Units, OnWire(sent'), OnWire(got'), UpTo(got', sent'),
             UpTo(sent', End),
             pc' \in {"body"} \cup InBatch => cur' \in 1..Len(Here.messages),
             pc' = "body" => got' = After(After(Position(cur', 0))),
             pc' \in InBatch => got' = Position(cur' + 1, 0)
      PROVE  Framed'
  <2>1. Here' = Here BY <1>4, Zenon DEF Here
  <2>2. OnWire(sent)' /\ OnWire(got)' BY <1>4, <2>1 DEF OnWire
  <2>3. After(After(Position(cur, 0)))' = After(After(Position(cur', 0))) /\ End' = End
        BY <2>1, Zenon DEF After, Position, End
  <2>4. conn' \in 0..Len(session') /\ conn' # 0 BY <1>0, <1>4
  <2>5. {sent', got'} \subseteq Units /\ session' \in Sessions BY <1>0, <1>4
  <2>. QED BY <1>4, <2>1, <2>2, <2>3, <2>4, <2>5, Zenon DEF Framed, Position, UpTo
<1>5. conn = 0 => pc = "accept" BY DEF Framed
<1>6. conn > 0 => OnWire(sent) /\ OnWire(got) /\ UpTo(got, sent) /\ UpTo(sent, End)
      BY Zenon DEF Framed
<1>7. /\ pc \in {"body"} \cup InBatch => cur \in 1..Len(Here.messages)
      /\ pc = "body" => got = After(After(Position(cur, 0)))
      /\ pc \in InBatch => got = Position(cur + 1, 0)
      BY Zenon DEF Framed
<1>8. pc # "accept" => conn > 0 BY <1>0, <1>5
<1>9. UpTo(sent, sent) BY <1>0 DEF UpTo
<1>10. CASE Arrive
  <2>1. /\ pc \in {"prefix", "body", "junk"} /\ sent # End /\ sent' = After(sent)
        /\ session' = session /\ conn' = conn /\ pc' = pc /\ cur' = cur /\ nfail' = nfail
        /\ got' = got /\ short' = short
        BY <1>10 DEF Arrive
  <2>2. conn > 0 BY <1>8, <2>1
  <2>3. End \in Units /\ OnWire(End) BY <2>2, Sent
  <2>4. sent' \in Units /\ OnWire(sent') /\ UpTo(sent, sent') /\ UpTo(sent', End)
        BY <1>0, <1>6, <2>1, <2>2, <2>3, NextUnit, Zenon
  <2>5. UpTo(got', sent') BY <1>0, <1>6, <2>1, <2>2, <2>4 DEF UpTo
  <2>. QED BY <1>0, <1>4, <1>6, <1>7, <2>1, <2>2, <2>4, <2>5, Zenon
<1>11. CASE ReadPrefix
  <2>1. /\ pc = "prefix" /\ got # sent /\ After(got) # sent /\ got' = After(After(got))
        /\ session' = session /\ conn' = conn /\ nfail' = nfail /\ sent' = sent /\ short' = short
        /\ \/ got.part = 0 /\ pc' = "body" /\ cur' = got.msg
           \/ pc' = "junk" /\ cur' = cur
        BY <1>11 DEF ReadPrefix
  <2>2. conn > 0 BY <1>8, <2>1
  <2>3. /\ got.msg \in 1..Len(Here.messages) /\ After(got) \in Units /\ OnWire(After(got))
        /\ UpTo(After(got), sent)
        BY <1>0, <1>6, <2>1, <2>2, NextUnit, Zenon
  <2>4. got' \in Units /\ OnWire(got') /\ UpTo(got', sent')
        BY <1>0, <1>6, <2>1, <2>2, <2>3, NextUnit, Zenon
  <2>5. got.part = 0 => got = Position(got.msg, 0) BY <1>0 DEF Position
  <2>6. pc' \in Labels /\ cur' \in Nat /\ pc' # "exited" /\ nfail' \in 0..2
        BY <1>0, <2>1, <2>3 DEF Labels
  <2>7. pc' \notin InBatch BY <2>1 DEF InBatch
  <2>8. pc' = "body" => cur' \in 1..Len(Here.messages) /\ got' = After(After(Position(cur', 0)))
        BY <2>1, <2>3, <2>5
  <2>. QED BY <1>0, <1>4, <1>6, <2>1, <2>2, <2>4, <2>6, <2>7, <2>8, Zenon
<1>12. ASSUME pc \notin {"accept", "exited"}, session' = session, conn' = conn, cur' = cur,
              sent' = sent, got' \in Units, OnWire(got'), UpTo(got', sent), short' \in BOOLEAN,
              Fail
       PROVE  Framed'
  <2>1. nfail' = nfail + 1 /\ pc' \in {"exited", "prefix"} /\ (pc' # "exited" => ~(nfail' > 2))
        BY <1>12 DEF Fail
  <2>2. nfail' \in 0..3 /\ (pc' # "exited" => nfail' \in 0..2) BY <1>0, <1>12, <2>1
  <2>3. UpTo(got', sent') /\ UpTo(sent', End) BY <1>6, <1>8, <1>12, Zenon
  <2>4. pc' \in Labels /\ pc' # "body" /\ pc' \notin InBatch BY <2>1 DEF Labels, InBatch
  <2>5. sent' \in Units /\ OnWire(sent') BY <1>0, <1>6, <1>8, <1>12
  <2>. QED BY <1>0, <1>4, <1>8, <1>12, <2>2, <2>3, <2>4, <2>5, Zenon
<1>13. CASE ReadJunk
  <2>1. /\ pc = "junk" /\ session' = session /\ conn' = conn /\ cur' = cur /\ sent' = sent
        /\ short' = short
        /\ \/ pc' = "exited" /\ got' = got /\ nfail' = nfail
           \/ got' \in Places(Here) /\ UpTo(got', sent) /\ Fail
        BY <1>13 DEF ReadJunk
  <2>2. conn > 0 BY <1>8, <2>1
  <2>3. CASE got' \in Places(Here) /\ UpTo(got', sent) /\ Fail
        BY <1>0, <1>12, <2>1, <2>2, <2>3, PlacesOnWire
  <2>4. CASE pc' = "exited" /\ got' = got /\ nfail' = nfail
    <3>1. pc' \in Labels /\ pc' # "body" /\ pc' \notin InBatch BY <2>4 DEF Labels, InBatch
    <3>. QED BY <1>0, <1>4, <1>6, <2>1, <2>2, <2>4, <3>1, Zenon
  <2>. QED BY <2>1, <2>3, <2>4
<1>14. CASE ReadClosed
  <2>1. /\ pc \in {"prefix", "body", "junk"} /\ session' = session /\ conn' = conn /\ cur' = cur
        /\ sent' = sent /\ got' = got /\ short' \in BOOLEAN /\ Fail
        BY <1>0, <1>14 DEF ReadClosed
  <2>. QED BY <1>0, <1>6, <1>8, <1>12, <2>1
<1>15. CASE ShortBody \/ ShortPrefix
  <2>1. /\ pc \in {"prefix", "body"} /\ session' = session /\ conn' = conn /\ cur' = cur
        /\ sent' = sent /\ got' = sent /\ short' = TRUE /\ Fail
        BY <1>15 DEF ShortBody, ShortPrefix
  <2>. QED BY <1>0, <1>6, <1>8, <1>9, <1>12, <2>1
<1>23. CASE Refuse
  <2>1. /\ pc = "body" /\ Waiting = Batch.size /\ got' = Position(cur + 1, 0)
        /\ session' = session /\ conn' = conn /\ cur' = cur /\ sent' = sent /\ short' = short
        /\ Fail
        BY <1>23 DEF Refuse
  <2>2. got' \in Units /\ OnWire(got') /\ UpTo(got', sent) BY <2>1, AllThere, Zenon
  <2>. QED BY <1>0, <1>12, <2>1, <2>2
<1>16. CASE Receive
  <2>1. /\ pc = "body" /\ Waiting = Batch.size /\ got' = Position(cur + 1, 0) /\ nfail' = 0
        /\ session' = session /\ conn' = conn /\ cur' = cur /\ sent' = sent /\ short' = short
        /\ pc' \in {"prefix", "accept", "insert"}
        BY <1>16 DEF Receive
  <2>2. got' \in Units /\ OnWire(got') /\ UpTo(got', sent') BY <2>1, AllThere, Zenon
  <2>3. conn > 0 BY <1>8, <2>1
  <2>4. pc' \in Labels /\ pc' # "body" /\ nfail' \in 0..3 /\ nfail' \in 0..2
        BY <2>1 DEF Labels
  <2>5. cur' \in 1..Len(Here.messages) BY <1>7, <2>1
  <2>6. sent' \in Units /\ OnWire(sent') /\ UpTo(sent', End) BY <1>0, <1>6, <2>1, <2>3
  <2>. QED BY <1>0, <1>4, <2>1, <2>2, <2>3, <2>4, <2>5, <2>6, Zenon
(* The phases of a batch.                                                  *)
<1>17. ASSUME pc \in InBatch, pc' \in InBatch \cup {"prefix", "accept"},
              UNCHANGED <<session, conn, cur, nfail, sent, got, handled, short>>
       PROVE  Framed'
  <2>1. /\ session' = session /\ conn' = conn /\ cur' = cur /\ nfail' = nfail /\ sent' = sent
        /\ got' = got /\ short' = short
        BY <1>17, Zenon
  <2>2. conn > 0 /\ pc # "exited" BY <1>8, <1>17 DEF InBatch
  <2>3. pc' \in Labels /\ pc' # "body" BY <1>17 DEF Labels, InBatch
  <2>. QED BY <1>0, <1>4, <1>6, <1>7, <1>17, <2>1, <2>2, <2>3, Zenon
<1>18. CASE EndInsertions BY <1>17, <1>18 DEF EndInsertions, Barrier, InBatch
<1>19. CASE EndDeletions BY <1>17, <1>19 DEF EndDeletions, Barrier, InBatch
<1>20. CASE EndRegion BY <1>17, <1>20 DEF EndRegion, InBatch
<1>21. CASE Finish BY <1>17, <1>21 DEF Finish, InBatch
<1>22. CASE UNCHANGED vars BY <1>1, <1>22, Zenon DEF vars, net
<1>. QED BY <1>2, <1>3, <1>10, <1>11, <1>13, <1>14, <1>15, <1>16, <1>18, <1>19, <1>20, <1>21,
            <1>22, <1>23, Zenon DEF Next, MainThread, Over

------------------------------------------------------------------------------
(* The messages received.                                                  *)

LEMMA InStepInit == Init => InStep
<1>. SUFFICES ASSUME Init PROVE InStep OBVIOUS
<1>1. handled = <<>> /\ pc = "accept" BY DEF Init
<1>2. handled \in Seq(Nat \X (Nat \ {0})) /\ DOMAIN handled = {} BY <1>1
<1>3. pc # "junk" /\ pc # "prefix" /\ pc # "body" /\ pc \notin InBatch BY <1>1 DEF InBatch
<1>. QED BY <1>2, <1>3, Zenon DEF InStep, Order, Complete

(* One more message.                                                       *)
LEMMA OneMore ==
  ASSUME NEW S, NEW h \in Seq(S), NEW e \in S, NEW g, g = Append(h, e)
  PROVE  /\ g \in Seq(S) /\ Len(h) \in Nat /\ DOMAIN h = 1..Len(h)
         /\ DOMAIN g = DOMAIN h \cup {Len(h) + 1} /\ Len(h) + 1 \notin DOMAIN h
         /\ \A x \in DOMAIN h : g[x] = h[x] /\ x < Len(h) + 1
         /\ g[Len(h) + 1] = e
<1>1. Len(h) \in Nat /\ DOMAIN h = 1..Len(h) /\ Len(g) = Len(h) + 1 /\ g \in Seq(S) OBVIOUS
<1>2. DOMAIN g = 1..Len(h) + 1 BY <1>1
<1>3. \A x \in 1..Len(h) : g[x] = h[x] BY <1>1
<1>4. g[Len(h) + 1] = e OBVIOUS
<1>. QED BY <1>1, <1>2, <1>3, <1>4

(* The messages of a connection are received in the order they were sent.  *)
LEMMA InStepStep == Framed /\ InStep /\ [Next]_vars => InStep'
<1>. SUFFICES ASSUME Framed, InStep, [Next]_vars PROVE InStep' OBVIOUS
<1>. DEFINE Message == Nat \X (Nat \ {0})
<1>0. /\ handled \in Seq(Message) /\ \A x \in DOMAIN handled : handled[x][1] <= conn
      /\ pc = "junk" => short
      /\ ~short => \A x \in DOMAIN handled : session[handled[x][1]].messages[handled[x][2]].parses
      /\ ~short => Order /\ Complete
      /\ ~short /\ pc = "prefix" => got.part = 0 /\ Behind(got.msg)
      /\ ~short /\ pc = "body" => Behind(cur)
      /\ ~short /\ pc \in InBatch => Behind(cur + 1)
      BY Zenon DEF InStep
<1>1. \A x \in DOMAIN handled : handled[x][1] \in Nat /\ handled[x][2] \in Nat BY <1>0
<1>2. conn \in Nat /\ cur \in Nat /\ got \in [msg : Nat \ {0}, part : Nat]
  <2>1. session \in Seq(Connections) BY ServerOK DEF Framed
  <2>. QED BY <2>1 DEF Framed
(* Without a message received.                                             *)
<1>3. ASSUME handled' = handled, conn' = conn, session' = session, short => short',
             pc' = "junk" => short',
             ~short' /\ pc' = "prefix" => got'.part = 0 /\ Behind(got'.msg),
             ~short' /\ pc' = "body" => Behind(cur'),
             ~short' /\ pc' \in InBatch => Behind(cur' + 1)
      PROVE  InStep'
  <2>1. Here' = Here BY <1>3, Zenon DEF Here
  <2>2. /\ Behind(got.msg)' <=> Behind(got'.msg)
        /\ Behind(cur)' <=> Behind(cur')
        /\ Behind(cur + 1)' <=> Behind(cur' + 1)
        BY <1>3, <2>1, Zenon DEF Behind
  <2>3. Order' <=> Order BY <1>3, Zenon DEF Order
  <2>4. Complete' <=> Complete BY <1>3, Zenon DEF Complete
  <2>. QED BY <1>0, <1>3, <2>2, <2>3, <2>4, Zenon DEF InStep
<1>4. CASE UNCHANGED <<session, conn, pc, cur, nfail, sent, got, handled, short>>
      BY <1>0, <1>3, <1>4, Zenon
<1>5. CASE \E t \in Threads : Worker(t) BY <1>4, <1>5, Working, Zenon
<1>6. CASE UNCHANGED vars BY <1>4, <1>6, Zenon DEF vars, net
<1>7. CASE Accept
  <2>1. /\ handled' = handled /\ conn' = conn + 1 /\ short' = short /\ pc' = "prefix"
        /\ session' = session /\ got' = [msg |-> 1, part |-> 0]
        BY <1>7 DEF Accept, First, Position
  <2>2. \A x \in DOMAIN handled : handled[x][1] # conn + 1 /\ handled[x][1] <= conn + 1
        BY <1>0, <1>1, <1>2
  <2>3. 1..0 = {} OBVIOUS
  <2>4. Behind(1)'
    <3>1. 1 - 1 = 0 OBVIOUS
    <3>. QED BY <2>1, <2>2, <2>3, <3>1 DEF Behind
  <2>5. got'.part = 0 /\ got'.msg = 1 /\ pc' # "junk" /\ pc' # "body" BY <2>1
  <2>6. pc' \notin InBatch BY <2>1 DEF InBatch
  <2>7. Behind(got.msg)' BY <2>4, <2>5 DEF Behind
  <2>8. Order' <=> Order BY <2>1, Zenon DEF Order
  <2>9. Complete' <=> Complete BY <2>1, Zenon DEF Complete
  <2>. QED BY <1>0, <2>1, <2>2, <2>5, <2>6, <2>7, <2>8, <2>9, Zenon DEF InStep
<1>8. CASE Arrive
  <2>1. /\ handled' = handled /\ conn' = conn /\ session' = session /\ short' = short
        /\ pc' = pc /\ got' = got /\ cur' = cur BY <1>8 DEF Arrive
  <2>. QED BY <1>0, <1>3, <2>1, Zenon
<1>9. CASE ReadPrefix
  <2>1. /\ pc = "prefix" /\ handled' = handled /\ conn' = conn /\ session' = session
        /\ short' = short
        /\ \/ got.part = 0 /\ pc' = "body" /\ cur' = got.msg
           \/ got.part # 0 /\ pc' = "junk"
        BY <1>9 DEF ReadPrefix
  <2>2. pc' # "prefix" BY <2>1
  <2>3. pc' \notin InBatch BY <2>1 DEF InBatch
  <2>. QED BY <1>0, <1>3, <2>1, <2>2, <2>3
<1>10. CASE ReadJunk
  <2>1. /\ pc = "junk" /\ handled' = handled /\ conn' = conn /\ session' = session
        /\ short' = short
        BY <1>10 DEF ReadJunk
  <2>. QED BY <1>0, <1>3, <2>1
<1>11. CASE ReadClosed
  <2>1. /\ pc \in {"prefix", "body", "junk"} /\ handled' = handled /\ conn' = conn
        /\ session' = session /\ short' = (short \/ pc = "body")
        /\ got' = got /\ pc' \in {"exited", "prefix"}
        BY <1>11 DEF ReadClosed, Fail
  <2>2. pc' # "junk" /\ pc' # "body" /\ pc' \notin InBatch BY <2>1 DEF InBatch
  <2>. QED BY <1>0, <1>3, <2>1, <2>2
<1>12. CASE ShortBody \/ ShortPrefix
  <2>1. handled' = handled /\ conn' = conn /\ session' = session /\ short' = TRUE
        BY <1>12 DEF ShortBody, ShortPrefix
  <2>. QED BY <1>3, <2>1
<1>13. CASE Refuse
  <2>1. /\ pc = "body" /\ ~Batch.parses /\ handled' = handled /\ conn' = conn
        /\ session' = session /\ short' = short /\ got' = Position(cur + 1, 0)
        /\ pc' \in {"exited", "prefix"}
        BY <1>13 DEF Refuse, Fail
  <2>2. got'.part = 0 /\ got'.msg = cur + 1 BY <2>1 DEF Position
  <2>3. ~short => Behind(cur + 1)
    <3>. SUFFICES ASSUME ~short PROVE Behind(cur + 1) OBVIOUS
    <3>1. Behind(cur) BY <1>0, <2>1
    <3>2. \A x \in DOMAIN handled : handled[x][1] = conn => handled[x][2] < cur + 1
          BY <1>1, <1>2, <3>1 DEF Behind
    <3>3. \A l \in 1..(cur + 1) - 1 : Here.messages[l].parses =>
            \E x \in DOMAIN handled : handled[x] = <<conn, l>>
      <4>. SUFFICES ASSUME NEW l \in 1..(cur + 1) - 1, Here.messages[l].parses
                    PROVE  \E x \in DOMAIN handled : handled[x] = <<conn, l>>
           OBVIOUS
      <4>1. l # cur BY <2>1 DEF Batch
      <4>2. l \in 1..cur - 1 BY <1>2, <4>1
      <4>. QED BY <3>1, <4>2 DEF Behind
    <3>. QED BY <3>2, <3>3, Zenon DEF Behind
  <2>4. pc' # "junk" /\ pc' # "body" /\ pc' \notin InBatch BY <2>1 DEF InBatch
  <2>. QED BY <1>3, <2>1, <2>2, <2>3, <2>4
<1>14. CASE Receive
  <2>1. /\ pc = "body" /\ handled' = Append(handled, <<conn, cur>>) /\ conn' = conn
        /\ short' = short /\ cur' = cur /\ got' = Position(cur + 1, 0) /\ Batch.parses
        /\ pc' \in {"prefix", "accept", "insert"} /\ session' = session
        BY <1>14 DEF Receive
  <2>. DEFINE e == <<conn, cur>>
              n == Len(handled) + 1
  <2>2. e \in Message /\ e[1] = conn /\ e[2] = cur
    <3>1. cur \in 1..Len(Here.messages) BY <2>1, Current
    <3>. QED BY <1>2, <3>1
  <2>. HIDE DEF e
  <2>3. handled' = Append(handled, e) BY <2>1 DEF e
  <2>. HIDE DEF Message
  <2>4. /\ handled' \in Seq(Message) /\ n \in Nat /\ DOMAIN handled \subseteq Nat
        /\ DOMAIN handled' = DOMAIN handled \cup {n} /\ n \notin DOMAIN handled
        /\ \A x \in DOMAIN handled : handled'[x] = handled[x] /\ x < n
        /\ handled'[n] = e
        BY <1>0, <2>2, <2>3, OneMore
  <2>. HIDE DEF n
  <2>5. \A x \in DOMAIN handled' : handled'[x][1] <= conn'
        BY <1>0, <1>2, <2>1, <2>2, <2>4
  <2>6. ASSUME ~short'
        PROVE  /\ \A x \in DOMAIN handled' :
                    session'[handled'[x][1]].messages[handled'[x][2]].parses
               /\ Order' /\ Complete' /\ Behind(cur + 1)'
    <3>1. ~short /\ Behind(cur) /\ Order /\ Complete
          /\ \A x \in DOMAIN handled : session[handled[x][1]].messages[handled[x][2]].parses
          BY <1>0, <2>1, <2>6
    <3>2. session[conn].messages[cur].parses BY <2>1 DEF Batch, Here
    <3>3. \A x \in DOMAIN handled' : session'[handled'[x][1]].messages[handled'[x][2]].parses
          BY <2>1, <2>2, <2>4, <3>1, <3>2
    <3>4. \A x \in DOMAIN handled : handled[x][1] = conn => handled[x][2] < cur
          BY <3>1 DEF Behind
    <3>5. Order'
      <4>. SUFFICES ASSUME NEW x \in DOMAIN handled', NEW y \in DOMAIN handled', x < y,
                           handled'[x][1] = handled'[y][1]
                    PROVE  handled'[x][2] < handled'[y][2]
           BY DEF Order
      <4>1. x \in DOMAIN handled
        <5>. SUFFICES ASSUME x = n PROVE FALSE BY <2>4
        <5>1. y = n \/ y < n BY <2>4
        <5>2. y \in Nat /\ n \in Nat BY <2>4
        <5>. QED BY <5>1, <5>2
      <4>2. CASE y = n BY <2>2, <2>4, <3>4, <4>1, <4>2
      <4>3. CASE y \in DOMAIN handled BY <2>4, <3>1, <4>1, <4>3 DEF Order
      <4>. QED BY <2>4, <4>2, <4>3
    <3>6. \A l \in 1..cur - 1 : session[conn].messages[l].parses =>
            \E y \in DOMAIN handled : handled[y] = <<conn, l>>
          BY <3>1 DEF Behind, Here
    <3>7. Complete'
      <4>. SUFFICES ASSUME NEW x \in DOMAIN handled', NEW l \in 1..handled'[x][2] - 1,
                           session[handled'[x][1]].messages[l].parses
                    PROVE  \E y \in DOMAIN handled' : handled'[y] = <<handled'[x][1], l>>
           BY <2>1 DEF Complete
      <4>1. \E y \in DOMAIN handled : handled[y] = <<handled'[x][1], l>>
        <5>1. CASE x = n BY <2>2, <2>4, <3>6, <5>1
        <5>2. CASE x \in DOMAIN handled BY <2>4, <3>1, <5>2 DEF Complete
        <5>. QED BY <2>4, <5>1, <5>2
      <4>. QED BY <2>4, <4>1
    <3>8. Behind(cur + 1)'
      <4>1. \A x \in DOMAIN handled' : handled'[x][1] = conn => handled'[x][2] < cur + 1
            BY <1>1, <1>2, <2>2, <2>4, <3>4
      <4>2. ASSUME NEW l \in 1..(cur + 1) - 1, session[conn].messages[l].parses
            PROVE  \E x \in DOMAIN handled' : handled'[x] = <<conn, l>>
        <5>1. CASE l = cur BY <2>4, <5>1 DEF e
        <5>2. CASE l \in 1..cur - 1 BY <2>4, <3>6, <4>2, <5>2
        <5>. QED BY <1>2, <5>1, <5>2
      <4>3. \A x \in DOMAIN handled' : handled'[x][1] = conn' => handled'[x][2] < cur' + 1
            BY <2>1, <4>1, Zenon
      <4>4. \A l \in 1..(cur' + 1) - 1 : session'[conn'].messages[l].parses =>
              \E x \in DOMAIN handled' : handled'[x] = <<conn', l>>
            BY <2>1, <4>2, Zenon
      <4>. QED BY <4>3, <4>4, Zenon DEF Behind, Here
    <3>. QED BY <3>3, <3>5, <3>7, <3>8
  <2>7. got'.part = 0 /\ got'.msg = cur + 1 BY <2>1 DEF Position
  <2>8. Behind(cur + 1)' => Behind(got.msg)'
        BY <2>1, <2>7 DEF Behind
  <2>9. pc' # "junk" /\ pc' # "body" BY <2>1
  <2>. QED BY <2>1, <2>4, <2>5, <2>6, <2>7, <2>8, <2>9 DEF InStep, Message
<1>15. ASSUME pc \in InBatch, pc' \in InBatch,
              UNCHANGED <<session, conn, cur, nfail, sent, got, handled, short>>
       PROVE  InStep'
  <2>1. /\ conn' = conn /\ cur' = cur /\ handled' = handled /\ short' = short
        /\ session' = session
        BY <1>15, Zenon
  <2>2. pc' # "junk" /\ pc' # "body" /\ pc' # "prefix" BY <1>15 DEF InBatch
  <2>. QED BY <1>0, <1>3, <1>15, <2>1, <2>2
<1>16. CASE EndInsertions BY <1>15, <1>16 DEF EndInsertions, Barrier, InBatch
<1>17. CASE EndDeletions BY <1>15, <1>17 DEF EndDeletions, Barrier, InBatch
<1>18. CASE EndRegion BY <1>15, <1>18 DEF EndRegion, InBatch
<1>19. CASE Finish
  <2>1. /\ pc = "finish" /\ pc' \in {"prefix", "accept"} /\ session' = session
        /\ conn' = conn /\ cur' = cur /\ handled' = handled /\ short' = short /\ got' = got
        BY <1>19 DEF Finish
  <2>2. got = Position(cur + 1, 0) BY <2>1 DEF Framed, InBatch
  <2>3. got.part = 0 /\ got.msg = cur + 1 BY <1>2, <2>2 DEF Position
  <2>4. pc' # "junk" /\ pc' # "body" /\ pc' \notin InBatch BY <2>1 DEF InBatch
  <2>5. ~short => Behind(cur + 1) BY <1>0, <2>1 DEF InBatch
  <2>. QED BY <1>3, <2>1, <2>3, <2>4, <2>5
<1>. QED BY <1>5, <1>6, <1>7, <1>8, <1>9, <1>10, <1>11, <1>12, <1>13, <1>14, <1>16, <1>17, <1>18,
            <1>19, Zenon DEF Next, MainThread, Over

------------------------------------------------------------------------------
(* The physical map.                                                       *)

LEMMA NumberedInit == Init => Numbered
BY DEF Init, Numbered

(* A string that has a number keeps it, and a new one gets the next.       *)
LEMMA Mapping ==
  ASSUME Numbered, NEW n \in Names, MapCreate(n)
  PROVE  /\ Numbered'
         /\ \A m \in Names : vertex[m] # -1 => vertex'[m] = vertex[m]
         /\ vertex'[n] \in Nat
<1>1. next_type \in Nat /\ vertex \in [Names -> {-1} \cup 0..next_type - 1] BY DEF Numbered
<1>2. CASE vertex[n] # -1 /\ vertex' = vertex /\ next_type' = next_type
  <2>1. Numbered' BY <1>1, <1>2 DEF Numbered
  <2>. QED BY <1>1, <1>2, <2>1
<1>3. CASE /\ vertex[n] = -1 /\ vertex' = [vertex EXCEPT ![n] = next_type]
           /\ next_type' = next_type + 1
  <2>1. {-1} \cup 0..next_type - 1 \subseteq {-1} \cup 0..next_type' - 1 BY <1>1, <1>3
  <2>2. next_type \in {-1} \cup 0..next_type' - 1 BY <1>1, <1>3
  <2>3. Numbered' BY <1>1, <1>3, <2>1, <2>2 DEF Numbered
  <2>4. \A m \in Names : vertex[m] # -1 => vertex'[m] = vertex[m] BY <1>1, <1>3
  <2>5. vertex'[n] = next_type BY <1>1, <1>3
  <2>. QED BY <1>1, <2>3, <2>4, <2>5
<1>. QED BY <1>2, <1>3 DEF MapCreate

(* What the threads resolve is a number or is mapped.                      *)
LEMMA Resolving ==
  ASSUME Numbered, NEW e \in Endpoints, Resolve(e)
  PROVE  /\ Numbered'
         /\ \A m \in Names : vertex[m] # -1 => vertex'[m] = vertex[m]
         /\ VertexOf(e, vertex') \in Nat
<1>. USE Limits
<1>1. CASE e \notin Names
  <2>1. UNCHANGED <<vertex, next_type>> BY <1>1 DEF Resolve
  <2>2. e \in Nat BY <1>1 DEF Endpoints
  <2>. QED BY <1>1, <2>1, <2>2 DEF VertexOf, Numbered
<1>2. CASE e \in Names
  <2>1. Lower[e] \in Names /\ MapCreate(Lower[e]) BY <1>2 DEF Resolve
  <2>. QED BY <1>2, <2>1, Mapping DEF VertexOf
<1>. QED BY <1>1, <1>2

(* What a batch's type makes of an end is an end.                          *)
LEMMA Decoding ==
  ASSUME NEW x, x.source \in Endpoints, x.destination \in Endpoints
  PROVE  /\ Source(x) \in Endpoints /\ Destination(x) \in Endpoints
         /\ DestinationOf(x) \in Endpoints
<1>1. 0 \in Endpoints /\ 1 \in Endpoints /\ Empty \in Endpoints BY Limits DEF Endpoints
<1>2. ASSUME NEW e \in Endpoints, NEW d \in {0, 1} PROVE Decoded(e, d) \in Endpoints
      BY <1>1 DEF Decoded
<1>. QED BY <1>1, <1>2 DEF Source, Destination, DestinationOf

------------------------------------------------------------------------------

Others(x, y, t) == \A s \in Threads \ {t} : y[s] = x[s]
Agree(x, y, S) == \A s \in S : y[s] = x[s]

LEMMA DoneFinite ==
  ASSUME NEW x, NEW H, NEW left, NEW all, IsFiniteSet(all)
  PROVE  IsFiniteSet(DoneIn(x, H, left, all)) /\ Cardinality(DoneIn(x, H, left, all)) \in Nat
         /\ DoneIn(x, H, left, all) \subseteq all
<1>1. DoneIn(x, H, left, all) \subseteq all BY DEF DoneIn
<1>. QED BY <1>1, FS_Subset, FS_CardinalityType

(* An idle thread takes an iteration.                                      *)
LEMMA TakeShared ==
  ASSUME NEW x, NEW y, NEW H, NEW left, NEW all, NEW n, NEW t \in Threads, NEW k \in left,
         IsFiniteSet(all), Sharing(x, H, left, all, n), Others(x, y, t), "store" \notin H,
         x[t].pc \notin H, x[t].pc # "store", y[t].pc \in H, y[t].k = k
  PROVE  /\ Sharing(y, H, left \ {k}, all, n)
         /\ DoneIn(y, H, left \ {k}, all) = DoneIn(x, H, left, all)
         /\ Storing(y) = Storing(x) /\ Agree(x, y, Storing(x))
<1>1. Holding(y, H) = Holding(x, H) \cup {t} BY DEF Holding, Others
<1>2. \A s \in Holding(x, H) : y[s] = x[s] /\ s # t BY DEF Holding, Others
<1>3. Storing(y) = Storing(x) /\ \A s \in Storing(x) : y[s] = x[s] BY DEF Storing, Others
<1>4. k \in all BY DEF Sharing
<1>5. DoneIn(y, H, left \ {k}, all) = DoneIn(x, H, left, all)
  <2>1. {y[s].k : s \in Holding(y, H)} = {x[s].k : s \in Holding(x, H)} \cup {k}
        BY <1>1, <1>2
  <2>. QED BY <1>4, <2>1 DEF DoneIn
<1>6. \A s \in Holding(y, H) : y[s].k \in all \ (left \ {k})
      BY <1>1, <1>2, <1>4 DEF Sharing
<1>7. \A s, r \in Holding(y, H) : y[s].k = y[r].k => s = r BY <1>1, <1>2 DEF Sharing
<1>. QED BY <1>3, <1>5, <1>6, <1>7 DEF Sharing, Agree

(* It is done with one at once.                                            *)
LEMMA SkipShared ==
  ASSUME NEW x, NEW y, NEW H, NEW left, NEW all, NEW n, NEW t \in Threads, NEW k \in left,
         IsFiniteSet(all), Sharing(x, H, left, all, n), Others(x, y, t),
         x[t].pc \notin H, x[t].pc # "store", y[t].pc \notin H, y[t].pc # "store"
  PROVE  /\ Sharing(y, H, left \ {k}, all, n)
         /\ DoneIn(y, H, left \ {k}, all) = DoneIn(x, H, left, all) \cup {k}
         /\ Storing(y) = Storing(x) /\ Agree(x, y, Storing(x))
<1>1. Holding(y, H) = Holding(x, H) BY DEF Holding, Others
<1>2. \A s \in Holding(x, H) : y[s] = x[s] /\ s # t BY DEF Holding, Others
<1>3. Storing(y) = Storing(x) /\ \A s \in Storing(x) : y[s] = x[s] BY DEF Storing, Others
<1>4. k \in all BY DEF Sharing
<1>. DEFINE D == DoneIn(x, H, left, all)
<1>5. DoneIn(y, H, left \ {k}, all) = D \cup {k} /\ k \notin D
  <2>1. {y[s].k : s \in Holding(y, H)} = {x[s].k : s \in Holding(x, H)} BY <1>1, <1>2
  <2>2. k \notin {x[s].k : s \in Holding(x, H)} BY DEF Sharing
  <2>. QED BY <1>4, <2>1, <2>2 DEF DoneIn
<1>6. Cardinality(DoneIn(y, H, left \ {k}, all)) = Cardinality(D) + 1 /\ Cardinality(D) \in Nat
      BY <1>5, DoneFinite, FS_AddElement
<1>7. n \in Nat /\ n <= Cardinality(DoneIn(y, H, left \ {k}, all)) BY <1>6 DEF Sharing
<1>8. left \ {k} \subseteq all /\ \A s \in Holding(y, H) : y[s].k \in all \ (left \ {k})
      BY <1>1, <1>2 DEF Sharing
<1>9. \A s, r \in Holding(y, H) : y[s].k = y[r].k => s = r BY <1>1, <1>2 DEF Sharing
<1>. QED BY <1>3, <1>5, <1>7, <1>8, <1>9 DEF Sharing, Agree

(* It goes on with its own.                                                *)
LEMMA KeepShared ==
  ASSUME NEW x, NEW y, NEW H, NEW left, NEW all, NEW n, NEW t \in Threads,
         IsFiniteSet(all), Sharing(x, H, left, all, n), Others(x, y, t), "store" \notin H,
         x[t].pc \in H, y[t].pc \in H, y[t].k = x[t].k
  PROVE  /\ Sharing(y, H, left, all, n)
         /\ DoneIn(y, H, left, all) = DoneIn(x, H, left, all)
         /\ Storing(y) = Storing(x) /\ Agree(x, y, Storing(x))
<1>1. Holding(y, H) = Holding(x, H) BY DEF Holding, Others
<1>2. \A s \in Holding(x, H) : y[s].k = x[s].k BY DEF Holding, Others
<1>3. Storing(y) = Storing(x) /\ \A s \in Storing(x) : y[s] = x[s] BY DEF Storing, Others
<1>4. {y[s].k : s \in Holding(y, H)} = {x[s].k : s \in Holding(x, H)} BY <1>1, <1>2
<1>5. DoneIn(y, H, left, all) = DoneIn(x, H, left, all) BY <1>4 DEF DoneIn
<1>. QED BY <1>1, <1>2, <1>3, <1>5 DEF Sharing, Agree

(* It is done with its own, without a change or with one that it counts.   *)
LEMMA LetGo ==
  ASSUME NEW x, NEW y, NEW H, NEW left, NEW all, NEW n, NEW t \in Threads,
         IsFiniteSet(all), Sharing(x, H, left, all, n), Others(x, y, t),
         x[t].pc \in H, y[t].pc \notin H
  PROVE  /\ DoneIn(y, H, left, all) = DoneIn(x, H, left, all) \cup {x[t].k}
         /\ x[t].k \notin DoneIn(x, H, left, all)
         /\ Agree(x, y, Holding(y, H)) /\ Holding(y, H) \subseteq Holding(x, H)
         /\ Cardinality(DoneIn(y, H, left, all)) = Cardinality(DoneIn(x, H, left, all)) + 1
         /\ Cardinality(DoneIn(x, H, left, all)) \in Nat
<1>1. Holding(y, H) = Holding(x, H) \ {t} BY DEF Holding, Others
<1>2. \A s \in Holding(y, H) : y[s] = x[s] BY <1>1 DEF Holding, Others
<1>3. t \in Holding(x, H) BY DEF Holding
<1>4. x[t].k \notin {y[s].k : s \in Holding(y, H)} BY <1>1, <1>2, <1>3 DEF Sharing
<1>5. {x[s].k : s \in Holding(x, H)} = {y[s].k : s \in Holding(y, H)} \cup {x[t].k}
      BY <1>1, <1>2, <1>3
<1>6. x[t].k \in all \ left BY <1>3 DEF Sharing
<1>7. /\ DoneIn(y, H, left, all) = DoneIn(x, H, left, all) \cup {x[t].k}
      /\ x[t].k \notin DoneIn(x, H, left, all)
      BY <1>4, <1>5, <1>6 DEF DoneIn
<1>8. IsFiniteSet(DoneIn(x, H, left, all)) /\ Cardinality(DoneIn(x, H, left, all)) \in Nat
      BY DoneFinite
<1>9. Cardinality(DoneIn(y, H, left, all)) = Cardinality(DoneIn(x, H, left, all)) + 1
      BY <1>7, <1>8, FS_AddElement
<1>. QED BY <1>1, <1>2, <1>7, <1>8, <1>9 DEF Agree

LEMMA DropShared ==
  ASSUME NEW x, NEW y, NEW H, NEW left, NEW all, NEW n, NEW t \in Threads,
         IsFiniteSet(all), Sharing(x, H, left, all, n), Others(x, y, t), "store" \notin H,
         x[t].pc \in H, y[t].pc \notin H, y[t].pc # "store"
  PROVE  /\ Sharing(y, H, left, all, n)
         /\ DoneIn(y, H, left, all) = DoneIn(x, H, left, all) \cup {x[t].k}
         /\ Storing(y) = Storing(x) /\ Agree(x, y, Storing(x))
<1>1. Storing(y) = Storing(x) /\ \A s \in Storing(x) : y[s] = x[s] BY DEF Storing, Others
<1>2. /\ DoneIn(y, H, left, all) = DoneIn(x, H, left, all) \cup {x[t].k}
      /\ x[t].k \notin DoneIn(x, H, left, all)
      /\ Agree(x, y, Holding(y, H)) /\ Holding(y, H) \subseteq Holding(x, H)
      /\ Cardinality(DoneIn(y, H, left, all)) = Cardinality(DoneIn(x, H, left, all)) + 1
      /\ Cardinality(DoneIn(x, H, left, all)) \in Nat
      BY LetGo, Zenon
<1>3. n \in Nat /\ n <= Cardinality(DoneIn(y, H, left, all)) BY <1>2 DEF Sharing
<1>. QED BY <1>1, <1>2, <1>3 DEF Sharing, Agree

LEMMA CountShared ==
  ASSUME NEW x, NEW y, NEW H, NEW left, NEW all, NEW n, NEW t \in Threads,
         IsFiniteSet(all), Sharing(x, H, left, all, n), Others(x, y, t), "store" \notin H,
         x[t].pc \in H, y[t].pc = "store", y[t].k = n + 1
  PROVE  /\ Sharing(y, H, left, all, n + 1) /\ n + 1 <= Cardinality(all)
         /\ DoneIn(y, H, left, all) = DoneIn(x, H, left, all) \cup {x[t].k}
         /\ x[t].k \notin DoneIn(x, H, left, all)
         /\ Storing(y) = Storing(x) \cup {t} /\ Agree(x, y, Storing(x))
<1>1. Storing(y) = Storing(x) \cup {t} /\ \A s \in Storing(x) : y[s] = x[s] /\ s # t
      BY DEF Storing, Others
<1>0. y[t].pc \notin H OBVIOUS
<1>2. /\ DoneIn(y, H, left, all) = DoneIn(x, H, left, all) \cup {x[t].k}
      /\ x[t].k \notin DoneIn(x, H, left, all)
      /\ Agree(x, y, Holding(y, H)) /\ Holding(y, H) \subseteq Holding(x, H)
      /\ Cardinality(DoneIn(y, H, left, all)) = Cardinality(DoneIn(x, H, left, all)) + 1
      /\ Cardinality(DoneIn(x, H, left, all)) \in Nat
      BY <1>0, LetGo, Zenon
<1>3. n \in Nat /\ n + 1 \in Nat /\ n + 1 <= Cardinality(DoneIn(y, H, left, all))
      BY <1>2 DEF Sharing
<1>4. \A s \in Storing(y) : y[s].k \in 1..n + 1 BY <1>1, <1>3 DEF Sharing
<1>5. \A s, r \in Storing(y) : y[s].k = y[r].k => s = r
  <2>1. \A s \in Storing(x) : y[s].k # n + 1 BY <1>1, <1>3 DEF Sharing
  <2>. QED BY <1>1, <2>1 DEF Sharing
<1>6. Cardinality(DoneIn(y, H, left, all)) <= Cardinality(all)
  <2>1. DoneIn(y, H, left, all) \subseteq all BY DEF DoneIn
  <2>. QED BY <2>1, FS_Subset
<1>7. n + 1 <= Cardinality(all) BY <1>3, <1>6, DoneFinite, FS_CardinalityType
<1>. QED BY <1>1, <1>2, <1>3, <1>4, <1>5, <1>7 DEF Sharing, Agree

(* It has filled its place.                                                *)
LEMMA StoreShared ==
  ASSUME NEW x, NEW y, NEW H, NEW left, NEW all, NEW n, NEW t \in Threads,
         IsFiniteSet(all), Sharing(x, H, left, all, n), Others(x, y, t), "store" \notin H,
         x[t].pc = "store", y[t].pc \notin H, y[t].pc # "store"
  PROVE  /\ Sharing(y, H, left, all, n)
         /\ DoneIn(y, H, left, all) = DoneIn(x, H, left, all)
         /\ Storing(y) = Storing(x) \ {t} /\ Agree(x, y, Storing(y))
<1>1. Holding(y, H) = Holding(x, H) BY DEF Holding, Others
<1>2. \A s \in Holding(x, H) : y[s].k = x[s].k BY DEF Holding, Others
<1>3. Storing(y) = Storing(x) \ {t} /\ \A s \in Storing(y) : y[s] = x[s]
      BY DEF Storing, Others
<1>4. {y[s].k : s \in Holding(y, H)} = {x[s].k : s \in Holding(x, H)} BY <1>1, <1>2
<1>5. DoneIn(y, H, left, all) = DoneIn(x, H, left, all) BY <1>4 DEF DoneIn
<1>. QED BY <1>1, <1>2, <1>3, <1>5 DEF Sharing, Agree

------------------------------------------------------------------------------
(* The arrays of changes.                                                  *)

LEMMA AccountedKept ==
  ASSUME NEW x, NEW y, NEW D, NEW g, NEW h, NEW n, NEW array,
         Storing(y) = Storing(x), Agree(x, y, Storing(x)),
         \A k \in D : h[k] = g[k], Accounted(x, D, g, n, array)
  PROVE  Accounted(y, D, h, n, array)
<1>. USE DEF Agree
<1>1. \A w \in 1..n : \/ \E t \in Storing(y) : y[t].k = w
                      \/ \E k \in D : array[w] = h[k]
      BY DEF Accounted
<1>2. \A t \in Storing(y) : \E k \in D : h[k] = <<y[t].u, y[t].v>> BY DEF Accounted
<1>3. ASSUME NEW k \in D
      PROVE  \/ \E t \in Storing(y) : h[k] = <<y[t].u, y[t].v>>
             \/ \E w \in 1..n : array[w] = h[k] /\ \A t \in Storing(y) : y[t].k # w
      BY DEF Accounted
<1>. QED BY <1>1, <1>2, <1>3 DEF Accounted

LEMMA AccountedNone ==
  ASSUME NEW x, NEW g, NEW array, Storing(x) = {}
  PROVE  Accounted(x, {}, g, 0, array)
BY FS_EmptySet DEF Accounted

(* At the end of the loop.                                                 *)
LEMMA AccountedFor ==
  ASSUME NEW x, NEW D, NEW g, NEW n, NEW array, Storing(x) = {}, Accounted(x, D, g, n, array)
  PROVE  n = Cardinality(D) /\ {array[w] : w \in 1..n} = {g[k] : k \in D}
<1>1. \A w \in 1..n : \E k \in D : array[w] = g[k] BY DEF Accounted
<1>2. \A k \in D : \E w \in 1..n : array[w] = g[k] BY DEF Accounted
<1>. QED BY <1>1, <1>2 DEF Accounted

LEMMA AccountedCount ==
  ASSUME NEW x, NEW y, NEW D, NEW g, NEW n \in Nat, NEW array, NEW t, NEW k,
         Accounted(x, D, g, n, array), IsFiniteSet(D), k \notin D,
         Storing(y) = Storing(x) \cup {t}, Agree(x, y, Storing(x)),
         \A s \in Storing(x) : x[s].k \in 1..n,
         y[t].k = n + 1, g[k] = <<y[t].u, y[t].v>>
  PROVE  Accounted(y, D \cup {k}, g, n + 1, array)
<1>. USE DEF Agree
<1>. DEFINE E == D \cup {k}
<1>1. n + 1 = Cardinality(E) BY FS_AddElement DEF Accounted
<1>2. ASSUME NEW w \in 1..n + 1
      PROVE  \/ \E s \in Storing(y) : y[s].k = w
             \/ \E l \in E : array[w] = g[l]
  <2>1. CASE w = n + 1 BY <2>1
  <2>2. CASE w \in 1..n BY <2>2 DEF Accounted
  <2>. QED BY <2>1, <2>2
<1>3. ASSUME NEW s \in Storing(y)
      PROVE  \E l \in E : g[l] = <<y[s].u, y[s].v>>
  <2>1. CASE s = t BY <2>1
  <2>2. CASE s \in Storing(x)
    <3>1. PICK l \in D : g[l] = <<x[s].u, x[s].v>> BY <2>2 DEF Accounted
    <3>. QED BY <2>2, <3>1
  <2>. QED BY <2>1, <2>2
<1>4. ASSUME NEW l \in E
      PROVE  \/ \E s \in Storing(y) : g[l] = <<y[s].u, y[s].v>>
             \/ \E w \in 1..n + 1 : array[w] = g[l] /\ \A s \in Storing(y) : y[s].k # w
  <2>1. CASE l = k BY <2>1
  <2>2. CASE l \in D
    <3>1. CASE \E s \in Storing(x) : g[l] = <<x[s].u, x[s].v>> BY <3>1
    <3>2. CASE \E w \in 1..n : array[w] = g[l] /\ \A s \in Storing(x) : x[s].k # w
      <4>1. PICK w \in 1..n : array[w] = g[l] /\ \A s \in Storing(x) : x[s].k # w BY <3>2
      <4>2. w \in 1..n + 1 /\ w # n + 1 OBVIOUS
      <4>3. \A s \in Storing(y) : y[s].k # w BY <4>1, <4>2
      <4>. QED BY <4>1, <4>2, <4>3
    <3>. QED BY <2>2, <3>1, <3>2 DEF Accounted
  <2>. QED BY <2>1, <2>2
<1>. QED BY <1>1, <1>2, <1>3, <1>4 DEF Accounted

LEMMA AccountedStore ==
  ASSUME NEW x, NEW y, NEW D, NEW g, NEW n \in Nat, NEW S, NEW a \in Seq(S), n <= Len(a),
         NEW t \in Storing(x), Accounted(x, D, g, n, a),
         Storing(y) = Storing(x) \ {t}, Agree(x, y, Storing(y)),
         \A s \in Storing(x) : x[s].k \in 1..n,
         \A r, s \in Storing(x) : x[r].k = x[s].k => r = s
  PROVE  Accounted(y, D, g, n, [a EXCEPT ![x[t].k] = <<x[t].u, x[t].v>>])
<1>. USE DEF Agree
<1>. DEFINE b == [a EXCEPT ![x[t].k] = <<x[t].u, x[t].v>>]
<1>0. DOMAIN a = 1..Len(a) /\ Len(a) \in Nat OBVIOUS
<1>1. /\ x[t].k \in 1..n /\ b[x[t].k] = <<x[t].u, x[t].v>>
      /\ \A w \in 1..n : w # x[t].k => b[w] = a[w]
      BY <1>0
<1>. HIDE DEF b
<1>2. n = Cardinality(D) BY DEF Accounted
<1>3. ASSUME NEW w \in 1..n
      PROVE  \/ \E s \in Storing(y) : y[s].k = w
             \/ \E k \in D : b[w] = g[k]
  <2>1. CASE w = x[t].k
    <3>1. PICK k \in D : g[k] = <<x[t].u, x[t].v>> BY DEF Accounted
    <3>. QED BY <1>1, <2>1, <3>1
  <2>2. CASE w # x[t].k
    <3>1. b[w] = a[w] BY <1>1, <2>2
    <3>2. \/ \E s \in Storing(x) : x[s].k = w
          \/ \E k \in D : a[w] = g[k]
          BY DEF Accounted
    <3>3. CASE \E s \in Storing(x) : x[s].k = w
      <4>1. PICK s \in Storing(x) : x[s].k = w BY <3>3
      <4>2. s \in Storing(y) /\ y[s].k = w BY <2>2, <4>1
      <4>. QED BY <4>2
    <3>. QED BY <3>1, <3>2, <3>3
  <2>. QED BY <2>1, <2>2
<1>4. ASSUME NEW s \in Storing(y) PROVE \E k \in D : g[k] = <<y[s].u, y[s].v>>
  <2>1. s \in Storing(x) /\ y[s] = x[s] OBVIOUS
  <2>2. PICK k \in D : g[k] = <<x[s].u, x[s].v>> BY <2>1 DEF Accounted
  <2>. QED BY <2>1, <2>2
<1>5. ASSUME NEW k \in D
      PROVE  \/ \E s \in Storing(y) : g[k] = <<y[s].u, y[s].v>>
             \/ \E w \in 1..n : b[w] = g[k] /\ \A s \in Storing(y) : y[s].k # w
  <2>1. \A s \in Storing(y) : y[s].k # x[t].k BY DEF Accounted
  <2>2. CASE g[k] = <<x[t].u, x[t].v>> BY <1>1, <2>1, <2>2
  <2>3. CASE \E s \in Storing(x) \ {t} : g[k] = <<x[s].u, x[s].v>> BY <2>3
  <2>4. CASE \E w \in 1..n : a[w] = g[k] /\ \A s \in Storing(x) : x[s].k # w
    <3>1. PICK w \in 1..n : a[w] = g[k] /\ \A s \in Storing(x) : x[s].k # w BY <2>4
    <3>2. b[w] = g[k] /\ \A s \in Storing(y) : y[s].k # w BY <1>1, <3>1
    <3>. QED BY <3>2
  <2>. QED BY <2>2, <2>3, <2>4 DEF Accounted
<1>6. Accounted(y, D, g, n, b) BY <1>2, <1>3, <1>4, <1>5 DEF Accounted
<1>. QED BY <1>6 DEF b

(* The edges touched.                                                      *)

LEMMA TouchedKept ==
  ASSUME NEW D, NEW g, NEW h, \A k \in D : h[k] = g[k]
  PROVE  Touched(D, h) = Touched(D, g)
BY DEF Touched

LEMMA TouchingKept ==
  ASSUME NEW x, NEW y, NEW t \in Threads, Others(x, y, t),
         x[t].pc \notin {"back", "count"}, y[t].pc \notin {"back", "count"}
  PROVE  Touching(y) = Touching(x)
BY DEF Touching, Others

LEMMA TouchForward ==
  ASSUME NEW x, NEW y, NEW t \in Threads, Others(x, y, t),
         x[t].pc = "forward", y[t].pc = "back", y[t].u = x[t].u, y[t].v = x[t].v,
         <<x[t].u, x[t].v>> \in Edge
  PROVE  Touching(y) = Touching(x) \cup {<<x[t].u, x[t].v>>}
<1>1. ASSUME NEW e \in Edge, e \in Touching(y)
      PROVE  e \in Touching(x) \/ e = <<x[t].u, x[t].v>>
      BY <1>1 DEF Touching, Others
<1>2. ASSUME NEW e \in Edge, e \in Touching(x)
      PROVE  e \in Touching(y)
      BY <1>2 DEF Touching, Others
<1>3. <<x[t].u, x[t].v>> \in Touching(y) BY DEF Touching
<1>4. Touching(x) \subseteq Edge /\ Touching(y) \subseteq Edge BY DEF Touching
<1>. QED BY <1>1, <1>2, <1>3, <1>4

LEMMA TouchBack ==
  ASSUME NEW x, NEW y, NEW t \in Threads, Others(x, y, t),
         x[t].pc = "back", y[t].pc = "count", y[t].u = x[t].u, y[t].v = x[t].v,
         <<x[t].v, x[t].u>> \in Edge
  PROVE  Touching(y) = Touching(x) \cup {<<x[t].v, x[t].u>>}
<1>1. ASSUME NEW e \in Edge, e \in Touching(y)
      PROVE  e \in Touching(x) \/ e = <<x[t].v, x[t].u>>
      BY <1>1 DEF Touching, Others
<1>2. ASSUME NEW e \in Edge, e \in Touching(x)
      PROVE  e \in Touching(y)
      BY <1>2 DEF Touching, Others
<1>3. <<x[t].v, x[t].u>> \in Touching(y) BY DEF Touching
<1>4. Touching(x) \subseteq Edge /\ Touching(y) \subseteq Edge BY DEF Touching
<1>. QED BY <1>1, <1>2, <1>3, <1>4

(* What a thread has touched is its iteration's when it is done.           *)
LEMMA TouchCount ==
  ASSUME NEW x, NEW y, NEW t \in Threads, NEW D, NEW g, NEW k, Others(x, y, t),
         x[t].pc = "count", y[t].pc \notin {"back", "count"}, g[k] = <<x[t].u, x[t].v>>
  PROVE  Touched(D \cup {k}, g) \cup Touching(y) = Touched(D, g) \cup Touching(x)
<1>. DEFINE p == <<x[t].u, x[t].v>>
            q == <<x[t].v, x[t].u>>
<1>1. \A e \in Edge : e \in Touched(D \cup {k}, g) <=> e \in Touched(D, g) \/ e = p \/ e = q
      BY DEF Touched
<1>2. \A e \in Edge : e \in Touching(x) <=> e \in Touching(y) \/ e = p \/ e = q
  <2>1. ASSUME NEW e \in Edge, e \in Touching(x)
        PROVE  e \in Touching(y) \/ e = p \/ e = q
    <3>1. PICK s \in Threads : \/ x[s].pc \in {"back", "count"} /\ e = <<x[s].u, x[s].v>>
                               \/ x[s].pc = "count" /\ e = <<x[s].v, x[s].u>>
          BY <2>1 DEF Touching
    <3>2. CASE s = t BY <3>1, <3>2
    <3>3. CASE s # t BY <3>1, <3>3 DEF Touching, Others
    <3>. QED BY <3>2, <3>3
  <2>2. ASSUME NEW e \in Edge, e \in Touching(y)
        PROVE  e \in Touching(x)
        BY <2>2 DEF Touching, Others
  <2>3. ASSUME NEW e \in Edge, e = p \/ e = q
        PROVE  e \in Touching(x)
        BY <2>3 DEF Touching
  <2>. QED BY <2>1, <2>2, <2>3
<1>3. /\ Touching(x) \subseteq Edge /\ Touching(y) \subseteq Edge /\ Touched(D, g) \subseteq Edge
      /\ Touched(D \cup {k}, g) \subseteq Edge
      BY DEF Touching, Touched
<1>. HIDE DEF p, q
<1>. QED BY <1>1, <1>2, <1>3

LEMMA ProperSum ==
  ASSUME NEW S, NEW T
  PROVE  Proper(S \cup T) = Proper(S) \cup Proper(T)
BY DEF Proper

------------------------------------------------------------------------------
(* What a step of a worker leaves as it was.                               *)

LEMMA SameBatch == UNCHANGED <<session, conn, cur>> => Batch' = Batch
<1>. SUFFICES ASSUME session' = session, conn' = conn, cur' = cur PROVE Batch' = Batch OBVIOUS
<1>. QED BY Zenon DEF Batch, Here

LEMMA MoveThreaded ==
  ASSUME Threaded, pc' = pc, pc \in {"insert", "delete", "stamps"}, NEW t \in Threads,
         NEW l \in Locals, th' = [th EXCEPT ![t] = l], l.pc \in Stages,
         l.pc \in {"forward", "back", "count", "store"} => l.u \in 0..LV - 1 /\ l.v \in 0..LV - 1,
         l.pc = "destination" => l.u \in Nat,
         graph' \subseteq Edge, before' = before, dropped' \in BOOLEAN
  PROVE  Threaded' /\ th'[t] = l /\ Others(th, th', t)
<1>1. /\ th \in [Threads -> Locals] /\ before \subseteq Edge
      /\ \A s \in Threads : th[s].pc \in Stages
      /\ \A s \in Threads : th[s].pc \in {"forward", "back", "count", "store"} =>
           th[s].u \in 0..LV - 1 /\ th[s].v \in 0..LV - 1
      /\ \A s \in Threads : th[s].pc = "destination" => th[s].u \in Nat
      BY Zenon DEF Threaded
<1>. HIDE DEF Locals
<1>2. th' \in [Threads -> Locals] /\ th'[t] = l /\ \A s \in Threads \ {t} : th'[s] = th[s]
      BY <1>1
<1>3. Stages' = Stages BY Zenon DEF Stages
<1>4. \A s \in Threads : th'[s].pc \in Stages' BY <1>1, <1>2, <1>3
<1>5. \A s \in Threads : th'[s].pc \in {"forward", "back", "count", "store"} =>
        th'[s].u \in 0..LV - 1 /\ th'[s].v \in 0..LV - 1
      BY <1>1, <1>2
<1>6. pc' \in {"insert", "delete", "stamps"} /\ before' \subseteq Edge BY <1>1
<1>7. \A s \in Threads : th'[s].pc = "destination" => th'[s].u \in Nat BY <1>1, <1>2
<1>8. Threaded' BY <1>2, <1>4, <1>5, <1>6, <1>7, Zenon DEF Threaded
<1>. QED BY <1>2, <1>8, Zenon DEF Others

LEMMA KeepCovered ==
  ASSUME Covered, pc' = pc, pc \in {"insert", "delete"}, Batch' = Batch,
         pc = "insert" => todo' = todo, UNCHANGED stamps, NEW t \in Threads, Others(th, th', t),
         th'[t].mn = th[t].mn, th'[t].mx = th[t].mx, th'[t].pc # "merged"
  PROVE  Covered'
<1>1. Seen' = Seen BY DEF Seen
<1>2. Dates' = Dates BY <1>1 DEF Dates
<1>3. pc \in InBatch BY DEF InBatch
<1>4. mints' = mints /\ maxts' = maxts BY DEF stamps
<1>5. /\ mints \in {MaxTime} \cup Dates /\ maxts \in {0} \cup Dates
      /\ \A s \in Threads : th[s].mn \in {MaxTime} \cup Dates /\ th[s].mx \in {0} \cup Dates
      /\ \A x \in Dates : \/ Covers(mints, maxts, x)
                          \/ \E s \in Threads : /\ th[s].pc # "merged" /\ pc # "finish"
                                                /\ Covers(th[s].mn, th[s].mx, x)
      BY <1>3 DEF Covered
<1>6. \A s \in Threads : th'[s].mn = th[s].mn /\ th'[s].mx = th[s].mx BY DEF Others
<1>7. \A s \in Threads : th[s].pc # "merged" => th'[s].pc # "merged" BY DEF Others
<1>8. ASSUME NEW x \in Dates
      PROVE  \/ Covers(mints', maxts', x)
             \/ \E s \in Threads : /\ th'[s].pc # "merged" /\ pc' # "finish"
                                   /\ Covers(th'[s].mn, th'[s].mx, x)
      BY <1>4, <1>5, <1>6, <1>7
<1>. QED BY <1>2, <1>4, <1>5, <1>6, <1>8 DEF Covered

LEMMA SameChanges ==
  ASSUME vertex' = vertex, Batch' = Batch
  PROVE  Inserts' = Inserts /\ Deletes' = Deletes
<1>1. \A e, d : Decoded(e, d)' = Decoded(e, d) BY Zenon DEF Decoded
<1>2. \A x : /\ Source(x)' = Source(x) /\ Destination(x)' = Destination(x)
             /\ DestinationOf(x)' = DestinationOf(x)
      BY <1>1, Zenon DEF Source, Destination, DestinationOf
<1>3. \A e : Found(e)' = Found(e) BY Zenon DEF Found, MapLookup
<1>. QED BY <1>2, <1>3, Zenon DEF Inserts, Deletes

(* What is known of an iteration stays so while strings are mapped.        *)
LEMMA GrowingChanges ==
  ASSUME Work, pc = "insert", Batch' = Batch,
         \A m \in Names : vertex[m] # -1 => vertex'[m] = vertex[m]
  PROVE  /\ DOMAIN Inserts = 1..Len(Batch.ins) /\ DOMAIN Inserts' = 1..Len(Batch.ins)
         /\ \A k \in 1..Len(Batch.ins) :
              /\ Inserts[k] = <<Inserts[k][1], Inserts[k][2]>>
              /\ Inserts'[k] = <<Inserts'[k][1], Inserts'[k][2]>>
              /\ Inserts'[k] = <<VertexOf(Source(Batch.ins[k]), vertex'),
                                VertexOf(DestinationOf(Batch.ins[k]), vertex')>>
              /\ Source(Batch.ins[k]) \in Endpoints /\ DestinationOf(Batch.ins[k]) \in Endpoints
              /\ Inserts[k][1] # -1 => Inserts'[k][1] = Inserts[k][1]
              /\ Inserts[k][2] # -1 => Inserts'[k][2] = Inserts[k][2]
<1>1. pc \in {"body"} \cup InBatch BY DEF InBatch
<1>2. \A k \in 1..Len(Batch.ins) : /\ Source(Batch.ins[k]) \in Endpoints
                                   /\ DestinationOf(Batch.ins[k]) \in Endpoints
      BY <1>1, Current, Decoding DEF Work
<1>. DEFINE F(e) == VertexOf(e, vertex)
            G(e) == VertexOf(e, vertex')
<1>3. \A k \in 1..Len(Batch.ins) :
        Inserts[k] = <<F(Source(Batch.ins[k])), F(DestinationOf(Batch.ins[k]))>>
      BY DEF Inserts, Found, MapLookup, VertexOf
<1>4. \A k \in 1..Len(Batch.ins) :
        Inserts'[k] = <<G(Source(Batch.ins[k])), G(DestinationOf(Batch.ins[k]))>>
      BY DEF Inserts, Found, MapLookup, Source, Decoded, Destination, DestinationOf, VertexOf
<1>5. \A e \in Endpoints : F(e) # -1 => G(e) = F(e) BY Limits DEF VertexOf
<1>6. DOMAIN Inserts = 1..Len(Batch.ins) /\ DOMAIN Inserts' = 1..Len(Batch.ins) BY DEF Inserts
<1>. QED BY <1>2, <1>3, <1>4, <1>5, <1>6

------------------------------------------------------------------------------
(* The loop over insertions.                                               *)

LEMMA InsertLoop ==
  ASSUME Work, pc = "insert", pc' = pc, Batch' = Batch, todo' \subseteq todo
  PROVE  /\ Sharing(th, Inserting, todo, DOMAIN Batch.ins, nincr) /\ nrem = 0
         /\ Len(incr) = Len(Batch.ins) /\ Len(rem) = Len(Batch.del)
         /\ incr \in Seq(Entry) /\ rem \in Seq(Entry) /\ nincr \in Nat /\ nincr <= Len(incr)
         /\ Len(incr) \in Nat /\ Len(rem) \in Nat /\ Len(Batch.ins) \in Nat
         /\ DOMAIN Batch.ins = 1..Len(Batch.ins) /\ IsFiniteSet(DOMAIN Batch.ins)
         /\ Cardinality(DOMAIN Batch.ins) = Len(Batch.ins)
         /\ pc \in InBatch /\ pc' \in InBatch
         /\ "store" \notin Inserting /\ "idle" \notin Inserting
         /\ \A s \in Threads : th[s] \in Locals
         /\ \A s \in Threads : th[s].pc \in Stages
         /\ graph \subseteq Edge /\ dropped \in BOOLEAN /\ Numbered
<1>1. pc \in InBatch BY DEF InBatch
<1>2. "store" \notin Inserting /\ "idle" \notin Inserting BY DEF Inserting
<1>3. Len(Batch.ins) \in Nat /\ DOMAIN Batch.ins = 1..Len(Batch.ins)
      BY <1>1, Current DEF Work
<1>6. IsFiniteSet(DOMAIN Batch.ins) /\ Cardinality(DOMAIN Batch.ins) = Len(Batch.ins)
      BY <1>3, FS_Interval
<1>4. incr \in Seq(Entry) /\ rem \in Seq(Entry) /\ nincr \in 0..Len(incr)
      BY Zenon DEF Work, Shared
<1>5. Len(incr) \in Nat /\ Len(rem) \in Nat BY <1>4
<1>. QED BY <1>1, <1>2, <1>3, <1>4, <1>5, <1>6 DEF Work, Shared, Threaded

(* From what a step does to the loop, to the arrays and to the graph.      *)
LEMMA InsertDone ==
  ASSUME Work, pc = "insert", pc' = pc, Batch' = Batch, todo' \subseteq todo,
         Sharing(th, Inserting, todo, DOMAIN Batch.ins, nincr)',
         nrem' = nrem, rem' = rem, incr' \in Seq(Entry), Len(incr') = Len(incr),
         nincr' \in 0..Len(incr),
         InsertedSoFar', Numbered', Threaded', Covered', Loopless', UNCHANGED <<conn, session, cur>>
  PROVE  Numbered' /\ Threaded' /\ Shared' /\ Covered' /\ Outcome'
<1>1. pc' = "insert" /\ pc' \notin {"delete", "stamps", "finish"} OBVIOUS
<1>2. Outcome' BY <1>1, Zenon DEF Outcome, Inserted, DeletedSoFar, Deleted
<1>3. /\ nrem = 0 /\ Len(incr) = Len(Batch.ins) /\ Len(rem) = Len(Batch.del)
      /\ rem \in Seq(Entry) /\ Len(rem) \in Nat
      BY InsertLoop
<1>4. nrem' \in 0..Len(rem') /\ nincr' \in 0..Len(incr') BY <1>3
<1>5. pc' # "delete" /\ pc' \in {"insert", "delete"} OBVIOUS
<1>6. Shared' BY <1>1, <1>3, <1>4, <1>5, Zenon DEF Shared
<1>. QED BY <1>2, <1>6

Taken(z, k, ts) ==
  [[z EXCEPT !.pc = "source"] EXCEPT !.k = k, !.mx = IF ts > @ THEN ts ELSE @,
                                     !.mn = IF ts < @ THEN ts ELSE @]
LEMMA TakenLocals ==
  ASSUME NEW z \in Locals, NEW k \in Nat, NEW ts \in Nat
  PROVE  /\ Taken(z, k, ts) \in Locals /\ Taken(z, k, ts).pc = "source" /\ Taken(z, k, ts).k = k
         /\ Taken(z, k, ts).mx = (IF ts > z.mx THEN ts ELSE z.mx)
         /\ Taken(z, k, ts).mn = (IF ts < z.mn THEN ts ELSE z.mn)
         /\ z.mx \in Nat /\ z.mn \in Nat
BY DEF Locals, Taken

LEMMA DoTakeInsertion ==
  ASSUME Work, NEW t \in Threads, TakeInsertion(t), pc' = pc, Batch' = Batch,
         UNCHANGED <<session, conn, cur>>
  PROVE  Numbered' /\ Threaded' /\ Shared' /\ Covered' /\ Outcome'
<1>1. /\ pc = "insert" /\ th[t].pc = "idle" /\ vertex' = vertex /\ graph' = graph
      /\ next_type' = next_type
      /\ nincr' = nincr /\ incr' = incr /\ nrem' = nrem /\ rem' = rem
      /\ mints' = mints /\ maxts' = maxts /\ dropped' = dropped /\ before' = before
      BY Zenon DEF TakeInsertion, Runs, store, accum, stamps
<1>2. PICK k \in todo : /\ todo' = todo \ {k}
                       /\ th' = [th EXCEPT ![t] = Taken(th[t], k, Batch.ins[k].time)]
      BY DEF TakeInsertion, Move, At, Taken
<1>. DEFINE ts == Batch.ins[k].time
            l == Taken(th[t], k, ts)
            N == DOMAIN Batch.ins
<1>3. todo' \subseteq todo BY <1>2
<1>4. /\ Sharing(th, Inserting, todo, N, nincr) /\ nrem = 0
      /\ incr \in Seq(Entry) /\ nincr \in Nat /\ nincr <= Len(incr) /\ Len(incr) \in Nat
      /\ N = 1..Len(Batch.ins) /\ IsFiniteSet(N)
      /\ "store" \notin Inserting /\ "idle" \notin Inserting
      /\ th[t] \in Locals /\ graph \subseteq Edge /\ dropped \in BOOLEAN /\ Numbered
      BY <1>1, <1>3, InsertLoop
<1>5. k \in N BY <1>4 DEF Sharing
<1>6. ts \in 0..MaxTime BY <1>1, <1>5, Current DEF Work, InBatch
<1>7. MaxTime \in Nat BY Limits
<1>8. /\ l \in Locals /\ l.pc = "source" /\ l.k = k
      /\ l.mx = (IF ts > th[t].mx THEN ts ELSE th[t].mx)
      /\ l.mn = (IF ts < th[t].mn THEN ts ELSE th[t].mn)
      /\ th[t].mx \in Nat /\ th[t].mn \in Nat
  <2>. HIDE DEF ts
  <2>1. k \in Nat /\ ts \in Nat BY <1>4, <1>5, <1>6, <1>7
  <2>2. th[t] \in Locals BY <1>4
  <2>. HIDE DEF ts, Locals
  <2>. QED BY <2>1, <2>2, TakenLocals
<1>9. th' = [th EXCEPT ![t] = l] BY <1>2
<1>. HIDE DEF l, ts
<1>10. l.pc \in Stages BY <1>1, <1>8 DEF Stages
<1>11. Threaded' /\ th'[t] = l /\ Others(th, th', t)
  <2>1. l.pc \notin {"forward", "back", "count", "store", "destination"} BY <1>8
  <2>2. pc \in {"insert", "delete", "stamps"} BY <1>1
  <2>3. Threaded BY DEF Work
  <2>. QED BY <1>1, <1>4, <1>8, <1>9, <1>10, <2>1, <2>2, <2>3, MoveThreaded
<1>12. /\ Sharing(th', Inserting, todo \ {k}, N, nincr)
       /\ DoneIn(th', Inserting, todo \ {k}, N) = DoneIn(th, Inserting, todo, N)
       /\ Storing(th') = Storing(th) /\ Agree(th, th', Storing(th))
  <2>1. th[t].pc \notin Inserting /\ th[t].pc # "store" BY <1>1, <1>4
  <2>2. th'[t].pc \in Inserting /\ th'[t].k = k BY <1>8, <1>11 DEF Inserting
  <2>3. Sharing(th, Inserting, todo, N, nincr) /\ Others(th, th', t) /\ "store" \notin Inserting
        /\ IsFiniteSet(N) BY <1>4, <1>11
  <2>. HIDE DEF N
  <2>. QED BY <2>1, <2>2, <2>3, TakeShared
<1>13. Sharing(th, Inserting, todo, DOMAIN Batch.ins, nincr)' BY <1>1, <1>2, <1>12
<1>14. Added' = Added BY <1>2, <1>12 DEF Added
<1>15. Inserts' = Inserts BY <1>1, SameChanges
<1>16. InsertedSoFar'
  <2>. SUFFICES
              /\ \A j \in Added' : Inserts'[j][1] # -1 /\ Inserts'[j][2] # -1
              /\ \A s \in Threads :
                   /\ th'[s].pc \in {"destination", "forward", "back", "count"} =>
                        th'[s].u = Inserts'[th'[s].k][1] /\ th'[s].u # -1
                   /\ th'[s].pc \in {"forward", "back", "count"} =>
                        th'[s].v = Inserts'[th'[s].k][2]
              /\ Accounted(th, Added \cap Within(Inserts), Inserts, nincr, incr)'
              /\ graph' = before' \cup
                   Proper(Touched(Added' \cap Within(Inserts'), Inserts') \cup Touching(th'))
       BY Zenon DEF InsertedSoFar
  <2>. DEFINE D == Added \cap Within(Inserts)
  <2>1. /\ \A j \in Added : Inserts[j][1] # -1 /\ Inserts[j][2] # -1
        /\ \A s \in Threads :
             /\ th[s].pc \in {"destination", "forward", "back", "count"} =>
                  th[s].u = Inserts[th[s].k][1] /\ th[s].u # -1
             /\ th[s].pc \in {"forward", "back", "count"} => th[s].v = Inserts[th[s].k][2]
        /\ Accounted(th, D, Inserts, nincr, incr)
        /\ graph = before \cup Proper(Touched(D, Inserts) \cup Touching(th))
        BY <1>1, Zenon DEF Work, Outcome, InsertedSoFar
  <2>2. Touching(th') = Touching(th)
    <3>1. th[t].pc \notin {"back", "count"} /\ th'[t].pc \notin {"back", "count"}
          BY <1>1, <1>8, <1>11
    <3>. QED BY <1>11, <3>1, TouchingKept
  <2>3. Accounted(th', D, Inserts, nincr, incr) BY <1>12, <2>1, AccountedKept
  <2>4. ASSUME NEW s \in Threads
        PROVE  /\ th'[s].pc \in {"destination", "forward", "back", "count"} =>
                    th'[s].u = Inserts[th'[s].k][1] /\ th'[s].u # -1
               /\ th'[s].pc \in {"forward", "back", "count"} => th'[s].v = Inserts[th'[s].k][2]
        BY <1>8, <1>11, <2>1 DEF Others
  <2>. QED BY <1>1, <1>14, <1>15, <2>1, <2>2, <2>3, <2>4
<1>17. Covered'
  <2>1. Seen' = Seen \cup {k} /\ Seen \subseteq N BY <1>1, <1>2, <1>4, <1>5 DEF Seen
  <2>2. Dates' = Dates \cup {ts} BY <2>1 DEF Dates, ts
  <2>3. \A x \in Dates : x \in Nat
    <3>1. \A j \in N : Batch.ins[j].time \in 0..MaxTime
          BY <1>1, Current DEF Work, InBatch
    <3>. QED BY <1>7, <2>1, <3>1 DEF Dates
  <2>4. /\ mints \in {MaxTime} \cup Dates /\ maxts \in {0} \cup Dates
        /\ \A s \in Threads : th[s].mn \in {MaxTime} \cup Dates /\ th[s].mx \in {0} \cup Dates
        /\ \A x \in Dates : \/ Covers(mints, maxts, x)
                            \/ \E s \in Threads : /\ th[s].pc # "merged" /\ pc # "finish"
                                                  /\ Covers(th[s].mn, th[s].mx, x)
        BY <1>1 DEF Work, Covered, InBatch
  <2>5. \A s \in Threads : th'[s].mn \in {MaxTime} \cup Dates' /\ th'[s].mx \in {0} \cup Dates'
        BY <1>8, <1>11, <2>2, <2>4 DEF Others
  <2>6. \A s \in Threads : th[s].pc # "merged" => th'[s].pc # "merged"
        BY <1>8, <1>11 DEF Others
  <2>7. \A x \in Dates : Covers(th[t].mn, th[t].mx, x) => Covers(th'[t].mn, th'[t].mx, x)
        BY <1>6, <1>7, <1>8, <1>11, <2>3 DEF Covers
  <2>8. Covers(th'[t].mn, th'[t].mx, ts) /\ th'[t].pc # "merged"
        BY <1>6, <1>7, <1>8, <1>11 DEF Covers
  <2>9. ASSUME NEW x \in Dates'
        PROVE  \/ Covers(mints, maxts, x)
               \/ \E s \in Threads : /\ th'[s].pc # "merged" /\ pc' # "finish"
                                     /\ Covers(th'[s].mn, th'[s].mx, x)
    <3>0. pc' # "finish" BY <1>1
    <3>1. CASE x = ts BY <2>8, <3>0, <3>1
    <3>2. CASE x \in Dates
      <4>1. \A s \in Threads : Covers(th[s].mn, th[s].mx, x) => Covers(th'[s].mn, th'[s].mx, x)
            BY <1>11, <2>7, <3>2 DEF Others
      <4>. QED BY <2>4, <2>6, <3>0, <3>2, <4>1
    <3>. QED BY <2>2, <3>1, <3>2
  <2>. QED BY <1>1, <2>2, <2>4, <2>5, <2>9 DEF Covered
<1>18. Numbered' BY <1>1, <1>4 DEF Numbered
<1>19. Loopless' BY <1>1, Zenon DEF Work, Outcome, Loopless
<1>20. incr' \in Seq(Entry) /\ Len(incr') = Len(incr) /\ nincr' \in 0..Len(incr) BY <1>1, <1>4
<1>. QED BY <1>1, <1>3, <1>11, <1>13, <1>16, <1>17, <1>18, <1>19, <1>20, InsertDone

(* A thread that goes on from one label of the loop to the next.           *)
LEMMA InsertMove ==
  ASSUME Work, NEW t \in Threads, pc = "insert", pc' = pc, Batch' = Batch, todo' = todo,
         UNCHANGED <<session, conn, cur, stamps, before, nrem, rem>>, dropped' \in BOOLEAN,
         th[t].pc # "idle", Numbered', graph' \subseteq Edge, NEW l \in Locals,
         th' = [th EXCEPT ![t] = l], l.pc \in Stages, l.mn = th[t].mn, l.mx = th[t].mx,
         l.pc \in {"forward", "back", "count", "store"} => l.u \in 0..LV - 1 /\ l.v \in 0..LV - 1,
         l.pc = "destination" => l.u \in Nat
  PROVE  /\ Threaded' /\ Covered' /\ th'[t] = l /\ Others(th, th', t)
         /\ Sharing(th, Inserting, todo, DOMAIN Batch.ins, nincr)
         /\ IsFiniteSet(DOMAIN Batch.ins) /\ Cardinality(DOMAIN Batch.ins) = Len(incr)
         /\ DOMAIN Batch.ins = 1..Len(Batch.ins)
         /\ "store" \notin Inserting /\ "idle" \notin Inserting
         /\ incr \in Seq(Entry) /\ nincr \in Nat /\ nincr <= Len(incr) /\ Len(incr) \in Nat
         /\ rem' = rem /\ nrem' = nrem /\ before' = before
<1>0. /\ before' = before /\ UNCHANGED stamps /\ rem' = rem /\ nrem' = nrem OBVIOUS
<1>1. todo' \subseteq todo BY Zenon
<1>2. /\ Sharing(th, Inserting, todo, DOMAIN Batch.ins, nincr)
      /\ IsFiniteSet(DOMAIN Batch.ins) /\ Cardinality(DOMAIN Batch.ins) = Len(incr)
      /\ DOMAIN Batch.ins = 1..Len(Batch.ins)
      /\ "store" \notin Inserting /\ "idle" \notin Inserting
      /\ incr \in Seq(Entry) /\ nincr \in Nat /\ nincr <= Len(incr) /\ Len(incr) \in Nat
      BY <1>1, InsertLoop
<1>3. Threaded' /\ th'[t] = l /\ Others(th, th', t)
  <2>. HIDE DEF Locals
  <2>1. pc \in {"insert", "delete", "stamps"} /\ Threaded BY DEF Work
  <2>. QED BY <1>0, <2>1, MoveThreaded
<1>4. Covered'
  <2>1. th'[t].pc # "merged" BY <1>3 DEF Stages
  <2>2. pc \in {"insert", "delete"} /\ Covered BY DEF Work
  <2>. QED BY <1>0, <1>3, <2>1, <2>2, KeepCovered
<1>. QED BY <1>0, <1>2, <1>3, <1>4

(* What the loop has done so far.                                          *)
Course(x, D, g, n, array, base, edges) ==
  /\ \A k \in D : g[k][1] # -1 /\ g[k][2] # -1
  /\ \A s \in Threads :
       /\ x[s].pc \in {"destination", "forward", "back", "count"} =>
            x[s].u = g[x[s].k][1] /\ x[s].u # -1
       /\ x[s].pc \in {"forward", "back", "count"} => x[s].v = g[x[s].k][2]
  /\ Accounted(x, D \cap Within(g), g, n, array)
  /\ edges = base \cup Proper(Touched(D \cap Within(g), g) \cup Touching(x))
CourseNow == Course(th, Added, Inserts, nincr, incr, before, graph)

LEMMA InsertCourse ==
  /\ InsertedSoFar <=> (pc = "insert" => CourseNow)
  /\ Work /\ pc = "insert" => CourseNow
<1>1. InsertedSoFar <=> (pc = "insert" => CourseNow)
      BY Zenon DEF InsertedSoFar, Course, CourseNow
<1>. QED BY <1>1, Zenon DEF Work, Outcome

(* The iterations done are among those there are.                          *)
LEMMA AddedThere == Added \subseteq DOMAIN Batch.ins /\ Removed \subseteq DOMAIN Batch.del
BY DEF Added, Removed, DoneIn

(* It stays so while strings are mapped,                                   *)
LEMMA CourseGrows ==
  ASSUME Work, pc = "insert", Batch' = Batch,
         \A m \in Names : vertex[m] # -1 => vertex'[m] = vertex[m]
  PROVE  Course(th, Added, Inserts', nincr, incr, before, graph)
<1>. DEFINE g == Inserts
            h == Inserts'
            all == DOMAIN Batch.ins
<1>1. Course(th, Added, g, nincr, incr, before, graph) BY InsertCourse DEF CourseNow
<1>2. all = 1..Len(Batch.ins) /\ Sharing(th, Inserting, todo, all, nincr)
  <2>1. pc \in InBatch BY DEF InBatch
  <2>. QED BY <2>1, Current DEF Work, Shared
<1>3. /\ DOMAIN g = all /\ DOMAIN h = all
      /\ \A k \in all : /\ g[k] = <<g[k][1], g[k][2]>> /\ h[k] = <<h[k][1], h[k][2]>>
                        /\ g[k][1] # -1 => h[k][1] = g[k][1]
                        /\ g[k][2] # -1 => h[k][2] = g[k][2]
      BY <1>2, GrowingChanges
<1>. HIDE DEF g, h
<1>4. \A k \in Added : h[k] = g[k] BY <1>1, <1>3, AddedThere DEF Course
<1>5. \A s \in Threads : th[s].pc \in Inserting => th[s].k \in all
      BY <1>2 DEF Sharing, Holding
<1>6. \A s \in Threads :
        th[s].pc \in {"forward", "back", "count"} => th[s].v \in 0..LV - 1
      BY DEF Work, Threaded
<1>7. ASSUME NEW s \in Threads, th[s].pc \in {"destination", "forward", "back", "count"}
      PROVE  th[s].u = h[th[s].k][1] /\ th[s].u # -1
  <2>1. th[s].k \in all BY <1>5, <1>7 DEF Inserting
  <2>. QED BY <1>1, <1>3, <1>7, <2>1 DEF Course
<1>8. ASSUME NEW s \in Threads, th[s].pc \in {"forward", "back", "count"}
      PROVE  th[s].v = h[th[s].k][2]
  <2>1. th[s].k \in all BY <1>5, <1>8 DEF Inserting
  <2>2. th[s].v = g[th[s].k][2] BY <1>1, <1>8 DEF Course
  <2>3. th[s].v # -1 BY <1>6, <1>8, Limits
  <2>. QED BY <1>3, <2>1, <2>2, <2>3
<1>9. Added \cap Within(h) = Added \cap Within(g) BY <1>3, <1>4, AddedThere DEF Within
<1>. DEFINE D == Added \cap Within(g)
<1>10. \A k \in D : h[k] = g[k] BY <1>4
<1>11. Accounted(th, D, g, nincr, incr) BY <1>1 DEF Course
<1>. HIDE DEF D
<1>12. Accounted(th, D, h, nincr, incr)
  <2>1. Agree(th, th, Storing(th)) BY DEF Agree
  <2>. QED BY <1>10, <1>11, <2>1, AccountedKept
<1>13. Touched(D, h) = Touched(D, g) BY <1>10, TouchedKept
<1>14. graph = before \cup Proper(Touched(D, h) \cup Touching(th)) BY <1>1, <1>13 DEF Course, D
<1>. QED BY <1>1, <1>4, <1>7, <1>8, <1>9, <1>12, <1>14 DEF Course, D, h

(* and when a thread goes on that has counted nothing.                     *)
LEMMA CourseMove ==
  ASSUME NEW x, NEW y, NEW D, NEW g, NEW n, NEW array, NEW base, NEW e1, NEW e2,
         NEW t \in Threads,
         Course(x, D, g, n, array, base, e1), Others(x, y, t),
         Storing(y) = Storing(x), Agree(x, y, Storing(x)),
         y[t].pc \in {"destination", "forward", "back", "count"} =>
           y[t].u = g[y[t].k][1] /\ y[t].u # -1,
         y[t].pc \in {"forward", "back", "count"} => y[t].v = g[y[t].k][2],
         e2 = base \cup Proper(Touched(D \cap Within(g), g) \cup Touching(y))
  PROVE  Course(y, D, g, n, array, base, e2)
<1>1. ASSUME NEW s \in Threads
      PROVE  /\ y[s].pc \in {"destination", "forward", "back", "count"} =>
                  y[s].u = g[y[s].k][1] /\ y[s].u # -1
             /\ y[s].pc \in {"forward", "back", "count"} => y[s].v = g[y[s].k][2]
      BY DEF Course, Others
<1>2. Accounted(y, D \cap Within(g), g, n, array) BY AccountedKept DEF Course
<1>. QED BY <1>1, <1>2 DEF Course

(* An iteration that changes nothing.                                      *)
LEMMA CourseWiden ==
  ASSUME NEW x, NEW D, NEW k, NEW g, NEW n, NEW array, NEW base, NEW edges,
         Course(x, D, g, n, array, base, edges), g[k][1] # -1, g[k][2] # -1, g[k] \notin Edge
  PROVE  Course(x, D \cup {k}, g, n, array, base, edges)
<1>1. (D \cup {k}) \cap Within(g) = D \cap Within(g) BY DEF Within
<1>. QED BY <1>1 DEF Course

LEMMA InsertCourseNext ==
  InsertedSoFar' <=> (pc' = "insert" => CourseNow')
BY Zenon DEF InsertedSoFar, Course, CourseNow

LEMMA DoInsertSource ==
  ASSUME Work, NEW t \in Threads, InsertSource(t), pc' = pc, Batch' = Batch,
         UNCHANGED <<session, conn, cur>>
  PROVE  Numbered' /\ Threaded' /\ Shared' /\ Covered' /\ Outcome'
<1>1. /\ pc = "insert" /\ th[t].pc = "source" /\ graph' = graph /\ todo' = todo
      /\ nincr' = nincr /\ incr' = incr /\ nrem' = nrem /\ rem' = rem
      /\ UNCHANGED stamps /\ dropped' = dropped /\ before' = before
      BY Zenon DEF InsertSource, Runs, Main, accum
<1>. DEFINE k == th[t].k
            u == VertexOf(Source(Batch.ins[k]), vertex')
            l == [At(t, "destination") EXCEPT !.u = u]
            all == DOMAIN Batch.ins
<1>2. /\ Resolve(Source(Batch.ins[k]))
      /\ th' = [th EXCEPT ![t] = [At(t, "destination") EXCEPT !.u = u]]
      BY DEF InsertSource, Move
<1>3. /\ th[t] \in Locals /\ graph \subseteq Edge /\ dropped \in BOOLEAN /\ Numbered
      /\ all = 1..Len(Batch.ins) /\ Sharing(th, Inserting, todo, all, nincr)
      /\ todo' \subseteq todo
      BY <1>1, InsertLoop
<1>4. k \in all
  <2>1. t \in Holding(th, Inserting) BY <1>1 DEF Holding, Inserting
  <2>. QED BY <1>3, <2>1 DEF Sharing
<1>5. Source(Batch.ins[k]) \in Endpoints
      BY <1>1, <1>3, <1>4, Current, Decoding DEF Work, InBatch
<1>6. /\ Numbered' /\ u \in Nat /\ u # -1
      /\ \A m \in Names : vertex[m] # -1 => vertex'[m] = vertex[m]
      BY <1>2, <1>3, <1>5, Resolving
<1>7. /\ l \in Locals /\ l.pc = "destination" /\ l.k = k /\ l.u = u
      /\ l.mn = th[t].mn /\ l.mx = th[t].mx
  <2>. HIDE DEF u
  <2>. QED BY <1>3, <1>6 DEF At, Locals
<1>8. th' = [th EXCEPT ![t] = l] BY <1>2
<1>. HIDE DEF l
<1>9. /\ Threaded' /\ Covered' /\ th'[t] = l /\ Others(th, th', t)
      /\ IsFiniteSet(all) /\ "store" \notin Inserting
      /\ incr \in Seq(Entry) /\ nincr \in Nat /\ nincr <= Len(incr)
  <2>1. l.pc \in Stages BY <1>1, <1>7 DEF Stages
  <2>2. l.pc \notin {"forward", "back", "count", "store"} /\ th[t].pc # "idle" BY <1>1, <1>7
  <2>3. UNCHANGED <<session, conn, cur, stamps, before, nrem, rem>> BY <1>1
  <2>. HIDE DEF Locals
  <2>. QED BY <1>1, <1>3, <1>6, <1>7, <1>8, <2>1, <2>2, <2>3, InsertMove
<1>10. th[t].pc \in Inserting /\ th'[t].pc \in Inserting /\ th'[t].k = th[t].k
      BY <1>1, <1>7, <1>9 DEF Inserting
<1>11. /\ Sharing(th', Inserting, todo, all, nincr)
       /\ DoneIn(th', Inserting, todo, all) = DoneIn(th, Inserting, todo, all)
       /\ Storing(th') = Storing(th) /\ Agree(th, th', Storing(th))
  <2>. HIDE DEF all
  <2>. QED BY <1>3, <1>9, <1>10, KeepShared
<1>12. Sharing(th, Inserting, todo, DOMAIN Batch.ins, nincr)' BY <1>1, <1>11
<1>13. Added' = Added BY <1>1, <1>11 DEF Added
<1>14. InsertedSoFar'
  <2>. SUFFICES CourseNow' BY Zenon, InsertCourseNext
  <2>1. Course(th, Added, Inserts', nincr, incr, before, graph)
        BY <1>1, <1>6, CourseGrows
  <2>. DEFINE g == Inserts'
  <2>2. g[k] = <<VertexOf(Source(Batch.ins[k]), vertex'),
                 VertexOf(DestinationOf(Batch.ins[k]), vertex')>>
        BY <1>1, <1>3, <1>4, <1>6, GrowingChanges
  <2>3. th'[t].u = g[th'[t].k][1] /\ th'[t].u # -1 BY <1>6, <1>7, <1>9, <2>2
  <2>. HIDE DEF g
  <2>4. Touching(th') = Touching(th)
    <3>1. th[t].pc \notin {"back", "count"} /\ th'[t].pc \notin {"back", "count"}
          BY <1>1, <1>7, <1>9
    <3>. QED BY <1>9, <3>1, TouchingKept
  <2>5. th'[t].pc \notin {"forward", "back", "count"} BY <1>7, <1>9
  <2>6. Course(th, Added, g, nincr, incr, before, graph) BY <2>1 DEF g
  <2>7. graph = before \cup Proper(Touched(Added \cap Within(g), g) \cup Touching(th'))
        BY <2>4, <2>6 DEF Course
  <2>8. Course(th', Added, g, nincr, incr, before, graph)
        BY <1>9, <1>11, <2>3, <2>5, <2>6, <2>7, CourseMove
  <2>. QED BY <1>1, <1>13, <2>8, Zenon DEF CourseNow, g
<1>15. Loopless' BY <1>1, Zenon DEF Work, Outcome, Loopless
<1>16. incr' \in Seq(Entry) /\ Len(incr') = Len(incr) /\ nincr' \in 0..Len(incr) BY <1>1, <1>9
<1>. QED BY <1>1, <1>3, <1>6, <1>9, <1>12, <1>14, <1>15, <1>16, InsertDone

LEMMA DoInsertDestination ==
  ASSUME Work, NEW t \in Threads, InsertDestination(t), pc' = pc, Batch' = Batch,
         UNCHANGED <<session, conn, cur>>
  PROVE  Numbered' /\ Threaded' /\ Shared' /\ Covered' /\ Outcome'
<1>1. /\ pc = "insert" /\ th[t].pc = "destination" /\ graph' = graph /\ todo' = todo
      /\ nincr' = nincr /\ incr' = incr /\ nrem' = nrem /\ rem' = rem
      /\ UNCHANGED stamps /\ before' = before
      BY Zenon DEF InsertDestination, Runs, Main, accum
<1>. DEFINE k == th[t].k
            v == VertexOf(DestinationOf(Batch.ins[k]), vertex')
            go == [At(t, "forward") EXCEPT !.v = v]
            all == DOMAIN Batch.ins
<1>2. /\ Resolve(DestinationOf(Batch.ins[k]))
      /\ \/ th[t].u < LV /\ v < LV /\ th' = [th EXCEPT ![t] = go] /\ dropped' = dropped
         \/ ~(th[t].u < LV /\ v < LV) /\ th' = [th EXCEPT ![t] = At(t, "idle")]
            /\ dropped' = TRUE
      BY DEF InsertDestination, Move
<1>3. /\ th[t] \in Locals /\ graph \subseteq Edge /\ dropped \in BOOLEAN /\ Numbered
      /\ all = 1..Len(Batch.ins) /\ Sharing(th, Inserting, todo, all, nincr)
      /\ todo' \subseteq todo
      BY <1>1, InsertLoop
<1>4. k \in all
  <2>1. t \in Holding(th, Inserting) BY <1>1 DEF Holding, Inserting
  <2>. QED BY <1>3, <2>1 DEF Sharing
<1>5. DestinationOf(Batch.ins[k]) \in Endpoints
      BY <1>1, <1>3, <1>4, Current, Decoding DEF Work, InBatch
<1>6. /\ Numbered' /\ v \in Nat /\ v # -1
      /\ \A m \in Names : vertex[m] # -1 => vertex'[m] = vertex[m]
      BY <1>2, <1>3, <1>5, Resolving
<1>7. th[t].u \in Nat BY <1>1 DEF Work, Threaded
<1>. DEFINE g == Inserts'
<1>8. /\ Course(th, Added, g, nincr, incr, before, graph)
      /\ g[k] = <<th[t].u, v>> /\ th[t].u # -1 /\ v # -1
  <2>1. Course(th, Added, g, nincr, incr, before, graph) BY <1>1, <1>6, CourseGrows
  <2>2. /\ g[k] = <<g[k][1], g[k][2]>>
        /\ g[k] = <<VertexOf(Source(Batch.ins[k]), vertex'),
                    VertexOf(DestinationOf(Batch.ins[k]), vertex')>>
        BY <1>1, <1>3, <1>4, <1>6, GrowingChanges
  <2>. HIDE DEF g
  <2>3. g[k][2] = v BY <2>2
  <2>4. g[k][1] = th[t].u /\ th[t].u # -1 BY <1>1, <2>1 DEF Course
  <2>. QED BY <1>6, <2>1, <2>2, <2>3, <2>4
<1>9. Loopless' BY <1>1, Zenon DEF Work, Outcome, Loopless
<1>. HIDE DEF g, v
(* The edge goes in.                                                       *)
<1>10. CASE th[t].u < LV /\ v < LV /\ th' = [th EXCEPT ![t] = go] /\ dropped' = dropped
  <2>. DEFINE l == go
  <2>1. /\ l \in Locals /\ l.pc = "forward" /\ l.k = k /\ l.u = th[t].u /\ l.v = v
        /\ l.mn = th[t].mn /\ l.mx = th[t].mx
    <3>. QED BY <1>3, <1>6 DEF At, Locals
  <2>2. th' = [th EXCEPT ![t] = l] BY <1>10
  <2>. HIDE DEF l
  <2>3. /\ Threaded' /\ Covered' /\ th'[t] = l /\ Others(th, th', t)
        /\ IsFiniteSet(all) /\ "store" \notin Inserting
        /\ incr \in Seq(Entry) /\ nincr \in Nat /\ nincr <= Len(incr)
    <3>1. l.pc \in Stages BY <1>1, <2>1 DEF Stages
    <3>2. l.pc # "destination" /\ th[t].pc # "idle" BY <1>1, <2>1
    <3>3. UNCHANGED <<session, conn, cur, stamps, before, nrem, rem>> BY <1>1
    <3>4. l.u \in 0..LV - 1 /\ l.v \in 0..LV - 1 BY <1>6, <1>7, <1>10, <2>1, Limits
    <3>5. graph' \subseteq Edge /\ dropped' \in BOOLEAN BY <1>1, <1>3, <1>10
    <3>. HIDE DEF Locals
    <3>. QED BY <1>1, <1>3, <1>6, <2>1, <2>2, <3>1, <3>2, <3>3, <3>4, <3>5, InsertMove
  <2>4. th[t].pc \in Inserting /\ th'[t].pc \in Inserting /\ th'[t].k = th[t].k
        BY <1>1, <2>1, <2>3 DEF Inserting
  <2>5. /\ Sharing(th', Inserting, todo, all, nincr)
        /\ DoneIn(th', Inserting, todo, all) = DoneIn(th, Inserting, todo, all)
        /\ Storing(th') = Storing(th) /\ Agree(th, th', Storing(th))
    <3>1. IsFiniteSet(all) /\ Sharing(th, Inserting, todo, all, nincr) /\ Others(th, th', t)
          /\ "store" \notin Inserting
          BY <1>3, <2>3
    <3>. HIDE DEF all
    <3>. QED BY <2>4, <3>1, KeepShared, Zenon
  <2>6. Sharing(th, Inserting, todo, DOMAIN Batch.ins, nincr)' BY <1>1, <2>5
  <2>7. Added' = Added BY <1>1, <2>5 DEF Added
  <2>8. InsertedSoFar'
    <3>. SUFFICES CourseNow' BY Zenon, InsertCourseNext
    <3>1. /\ Course(th, Added, g, nincr, incr, before, graph)
          /\ g[k] = <<th[t].u, v>> /\ th[t].u # -1 /\ v # -1
          BY <1>8
    <3>2. th'[t].u = g[th'[t].k][1] /\ th'[t].u # -1 /\ th'[t].v = g[th'[t].k][2]
          BY <2>1, <2>3, <3>1
    <3>3. Touching(th') = Touching(th)
      <4>1. th[t].pc \notin {"back", "count"} /\ th'[t].pc \notin {"back", "count"}
            BY <1>1, <2>1, <2>3
      <4>. QED BY <2>3, <4>1, TouchingKept
    <3>4. graph = before \cup Proper(Touched(Added \cap Within(g), g) \cup Touching(th'))
          BY <3>1, <3>3 DEF Course
    <3>5. Course(th', Added, g, nincr, incr, before, graph)
          BY <2>3, <2>5, <3>1, <3>2, <3>4, CourseMove
    <3>. QED BY <1>1, <2>7, <3>5, Zenon DEF CourseNow, g
  <2>9. incr' \in Seq(Entry) /\ Len(incr') = Len(incr) /\ nincr' \in 0..Len(incr) BY <1>1, <2>3
  <2>. QED BY <1>1, <1>3, <1>6, <1>9, <2>3, <2>6, <2>8, <2>9, InsertDone
(* One of its ends is too large.                                           *)
<1>11. CASE ~(th[t].u < LV /\ v < LV) /\ th' = [th EXCEPT ![t] = At(t, "idle")]
            /\ dropped' = TRUE
  <2>. DEFINE l == At(t, "idle")
  <2>1. /\ l \in Locals /\ l.pc = "idle" /\ l.mn = th[t].mn /\ l.mx = th[t].mx
        BY <1>3 DEF At, Locals
  <2>2. th' = [th EXCEPT ![t] = l] BY <1>11
  <2>. HIDE DEF l
  <2>3. /\ Threaded' /\ Covered' /\ th'[t] = l /\ Others(th, th', t)
        /\ IsFiniteSet(all) /\ "store" \notin Inserting /\ "idle" \notin Inserting
        /\ incr \in Seq(Entry) /\ nincr \in Nat /\ nincr <= Len(incr)
    <3>1. l.pc \in Stages BY <1>1, <2>1 DEF Stages
    <3>2. l.pc \notin {"destination", "forward", "back", "count", "store"} /\ th[t].pc # "idle"
          BY <1>1, <2>1
    <3>3. UNCHANGED <<session, conn, cur, stamps, before, nrem, rem>> BY <1>1
    <3>4. graph' \subseteq Edge /\ dropped' \in BOOLEAN BY <1>1, <1>3, <1>11
    <3>. HIDE DEF Locals
    <3>. QED BY <1>1, <1>3, <1>6, <2>1, <2>2, <3>1, <3>2, <3>3, <3>4, InsertMove
  <2>4. th[t].pc \in Inserting /\ th'[t].pc \notin Inserting /\ th'[t].pc # "store"
        BY <1>1, <2>1, <2>3 DEF Inserting
  <2>5. /\ Sharing(th', Inserting, todo, all, nincr)
        /\ DoneIn(th', Inserting, todo, all) = DoneIn(th, Inserting, todo, all) \cup {k}
        /\ Storing(th') = Storing(th) /\ Agree(th, th', Storing(th))
    <3>1. IsFiniteSet(all) /\ Sharing(th, Inserting, todo, all, nincr) /\ Others(th, th', t)
          /\ "store" \notin Inserting
          BY <1>3, <2>3
    <3>. HIDE DEF all
    <3>. QED BY <2>4, <3>1, DropShared, Zenon
  <2>6. Sharing(th, Inserting, todo, DOMAIN Batch.ins, nincr)' BY <1>1, <2>5
  <2>7. Added' = Added \cup {k} BY <1>1, <2>5 DEF Added
  <2>8. InsertedSoFar'
    <3>. SUFFICES CourseNow' BY Zenon, InsertCourseNext
    <3>1. /\ Course(th, Added, g, nincr, incr, before, graph)
          /\ g[k] = <<th[t].u, v>> /\ th[t].u # -1 /\ v # -1
          BY <1>8
    <3>2. g[k] \notin Edge BY <1>6, <1>7, <1>11, <3>1, Limits DEF Edge
    <3>. HIDE DEF k
    <3>3. Course(th, Added \cup {k}, g, nincr, incr, before, graph)
          BY <3>1, <3>2, CourseWiden
    <3>4. Touching(th') = Touching(th)
      <4>1. th[t].pc \notin {"back", "count"} /\ th'[t].pc \notin {"back", "count"}
            BY <1>1, <2>1, <2>3
      <4>. QED BY <2>3, <4>1, TouchingKept
    <3>5. th'[t].pc \notin {"destination", "forward", "back", "count"} BY <2>1, <2>3
    <3>. DEFINE D == Added \cup {k}
    <3>6. graph = before \cup Proper(Touched(D \cap Within(g), g) \cup Touching(th'))
          BY <3>3, <3>4 DEF Course
    <3>. HIDE DEF D
    <3>7. Course(th, D, g, nincr, incr, before, graph) BY <3>3 DEF D
    <3>8. Course(th', D, g, nincr, incr, before, graph)
          BY <2>3, <2>5, <3>5, <3>6, <3>7, CourseMove
    <3>. QED BY <1>1, <2>7, <3>8, Zenon DEF CourseNow, g, D
  <2>9. incr' \in Seq(Entry) /\ Len(incr') = Len(incr) /\ nincr' \in 0..Len(incr) BY <1>1, <2>3
  <2>. QED BY <1>1, <1>3, <1>6, <1>9, <2>3, <2>6, <2>8, <2>9, InsertDone
<1>. QED BY <1>2, <1>10, <1>11

(* One more direction of an edge is in the graph.                          *)
LEMMA EdgeAdded ==
  ASSUME Work, NEW u \in 0..LV - 1, NEW v \in 0..LV - 1, AddEdge(u, v), before' = before
  PROVE  /\ graph' \subseteq Edge /\ Loopless' /\ <<u, v>> \in Edge
         /\ \A base, S : graph = base \cup Proper(S) => graph' = base \cup Proper(S \cup {<<u, v>>})
<1>1. graph \subseteq Edge /\ \A e \in graph \cup before : e[1] # e[2]
      BY DEF Work, Threaded, Outcome, Loopless
<1>2. graph' = IF u = v THEN graph ELSE graph \cup {<<u, v>>} BY DEF AddEdge
<1>3. graph' \subseteq Edge /\ <<u, v>> \in Edge BY <1>1, <1>2 DEF Edge
<1>4. Loopless' BY <1>1, <1>2 DEF Loopless
<1>5. Proper({<<u, v>>}) = IF u = v THEN {} ELSE {<<u, v>>} BY DEF Proper
<1>6. ASSUME NEW base, NEW S, graph = base \cup Proper(S)
      PROVE  graph' = base \cup Proper(S \cup {<<u, v>>})
  <2>1. Proper(S \cup {<<u, v>>}) = Proper(S) \cup Proper({<<u, v>>}) BY ProperSum
  <2>. QED BY <1>2, <1>5, <1>6, <2>1
<1>. QED BY <1>3, <1>4, <1>6

(* The thread at the label from goes on to the label to, with one more     *)
(* edge touched.                                                           *)
Touch(t, to) ==
  /\ pc = "insert" /\ th[t].pc = (IF to = "back" THEN "forward" ELSE "back")
  /\ IF to = "back" THEN AddEdge(th[t].u, th[t].v) ELSE AddEdge(th[t].v, th[t].u)
  /\ th' = [th EXCEPT ![t] = At(t, to)]
  /\ todo' = todo /\ vertex' = vertex /\ next_type' = next_type /\ dropped' = dropped
  /\ nincr' = nincr /\ incr' = incr /\ nrem' = nrem /\ rem' = rem /\ UNCHANGED stamps /\ before' = before

LEMMA DoTouch ==
  ASSUME Work, NEW t \in Threads, NEW to \in {"back", "count"}, Touch(t, to),
         pc' = pc, Batch' = Batch, UNCHANGED <<session, conn, cur>>
  PROVE  Numbered' /\ Threaded' /\ Shared' /\ Covered' /\ Outcome'
<1>. DEFINE l == At(t, to)
            all == DOMAIN Batch.ins
            e == IF to = "back" THEN <<th[t].u, th[t].v>> ELSE <<th[t].v, th[t].u>>
<1>0. /\ pc = "insert" /\ th[t].pc = (IF to = "back" THEN "forward" ELSE "back")
      /\ IF to = "back" THEN AddEdge(th[t].u, th[t].v) ELSE AddEdge(th[t].v, th[t].u)
      /\ th' = [th EXCEPT ![t] = At(t, to)]
      /\ todo' = todo /\ vertex' = vertex /\ next_type' = next_type /\ dropped' = dropped
      /\ nincr' = nincr /\ incr' = incr /\ nrem' = nrem /\ rem' = rem /\ UNCHANGED stamps
      /\ before' = before
      BY Zenon DEF Touch
<1>1. /\ th[t] \in Locals /\ dropped \in BOOLEAN /\ Numbered
      /\ Sharing(th, Inserting, todo, all, nincr) /\ todo' \subseteq todo
      BY <1>0, InsertLoop
<1>2. Numbered' BY <1>0, <1>1 DEF Numbered
<1>3. th[t].u \in 0..LV - 1 /\ th[t].v \in 0..LV - 1 BY <1>0 DEF Work, Threaded
<1>4. /\ graph' \subseteq Edge /\ Loopless' /\ e \in Edge
      /\ \A base, S : graph = base \cup Proper(S) => graph' = base \cup Proper(S \cup {e})
  <2>1. CASE to = "back" BY <1>0, <1>3, <2>1, EdgeAdded
  <2>2. CASE to # "back" BY <1>0, <1>3, <2>2, EdgeAdded
  <2>. QED BY <2>1, <2>2
<1>5. /\ l \in Locals /\ l.pc = to /\ l.k = th[t].k /\ l.u = th[t].u /\ l.v = th[t].v
      /\ l.mn = th[t].mn /\ l.mx = th[t].mx
      BY <1>1 DEF At, Locals
<1>6. th' = [th EXCEPT ![t] = l] BY <1>0
<1>. HIDE DEF l
<1>7. /\ Threaded' /\ Covered' /\ th'[t] = l /\ Others(th, th', t)
      /\ IsFiniteSet(all) /\ "store" \notin Inserting
      /\ incr \in Seq(Entry) /\ nincr \in Nat /\ nincr <= Len(incr)
  <2>1. l.pc \in Stages BY <1>0, <1>5 DEF Stages
  <2>2. l.pc # "destination" /\ th[t].pc # "idle" BY <1>0, <1>5
  <2>3. UNCHANGED <<session, conn, cur, stamps, before, nrem, rem>> BY <1>0
  <2>4. l.u \in 0..LV - 1 /\ l.v \in 0..LV - 1 /\ dropped' \in BOOLEAN BY <1>0, <1>1, <1>3, <1>5
  <2>. HIDE DEF Locals
  <2>. QED BY <1>0, <1>1, <1>2, <1>4, <1>5, <1>6, <2>1, <2>2, <2>3, <2>4, InsertMove
<1>8. th[t].pc \in Inserting /\ th'[t].pc \in Inserting /\ th'[t].k = th[t].k
      BY <1>0, <1>5, <1>7 DEF Inserting
<1>9. /\ Sharing(th', Inserting, todo, all, nincr)
      /\ DoneIn(th', Inserting, todo, all) = DoneIn(th, Inserting, todo, all)
      /\ Storing(th') = Storing(th) /\ Agree(th, th', Storing(th))
  <2>1. /\ IsFiniteSet(all) /\ Sharing(th, Inserting, todo, all, nincr) /\ Others(th, th', t)
        /\ "store" \notin Inserting
        /\ th[t].pc \in Inserting /\ th'[t].pc \in Inserting /\ th'[t].k = th[t].k
        BY <1>1, <1>7, <1>8
  <2>. HIDE DEF all, e
  <2>. QED BY <2>1, KeepShared
<1>10. Sharing(th, Inserting, todo, DOMAIN Batch.ins, nincr)' BY <1>0, <1>9
<1>11. Added' = Added BY <1>0, <1>9 DEF Added
<1>12. Inserts' = Inserts BY <1>0, SameChanges
<1>13. InsertedSoFar'
  <2>. SUFFICES CourseNow' BY Zenon, InsertCourseNext
  <2>. DEFINE g == Inserts
  <2>1. Course(th, Added, g, nincr, incr, before, graph) BY <1>0, InsertCourse DEF CourseNow
  <2>. HIDE DEF g
  <2>2. th'[t].u = g[th'[t].k][1] /\ th'[t].u # -1 /\ th'[t].v = g[th'[t].k][2]
        BY <1>0, <1>5, <1>7, <2>1 DEF Course
  <2>3. Touching(th') = Touching(th) \cup {e}
    <3>0. Others(th, th', t) /\ th'[t].u = th[t].u /\ th'[t].v = th[t].v /\ th'[t].pc = to
          BY <1>5, <1>7
    <3>1. CASE to = "back"
      <4>1. e = <<th[t].u, th[t].v>> /\ th[t].pc = "forward" /\ th'[t].pc = "back" 
            BY <1>0, <3>0, <3>1
      <4>2. <<th[t].u, th[t].v>> \in Edge BY <1>4, <4>1
      <4>3. Touching(th') = Touching(th) \cup {<<th[t].u, th[t].v>>}
            BY <3>0, <4>1, <4>2, TouchForward, Zenon
      <4>. QED BY <4>1, <4>3
    <3>2. CASE to = "count"
      <4>1. e = <<th[t].v, th[t].u>> /\ th[t].pc = "back" /\ th'[t].pc = "count" BY <1>0, <3>0, <3>2
      <4>2. <<th[t].v, th[t].u>> \in Edge BY <1>4, <4>1
      <4>3. Touching(th') = Touching(th) \cup {<<th[t].v, th[t].u>>}
            BY <3>0, <4>1, <4>2, TouchBack, Zenon
      <4>. QED BY <4>1, <4>3
    <3>. QED BY <3>1, <3>2
  <2>. DEFINE T == Touched(Added \cap Within(g), g)
  <2>4. graph = before \cup Proper(T \cup Touching(th)) BY <2>1 DEF Course
  <2>. HIDE DEF T, e
  <2>5. graph' = before \cup Proper((T \cup Touching(th)) \cup {e}) BY <1>4, <2>4
  <2>6. graph' = before \cup Proper(T \cup Touching(th'))
    <3>1. (T \cup Touching(th)) \cup {e} = T \cup Touching(th') BY <2>3
    <3>. QED BY <2>5, <3>1
  <2>7. graph' = before \cup Proper(Touched(Added \cap Within(g), g) \cup Touching(th'))
        BY <2>6 DEF T
  <2>8. Course(th', Added, g, nincr, incr, before, graph')
    <3>1. /\ Course(th, Added, g, nincr, incr, before, graph) /\ Others(th, th', t)
          /\ Storing(th') = Storing(th) /\ Agree(th, th', Storing(th))
          /\ (th'[t].pc \in {"destination", "forward", "back", "count"} =>
                th'[t].u = g[th'[t].k][1] /\ th'[t].u # -1)
          /\ (th'[t].pc \in {"forward", "back", "count"} => th'[t].v = g[th'[t].k][2])
          /\ graph' = before \cup Proper(Touched(Added \cap Within(g), g) \cup Touching(th'))
          BY <1>7, <1>9, <2>1, <2>2, <2>7
    <3>. QED BY <3>1, CourseMove
  <2>. QED BY <1>0, <1>11, <1>12, <2>8, Zenon DEF CourseNow, g
<1>14. incr' \in Seq(Entry) /\ Len(incr') = Len(incr) /\ nincr' \in 0..Len(incr) BY <1>0, <1>7
<1>. QED BY <1>0, <1>1, <1>2, <1>4, <1>7, <1>10, <1>13, <1>14, InsertDone

LEMMA DoForward ==
  ASSUME Work, NEW t \in Threads, Forward(t), pc' = pc, Batch' = Batch,
         UNCHANGED <<session, conn, cur>>
  PROVE  Numbered' /\ Threaded' /\ Shared' /\ Covered' /\ Outcome'
<1>1. Touch(t, "back") BY DEF Touch, Forward, Runs, Main, accum, Move
<1>. QED BY <1>1, DoTouch

LEMMA DoBack ==
  ASSUME Work, NEW t \in Threads, Back(t), pc' = pc, Batch' = Batch,
         UNCHANGED <<session, conn, cur>>
  PROVE  Numbered' /\ Threaded' /\ Shared' /\ Covered' /\ Outcome'
<1>1. Touch(t, "count") BY DEF Touch, Back, Runs, Main, accum, Move
<1>. QED BY <1>1, DoTouch

(* A thread that is through with an edge has a place for it.               *)
LEMMA CourseCount ==
  ASSUME NEW x, NEW y, NEW D, NEW g, NEW n \in Nat, NEW array, NEW base, NEW e, NEW t \in Threads,
         NEW k \in DOMAIN g, Course(x, D, g, n, array, base, e), Others(x, y, t),
         IsFiniteSet(D), k \notin D, g[k] = <<x[t].u, x[t].v>>, g[k] \in Edge,
         g[k][1] # -1, g[k][2] # -1,
         x[t].pc = "count", y[t].pc = "store", y[t].k = n + 1, y[t].u = x[t].u, y[t].v = x[t].v,
         Storing(y) = Storing(x) \cup {t}, Agree(x, y, Storing(x)),
         \A s \in Storing(x) : x[s].k \in 1..n
  PROVE  Course(y, D \cup {k}, g, n + 1, array, base, e)
<1>. DEFINE E == D \cap Within(g)
<1>1. (D \cup {k}) \cap Within(g) = E \cup {k} BY DEF Within
<1>2. /\ Accounted(x, E, g, n, array)
      /\ e = base \cup Proper(Touched(E, g) \cup Touching(x))
      BY DEF Course
<1>3. IsFiniteSet(E) /\ k \notin E BY FS_Subset
<1>4. y[t].pc \notin {"back", "count"} /\ g[k] = <<y[t].u, y[t].v>> OBVIOUS
<1>. HIDE DEF E
<1>5. Accounted(y, E \cup {k}, g, n + 1, array) BY <1>2, <1>3, <1>4, AccountedCount
<1>6. Touched(E \cup {k}, g) \cup Touching(y) = Touched(E, g) \cup Touching(x)
      BY <1>4, TouchCount
<1>7. e = base \cup Proper(Touched(E \cup {k}, g) \cup Touching(y)) BY <1>2, <1>6
<1>8. ASSUME NEW s \in Threads
      PROVE  /\ y[s].pc \in {"destination", "forward", "back", "count"} =>
                  y[s].u = g[y[s].k][1] /\ y[s].u # -1
             /\ y[s].pc \in {"forward", "back", "count"} => y[s].v = g[y[s].k][2]
      BY DEF Course, Others
<1>9. \A j \in D \cup {k} : g[j][1] # -1 /\ g[j][2] # -1 BY DEF Course
<1>. QED BY <1>1, <1>5, <1>7, <1>8, <1>9 DEF Course

LEMMA CourseStore ==
  ASSUME NEW x, NEW y, NEW D, NEW g, NEW n \in Nat, NEW S, NEW a \in Seq(S), NEW base, NEW e,
         NEW t \in Storing(x), Course(x, D, g, n, a, base, e), Others(x, y, t), n <= Len(a),
         y[t].pc = "idle", Storing(y) = Storing(x) \ {t}, Agree(x, y, Storing(y)),
         \A s \in Storing(x) : x[s].k \in 1..n,
         \A r, s \in Storing(x) : x[r].k = x[s].k => r = s
  PROVE  Course(y, D, g, n, [a EXCEPT ![x[t].k] = <<x[t].u, x[t].v>>], base, e)
<1>. DEFINE E == D \cap Within(g)
            b == [a EXCEPT ![x[t].k] = <<x[t].u, x[t].v>>]
<1>0. t \in Threads /\ x[t].pc = "store" BY DEF Storing
<1>1. /\ Accounted(x, E, g, n, a)
      /\ e = base \cup Proper(Touched(E, g) \cup Touching(x))
      BY DEF Course
<1>2. Accounted(y, E, g, n, b)
  <2>. HIDE DEF E
  <2>. QED BY <1>1, AccountedStore
<1>. HIDE DEF b
<1>3. Touching(y) = Touching(x) BY <1>0, TouchingKept
<1>4. ASSUME NEW s \in Threads
      PROVE  /\ y[s].pc \in {"destination", "forward", "back", "count"} =>
                  y[s].u = g[y[s].k][1] /\ y[s].u # -1
             /\ y[s].pc \in {"forward", "back", "count"} => y[s].v = g[y[s].k][2]
      BY <1>0 DEF Course, Others
<1>5. \A j \in D : g[j][1] # -1 /\ g[j][2] # -1 BY DEF Course
<1>6. Course(y, D, g, n, b, base, e) BY <1>1, <1>2, <1>3, <1>4, <1>5 DEF Course
<1>. QED BY <1>6 DEF b

LEMMA DoCountInsertion ==
  ASSUME Work, NEW t \in Threads, CountInsertion(t), pc' = pc, Batch' = Batch,
         UNCHANGED <<session, conn, cur>>
  PROVE  Numbered' /\ Threaded' /\ Shared' /\ Covered' /\ Outcome'
<1>1. /\ pc = "insert" /\ th[t].pc = "count" /\ vertex' = vertex /\ graph' = graph
      /\ next_type' = next_type
      /\ todo' = todo /\ incr' = incr /\ nrem' = nrem /\ rem' = rem
      /\ UNCHANGED stamps /\ dropped' = dropped /\ before' = before /\ nincr' = nincr + 1
      /\ Move(t, [At(t, "store") EXCEPT !.k = nincr + 1])
      BY Zenon DEF CountInsertion, Runs, store
<1>. DEFINE k == th[t].k
            l == [At(t, "store") EXCEPT !.k = nincr + 1]
            all == DOMAIN Batch.ins
<1>2. /\ th[t] \in Locals /\ graph \subseteq Edge /\ dropped \in BOOLEAN /\ Numbered
      /\ all = 1..Len(Batch.ins) /\ Sharing(th, Inserting, todo, all, nincr)
      /\ todo' \subseteq todo /\ nincr \in Nat
      BY <1>1, InsertLoop
<1>3. th[t].u \in 0..LV - 1 /\ th[t].v \in 0..LV - 1 BY <1>1 DEF Work, Threaded
<1>4. Numbered' BY <1>1, <1>2 DEF Numbered
<1>5. /\ l \in Locals /\ l.pc = "store" /\ l.k = nincr + 1 /\ l.u = th[t].u /\ l.v = th[t].v
      /\ l.mn = th[t].mn /\ l.mx = th[t].mx
  <2>1. nincr + 1 \in Nat BY <1>2
  <2>. QED BY <1>2, <2>1 DEF At, Locals
<1>6. th' = [th EXCEPT ![t] = l] BY <1>1 DEF Move
<1>. HIDE DEF l
<1>7. /\ Threaded' /\ Covered' /\ th'[t] = l /\ Others(th, th', t)
      /\ IsFiniteSet(all) /\ "store" \notin Inserting /\ Cardinality(all) = Len(incr)
      /\ incr \in Seq(Entry) /\ nincr <= Len(incr) /\ Len(incr) \in Nat
  <2>1. l.pc \in Stages BY <1>1, <1>5 DEF Stages
  <2>2. l.pc # "destination" /\ th[t].pc # "idle" BY <1>1, <1>5
  <2>3. UNCHANGED <<session, conn, cur, stamps, before, nrem, rem>> BY <1>1
  <2>4. graph' \subseteq Edge /\ dropped' \in BOOLEAN BY <1>1, <1>2
  <2>5. l.u \in 0..LV - 1 /\ l.v \in 0..LV - 1 BY <1>3, <1>5
  <2>. HIDE DEF Locals
  <2>. QED BY <1>1, <1>2, <1>4, <1>5, <1>6, <2>1, <2>2, <2>3, <2>4, <2>5, InsertMove
<1>8. th[t].pc \in Inserting BY <1>1 DEF Inserting
<1>9. /\ Sharing(th', Inserting, todo, all, nincr + 1) /\ nincr + 1 <= Cardinality(all)
      /\ DoneIn(th', Inserting, todo, all) = DoneIn(th, Inserting, todo, all) \cup {k}
      /\ k \notin DoneIn(th, Inserting, todo, all)
      /\ Storing(th') = Storing(th) \cup {t} /\ Agree(th, th', Storing(th))
  <2>1. /\ IsFiniteSet(all) /\ Sharing(th, Inserting, todo, all, nincr) /\ Others(th, th', t)
        /\ "store" \notin Inserting
        /\ th[t].pc \in Inserting /\ th'[t].pc = "store" /\ th'[t].k = nincr + 1
        BY <1>2, <1>5, <1>7, <1>8
  <2>. HIDE DEF all
  <2>. QED BY <2>1, CountShared
<1>10. Sharing(th, Inserting, todo, DOMAIN Batch.ins, nincr)' BY <1>1, <1>9
<1>11. Added' = Added \cup {k} /\ k \notin Added BY <1>1, <1>9 DEF Added
<1>12. k \in all
  <2>1. t \in Holding(th, Inserting) BY <1>8 DEF Holding
  <2>. QED BY <1>2, <2>1 DEF Sharing
<1>13. Inserts' = Inserts BY <1>1, SameChanges
<1>14. InsertedSoFar'
  <2>. SUFFICES CourseNow' BY Zenon, InsertCourseNext
  <2>. DEFINE g == Inserts
  <2>1. Course(th, Added, g, nincr, incr, before, graph) BY <1>1, InsertCourse DEF CourseNow
  <2>2. k \in DOMAIN g /\ g[k] = <<g[k][1], g[k][2]>> BY <1>2, <1>12 DEF Inserts
  <2>. HIDE DEF g, k
  <2>3. th[t].u = g[k][1] /\ th[t].v = g[k][2] BY <1>1, <2>1 DEF Course, k
  <2>4. g[k] = <<th[t].u, th[t].v>> /\ g[k] \in Edge /\ g[k][1] # -1 /\ g[k][2] # -1
        BY <1>3, <2>2, <2>3, Limits DEF Edge
  <2>5. IsFiniteSet(Added) BY <1>7, AddedThere, FS_Subset
  <2>6. \A s \in Storing(th) : th[s].k \in 1..nincr BY <1>2 DEF Sharing
  <2>7. Course(th', Added \cup {k}, g, nincr + 1, incr, before, graph)
    <3>1. th'[t].pc = "store" /\ th'[t].k = nincr + 1 /\ th'[t].u = th[t].u /\ th'[t].v = th[t].v
          BY <1>5, <1>7
    <3>. QED BY <1>1, <1>2, <1>7, <1>9, <1>11, <2>1, <2>2, <2>4, <2>5, <2>6, <3>1, CourseCount
  <2>. QED BY <1>1, <1>11, <1>13, <2>7, Zenon DEF CourseNow, g
<1>15. Loopless' BY <1>1, Zenon DEF Work, Outcome, Loopless
<1>16. incr' \in Seq(Entry) /\ Len(incr') = Len(incr) /\ nincr' \in 0..Len(incr)
       BY <1>1, <1>2, <1>7, <1>9
<1>. QED BY <1>1, <1>2, <1>4, <1>7, <1>10, <1>14, <1>15, <1>16, InsertDone

(* A place in the array takes an edge.                                     *)
LEMMA Placed ==
  ASSUME NEW a \in Seq(Entry), NEW k \in 1..Len(a), NEW e \in Edge
  PROVE  [a EXCEPT ![k] = e] \in Seq(Entry) /\ Len([a EXCEPT ![k] = e]) = Len(a)
<1>1. e \in Entry BY DEF Entry
<1>. HIDE DEF Entry, Edge
<1>. QED BY <1>1

LEMMA DoStoreInsertion ==
  ASSUME Work, NEW t \in Threads, StoreInsertion(t), pc' = pc, Batch' = Batch,
         UNCHANGED <<session, conn, cur>>
  PROVE  Numbered' /\ Threaded' /\ Shared' /\ Covered' /\ Outcome'
<1>1. /\ pc = "insert" /\ th[t].pc = "store" /\ vertex' = vertex /\ graph' = graph
      /\ next_type' = next_type
      /\ todo' = todo /\ nincr' = nincr /\ nrem' = nrem /\ rem' = rem
      /\ UNCHANGED stamps /\ dropped' = dropped /\ before' = before
      /\ incr' = [incr EXCEPT ![th[t].k] = <<th[t].u, th[t].v>>]
      /\ Move(t, At(t, "idle"))
      BY Zenon DEF StoreInsertion, Runs, store
<1>. DEFINE l == At(t, "idle")
            all == DOMAIN Batch.ins
<1>2. /\ th[t] \in Locals /\ graph \subseteq Edge /\ dropped \in BOOLEAN /\ Numbered
      /\ all = 1..Len(Batch.ins) /\ Sharing(th, Inserting, todo, all, nincr)
      /\ todo' \subseteq todo /\ nincr \in Nat
      BY <1>1, InsertLoop
<1>3. <<th[t].u, th[t].v>> \in Edge BY <1>1 DEF Work, Threaded, Edge
<1>4. Numbered' BY <1>1, <1>2 DEF Numbered
<1>5. /\ l \in Locals /\ l.pc = "idle" /\ l.mn = th[t].mn /\ l.mx = th[t].mx
      BY <1>2 DEF At, Locals
<1>6. th' = [th EXCEPT ![t] = l] BY <1>1 DEF Move
<1>. HIDE DEF l
<1>7. /\ Threaded' /\ Covered' /\ th'[t] = l /\ Others(th, th', t)
      /\ IsFiniteSet(all) /\ "store" \notin Inserting /\ "idle" \notin Inserting
      /\ incr \in Seq(Entry) /\ nincr <= Len(incr) /\ Len(incr) \in Nat
  <2>1. l.pc \in Stages BY <1>1, <1>5 DEF Stages
  <2>2. l.pc \notin {"destination", "forward", "back", "count", "store"} /\ th[t].pc # "idle"
        BY <1>1, <1>5
  <2>3. UNCHANGED <<session, conn, cur, stamps, before, nrem, rem>> BY <1>1
  <2>4. graph' \subseteq Edge /\ dropped' \in BOOLEAN BY <1>1, <1>2
  <2>. HIDE DEF Locals
  <2>. QED BY <1>1, <1>2, <1>4, <1>5, <1>6, <2>1, <2>2, <2>3, <2>4, InsertMove
<1>8. t \in Storing(th) /\ th'[t].pc = "idle" BY <1>1, <1>5, <1>7 DEF Storing
<1>9. /\ Sharing(th', Inserting, todo, all, nincr)
      /\ DoneIn(th', Inserting, todo, all) = DoneIn(th, Inserting, todo, all)
      /\ Storing(th') = Storing(th) \ {t} /\ Agree(th, th', Storing(th'))
  <2>1. /\ IsFiniteSet(all) /\ Sharing(th, Inserting, todo, all, nincr) /\ Others(th, th', t)
        /\ "store" \notin Inserting
        /\ th[t].pc = "store" /\ th'[t].pc \notin Inserting /\ th'[t].pc # "store"
        BY <1>1, <1>2, <1>7, <1>8
  <2>. HIDE DEF all
  <2>. QED BY <2>1, StoreShared
<1>10. Sharing(th, Inserting, todo, DOMAIN Batch.ins, nincr)' BY <1>1, <1>9
<1>11. Added' = Added BY <1>1, <1>9 DEF Added
<1>12. Inserts' = Inserts BY <1>1, SameChanges
<1>13. /\ \A s \in Storing(th) : th[s].k \in 1..nincr
       /\ \A r, s \in Storing(th) : th[r].k = th[s].k => r = s
       BY <1>2 DEF Sharing
<1>14. InsertedSoFar'
  <2>. SUFFICES CourseNow' BY Zenon, InsertCourseNext
  <2>1. Course(th, Added, Inserts, nincr, incr, before, graph)
        BY <1>1, InsertCourse DEF CourseNow
  <2>2. Course(th', Added, Inserts, nincr, incr', before, graph)
        BY <1>1, <1>2, <1>7, <1>8, <1>9, <1>13, <2>1, CourseStore
  <2>. QED BY <1>1, <1>11, <1>12, <2>2, Zenon DEF CourseNow
<1>15. Loopless' BY <1>1, Zenon DEF Work, Outcome, Loopless
<1>16. incr' \in Seq(Entry) /\ Len(incr') = Len(incr) /\ nincr' \in 0..Len(incr)
  <2>1. th[t].k \in 1..Len(incr) BY <1>2, <1>7, <1>8, <1>13
  <2>2. nincr' \in 0..Len(incr) BY <1>1, <1>2, <1>7
  <2>. HIDE DEF all
  <2>. QED BY <1>1, <1>3, <1>7, <2>1, <2>2, Placed
<1>. QED BY <1>1, <1>2, <1>4, <1>7, <1>10, <1>14, <1>15, <1>16, InsertDone

------------------------------------------------------------------------------
(* The loop over deletions.                                                *)

LEMMA DeleteLoop ==
  ASSUME Work, pc = "delete"
  PROVE  /\ Sharing(th, Deleting, todo, DOMAIN Batch.del, nrem)
         /\ rem \in Seq(Entry) /\ nrem \in Nat /\ nrem <= Len(rem) /\ Len(rem) \in Nat
         /\ DOMAIN Batch.del = 1..Len(Batch.del) /\ IsFiniteSet(DOMAIN Batch.del)
         /\ Cardinality(DOMAIN Batch.del) = Len(rem)
         /\ "store" \notin Deleting /\ "idle" \notin Deleting
         /\ \A s \in Threads : th[s] \in Locals
         /\ graph \subseteq Edge /\ dropped \in BOOLEAN /\ Numbered
<1>1. pc \in InBatch BY DEF InBatch
<1>2. "store" \notin Deleting /\ "idle" \notin Deleting BY DEF Deleting
<1>3. Len(Batch.del) \in Nat /\ DOMAIN Batch.del = 1..Len(Batch.del)
      BY <1>1, Current DEF Work
<1>4. IsFiniteSet(DOMAIN Batch.del) /\ Cardinality(DOMAIN Batch.del) = Len(Batch.del)
      BY <1>3, FS_Interval
<1>5. rem \in Seq(Entry) /\ nrem \in 0..Len(rem) BY Zenon DEF Work, Shared
<1>6. Len(rem) \in Nat BY <1>5
<1>. QED BY <1>1, <1>2, <1>3, <1>4, <1>5, <1>6 DEF Work, Shared, Threaded

(* What a step in it does not change.                                      *)
DeleteFrame ==
  /\ pc' = pc /\ Batch' = Batch /\ UNCHANGED <<session, conn, cur>>
  /\ vertex' = vertex /\ next_type' = next_type /\ nincr' = nincr /\ incr' = incr
  /\ UNCHANGED stamps
  /\ before' = before

LEMMA SameWith ==
  ASSUME DeleteFrame
  PROVE  With' = With /\ Deletes' = Deletes /\ Inserts' = Inserts
<1>1. Deletes' = Deletes /\ Inserts' = Inserts BY SameChanges DEF DeleteFrame
<1>2. before' = before BY DEF DeleteFrame
<1>. QED BY <1>1, <1>2, Zenon DEF With

LEMMA DeleteMove ==
  ASSUME Work, NEW t \in Threads, pc = "delete", DeleteFrame, dropped' \in BOOLEAN,
         graph' \subseteq graph, NEW l \in Locals,
         th' = [th EXCEPT ![t] = l], l.pc \in {"idle"} \cup Deleting \cup {"store"},
         l.mn = th[t].mn, l.mx = th[t].mx,
         l.pc # "idle" => l.u \in 0..LV - 1 /\ l.v \in 0..LV - 1
  PROVE  /\ Threaded' /\ Covered' /\ th'[t] = l /\ Others(th, th', t) /\ Loopless'
<1>1. /\ pc' = pc /\ Batch' = Batch /\ UNCHANGED stamps /\ before' = before
      BY DEF DeleteFrame
<1>2. graph' \subseteq Edge /\ Loopless'
      BY <1>1 DEF Work, Threaded, Outcome, Loopless
<1>3. Threaded' /\ th'[t] = l /\ Others(th, th', t)
  <2>1. pc \in {"insert", "delete", "stamps"} /\ Threaded BY DEF Work
  <2>2. /\ l.pc \in Stages /\ l.pc # "destination"
        /\ l.pc \in {"forward", "back", "count", "store"} => l.pc # "idle"
        BY DEF Stages, Deleting
  <2>. HIDE DEF Locals
  <2>. QED BY <1>1, <1>2, <2>1, <2>2, MoveThreaded
<1>4. Covered'
  <2>1. th'[t].pc # "merged" BY <1>3 DEF Deleting
  <2>2. pc \in {"insert", "delete"} /\ Covered /\ pc # "insert" BY DEF Work
  <2>. QED BY <1>1, <1>3, <2>1, <2>2, KeepCovered
<1>. QED BY <1>2, <1>3, <1>4

LEMMA DeleteDone ==
  ASSUME Work, pc = "delete", DeleteFrame,
         Sharing(th, Deleting, todo, DOMAIN Batch.del, nrem)',
         rem' \in Seq(Entry), Len(rem') = Len(rem), nrem' \in 0..Len(rem),
         DeletedSoFar', Threaded', Covered', Loopless'
  PROVE  Numbered' /\ Threaded' /\ Shared' /\ Covered' /\ Outcome'
<1>1. /\ pc' = "delete" /\ Batch' = Batch /\ vertex' = vertex /\ next_type' = next_type
      /\ nincr' = nincr /\ incr' = incr
      BY DEF DeleteFrame
<1>2. Numbered' BY <1>1 DEF Work, Numbered
<1>3. Inserts' = Inserts BY SameWith
<1>4. Inserted' BY <1>1, <1>3, Zenon DEF Work, Outcome, Inserted
<1>5. pc' # "insert" /\ pc' \notin {"stamps", "finish"} BY <1>1
<1>6. Outcome' BY <1>4, <1>5, Zenon DEF Outcome, InsertedSoFar, Deleted
<1>7. /\ incr \in Seq(Entry) /\ nincr \in 0..Len(incr)
      /\ Len(incr) = Len(Batch.ins) /\ Len(rem) = Len(Batch.del)
      BY DEF Work, Shared, InBatch
<1>8. pc' \in {"insert", "delete"} BY <1>1
<1>9. Shared' BY <1>1, <1>5, <1>7, <1>8, Zenon DEF Shared
<1>. QED BY <1>2, <1>6, <1>9

(* What the loop has done so far.                                          *)
Retreat(x, D, g, n, array) ==
  /\ \A s \in Threads : x[s].pc \in Deleting => g[x[s].k] = <<x[s].u, x[s].v>>
  /\ Accounted(x, D \cap Within(g), g, n, array)
Left(x, D, g, base, edges) == edges = base \ (Touched(D \cap Within(g), g) \cup Touching(x))
RetreatNow == Retreat(th, Removed, Deletes, nrem, rem)
LeftNow == Left(th, Removed, Deletes, With, graph)

LEMMA DeleteCourse ==
  /\ Work /\ pc = "delete" => RetreatNow
  /\ Work /\ pc = "delete" => LeftNow
BY Zenon DEF DeletedSoFar, Retreat, RetreatNow, Left, LeftNow, Work, Outcome

LEMMA DeleteCourseNext == (RetreatNow' /\ LeftNow') => DeletedSoFar'
BY Zenon DEF DeletedSoFar, Retreat, RetreatNow, Left, LeftNow

LEMMA RetreatMove ==
  ASSUME NEW x, NEW y, NEW D, NEW g, NEW n, NEW array, NEW t \in Threads,
         Retreat(x, D, g, n, array), Others(x, y, t),
         Storing(y) = Storing(x), Agree(x, y, Storing(x)),
         y[t].pc \in Deleting => g[y[t].k] = <<y[t].u, y[t].v>>
  PROVE  Retreat(y, D, g, n, array)
<1>1. ASSUME NEW s \in Threads, y[s].pc \in Deleting
      PROVE  g[y[s].k] = <<y[s].u, y[s].v>>
      BY <1>1 DEF Retreat, Others
<1>2. Accounted(y, D \cap Within(g), g, n, array) BY AccountedKept DEF Retreat
<1>. QED BY <1>1, <1>2 DEF Retreat

LEMMA RetreatWiden ==
  ASSUME NEW x, NEW D, NEW k, NEW g, NEW n, NEW array, g[k] \notin Edge, Retreat(x, D, g, n, array)
  PROVE  Retreat(x, D \cup {k}, g, n, array)
<1>1. (D \cup {k}) \cap Within(g) = D \cap Within(g) BY DEF Within
<1>. QED BY <1>1 DEF Retreat

LEMMA LeftWiden ==
  ASSUME NEW x, NEW D, NEW k, NEW g, NEW base, NEW edges, g[k] \notin Edge,
         Left(x, D, g, base, edges)
  PROVE  Left(x, D \cup {k}, g, base, edges)
<1>1. (D \cup {k}) \cap Within(g) = D \cap Within(g) BY DEF Within
<1>. QED BY <1>1 DEF Left

LEMMA LeftCount ==
  ASSUME NEW x, NEW y, NEW D, NEW g, NEW base, NEW edges, NEW t \in Threads,
         NEW k \in DOMAIN g, Left(x, D, g, base, edges), Others(x, y, t),
         g[k] = <<x[t].u, x[t].v>>, g[k] \in Edge, x[t].pc = "count", y[t].pc = "store"
  PROVE  Left(y, D \cup {k}, g, base, edges)
<1>. DEFINE E == D \cap Within(g)
<1>1. (D \cup {k}) \cap Within(g) = E \cup {k} BY DEF Within
<1>2. edges = base \ (Touched(E, g) \cup Touching(x)) BY DEF Left
<1>3. /\ Others(x, y, t) /\ x[t].pc = "count" /\ y[t].pc \notin {"back", "count"}
      /\ g[k] = <<x[t].u, x[t].v>>
      OBVIOUS
<1>. HIDE DEF E
<1>4. Touched(E \cup {k}, g) \cup Touching(y) = Touched(E, g) \cup Touching(x)
      BY <1>3, TouchCount, SMTT(60)
<1>. QED BY <1>1, <1>2, <1>4 DEF Left

LEMMA RetreatCount ==
  ASSUME NEW x, NEW y, NEW D, NEW g, NEW n \in Nat, NEW array, NEW t \in Threads,
         NEW k \in DOMAIN g, Retreat(x, D, g, n, array), Others(x, y, t),
         IsFiniteSet(D), k \notin D, g[k] = <<x[t].u, x[t].v>>, g[k] \in Edge,
         y[t].pc = "store", y[t].k = n + 1, y[t].u = x[t].u, y[t].v = x[t].v,
         Storing(y) = Storing(x) \cup {t}, Agree(x, y, Storing(x)),
         \A s \in Storing(x) : x[s].k \in 1..n
  PROVE  Retreat(y, D \cup {k}, g, n + 1, array)
<1>. DEFINE E == D \cap Within(g)
<1>1. (D \cup {k}) \cap Within(g) = E \cup {k} BY DEF Within
<1>2. Accounted(x, E, g, n, array) BY DEF Retreat
<1>3. IsFiniteSet(E) /\ k \notin E BY FS_Subset
<1>4. g[k] = <<y[t].u, y[t].v>> OBVIOUS
<1>. HIDE DEF E
<1>5. Accounted(y, E \cup {k}, g, n + 1, array) BY <1>2, <1>3, <1>4, AccountedCount
<1>6. ASSUME NEW s \in Threads, y[s].pc \in Deleting
      PROVE  g[y[s].k] = <<y[s].u, y[s].v>>
      BY <1>6 DEF Retreat, Others, Deleting
<1>. QED BY <1>1, <1>5, <1>6 DEF Retreat

LEMMA RetreatStore ==
  ASSUME NEW x, NEW y, NEW D, NEW g, NEW n \in Nat, NEW S, NEW a \in Seq(S),
         NEW t \in Storing(x), Retreat(x, D, g, n, a), Others(x, y, t), n <= Len(a),
         y[t].pc = "idle", Storing(y) = Storing(x) \ {t}, Agree(x, y, Storing(y)),
         \A s \in Storing(x) : x[s].k \in 1..n,
         \A r, s \in Storing(x) : x[r].k = x[s].k => r = s
  PROVE  Retreat(y, D, g, n, [a EXCEPT ![x[t].k] = <<x[t].u, x[t].v>>])
<1>. DEFINE E == D \cap Within(g)
            b == [a EXCEPT ![x[t].k] = <<x[t].u, x[t].v>>]
<1>1. Accounted(x, E, g, n, a) BY DEF Retreat
<1>2. Accounted(y, E, g, n, b)
  <2>. HIDE DEF E
  <2>. QED BY <1>1, AccountedStore
<1>. HIDE DEF b
<1>3. ASSUME NEW s \in Threads, y[s].pc \in Deleting
      PROVE  g[y[s].k] = <<y[s].u, y[s].v>>
      BY <1>3 DEF Retreat, Others, Deleting
<1>4. Retreat(y, D, g, n, b) BY <1>2, <1>3 DEF Retreat
<1>. QED BY <1>4 DEF b

LEMMA DoTakeDeletion ==
  ASSUME Work, NEW t \in Threads, TakeDeletion(t), pc' = pc, Batch' = Batch,
         UNCHANGED <<session, conn, cur>>
  PROVE  Numbered' /\ Threaded' /\ Shared' /\ Covered' /\ Outcome'
<1>. DEFINE all == DOMAIN Batch.del
            U(k) == Found(Source(Batch.del[k]))
            V(k) == Found(Destination(Batch.del[k]))
            go(k) == [At(t, "forward") EXCEPT !.k = k, !.u = U(k), !.v = V(k)]
<1>1. /\ pc = "delete" /\ th[t].pc = "idle" /\ vertex' = vertex /\ graph' = graph
      /\ next_type' = next_type
      /\ nincr' = nincr /\ incr' = incr /\ nrem' = nrem /\ rem' = rem
      /\ UNCHANGED stamps /\ before' = before
      BY Zenon DEF TakeDeletion, Runs, store, accum
<1>2. PICK k \in todo :
        /\ todo' = todo \ {k}
        /\ \/ U(k) = -1 /\ th' = [th EXCEPT ![t] = At(t, "idle")] /\ dropped' = dropped
           \/ V(k) = -1 /\ th' = [th EXCEPT ![t] = At(t, "idle")] /\ dropped' = dropped
           \/ /\ U(k) # -1 /\ V(k) # -1 /\ (U(k) >= LV \/ V(k) >= LV)
              /\ th' = [th EXCEPT ![t] = At(t, "idle")] /\ dropped' = TRUE
           \/ /\ U(k) # -1 /\ V(k) # -1 /\ U(k) < LV /\ V(k) < LV
              /\ th' = [th EXCEPT ![t] = go(k)] /\ dropped' = dropped
      BY DEF TakeDeletion, Move
<1>3. /\ Sharing(th, Deleting, todo, all, nrem) /\ IsFiniteSet(all) /\ all = 1..Len(Batch.del)
      /\ th[t] \in Locals /\ dropped \in BOOLEAN /\ Numbered
      /\ "store" \notin Deleting /\ "idle" \notin Deleting
      /\ rem \in Seq(Entry) /\ nrem \in Nat /\ nrem <= Len(rem) /\ Len(rem) \in Nat
      BY <1>1, DeleteLoop
<1>4. k \in all /\ k \in Nat BY <1>3 DEF Sharing
<1>5. U(k) \in Nat \cup {-1} /\ V(k) \in Nat \cup {-1}
  <2>1. Source(Batch.del[k]) \in Endpoints /\ Destination(Batch.del[k]) \in Endpoints
        BY <1>1, <1>3, <1>4, Current, Decoding DEF Work, InBatch
  <2>2. \A m \in Names : vertex[m] \in Nat \cup {-1} BY <1>3 DEF Numbered
  <2>3. \A e \in Endpoints : Found(e) \in Nat \cup {-1}
        BY <2>2, Limits DEF Found, MapLookup, Endpoints
  <2>. QED BY <2>1, <2>3
<1>6. DeleteFrame BY <1>1 DEF DeleteFrame
<1>7. k \in DOMAIN Deletes /\ Deletes[k] = <<U(k), V(k)>> BY <1>3, <1>4 DEF Deletes
<1>8. With' = With /\ Deletes' = Deletes BY <1>6, SameWith
<1>9. RetreatNow /\ LeftNow BY <1>1, DeleteCourse, Zenon
<1>10. dropped' \in BOOLEAN /\ graph' \subseteq graph BY <1>1, <1>2, <1>3
<1>11. rem' \in Seq(Entry) /\ Len(rem') = Len(rem) /\ nrem' \in 0..Len(rem) BY <1>1, <1>3
<1>. DEFINE g == Deletes
<1>. HIDE DEF U, V
(* Nothing to do.                                                          *)
<1>12. CASE /\ U(k) = -1 \/ V(k) = -1 \/ U(k) >= LV \/ V(k) >= LV
            /\ th' = [th EXCEPT ![t] = At(t, "idle")]
  <2>. DEFINE l == At(t, "idle")
  <2>1. l \in Locals /\ l.pc = "idle" /\ l.mn = th[t].mn /\ l.mx = th[t].mx
        BY <1>3 DEF At, Locals
  <2>2. th' = [th EXCEPT ![t] = l] BY <1>12
  <2>. HIDE DEF l
  <2>3. Threaded' /\ Covered' /\ th'[t] = l /\ Others(th, th', t) /\ Loopless'
    <3>1. l.pc \in {"idle"} \cup Deleting \cup {"store"} BY <2>1
    <3>. HIDE DEF Locals
    <3>. QED BY <1>1, <1>6, <1>10, <2>1, <2>2, <3>1, DeleteMove
  <2>4. th'[t].pc = "idle" BY <2>1, <2>3
  <2>5. /\ Sharing(th', Deleting, todo \ {k}, all, nrem)
        /\ DoneIn(th', Deleting, todo \ {k}, all) = DoneIn(th, Deleting, todo, all) \cup {k}
        /\ Storing(th') = Storing(th) /\ Agree(th, th', Storing(th))
    <3>1. /\ k \in todo /\ IsFiniteSet(all) /\ Sharing(th, Deleting, todo, all, nrem)
          /\ Others(th, th', t) /\ th[t].pc \notin Deleting /\ th[t].pc # "store"
          /\ th'[t].pc \notin Deleting /\ th'[t].pc # "store"
          BY <1>1, <1>2, <1>3, <2>3, <2>4
    <3>. HIDE DEF all
    <3>. QED BY <3>1, SkipShared
  <2>6. Sharing(th, Deleting, todo, DOMAIN Batch.del, nrem)' BY <1>1, <1>2, <2>5
  <2>7. Removed' = Removed \cup {k} BY <1>1, <1>2, <2>5 DEF Removed
  <2>8. g[k] \notin Edge BY <1>7, <1>5, <1>12, Limits DEF Edge
  <2>9. Touching(th') = Touching(th)
    <3>1. th[t].pc \notin {"back", "count"} /\ th'[t].pc \notin {"back", "count"}
          BY <1>1, <2>4
    <3>. QED BY <2>3, <3>1, TouchingKept
  <2>. HIDE DEF g
  <2>10. Retreat(th', Removed \cup {k}, g, nrem, rem)
    <3>1. Retreat(th, Removed \cup {k}, g, nrem, rem)
          BY <1>9, <2>8, RetreatWiden DEF RetreatNow, g
    <3>2. th'[t].pc \notin Deleting BY <1>3, <2>4
    <3>. DEFINE D == Removed \cup {k}
    <3>. HIDE DEF D
    <3>3. Retreat(th, D, g, nrem, rem) BY <3>1 DEF D
    <3>4. Retreat(th', D, g, nrem, rem) BY <2>3, <2>5, <3>2, <3>3, RetreatMove
    <3>. QED BY <3>4 DEF D
  <2>11. Left(th', Removed \cup {k}, g, With, graph)
    <3>1. Left(th, Removed \cup {k}, g, With, graph)
          BY <1>9, <2>8, LeftWiden DEF LeftNow, g
    <3>. QED BY <2>9, <3>1 DEF Left
  <2>12. RetreatNow' /\ LeftNow'
         BY <1>1, <1>8, <2>7, <2>10, <2>11, Zenon DEF RetreatNow, LeftNow, g
  <2>13. DeletedSoFar' BY <2>12, DeleteCourseNext, Zenon
  <2>. QED BY <1>1, <1>6, <1>11, <2>3, <2>6, <2>13, DeleteDone
(* An edge to remove.                                                      *)
<1>13. CASE /\ U(k) # -1 /\ V(k) # -1 /\ U(k) < LV /\ V(k) < LV
            /\ th' = [th EXCEPT ![t] = go(k)]
  <2>. DEFINE l == go(k)
  <2>0. U(k) \in 0..LV - 1 /\ V(k) \in 0..LV - 1 BY <1>5, <1>13, Limits
  <2>1. /\ l \in Locals /\ l.pc = "forward" /\ l.k = k /\ l.u = U(k) /\ l.v = V(k)
        /\ l.mn = th[t].mn /\ l.mx = th[t].mx
        BY <1>3, <1>4, <1>5 DEF At, Locals
  <2>2. th' = [th EXCEPT ![t] = l] BY <1>13
  <2>. HIDE DEF l
  <2>3. Threaded' /\ Covered' /\ th'[t] = l /\ Others(th, th', t) /\ Loopless'
    <3>1. /\ l.pc \in {"idle"} \cup Deleting \cup {"store"}
          /\ l.u \in 0..LV - 1 /\ l.v \in 0..LV - 1
          BY <2>0, <2>1 DEF Deleting
    <3>. HIDE DEF Locals
    <3>. QED BY <1>1, <1>6, <1>10, <2>1, <2>2, <3>1, DeleteMove
  <2>4. th'[t].pc \in Deleting /\ th'[t].pc = "forward" /\ th'[t].k = k
        /\ th'[t].u = U(k) /\ th'[t].v = V(k)
        BY <2>1, <2>3 DEF Deleting
  <2>5. /\ Sharing(th', Deleting, todo \ {k}, all, nrem)
        /\ DoneIn(th', Deleting, todo \ {k}, all) = DoneIn(th, Deleting, todo, all)
        /\ Storing(th') = Storing(th) /\ Agree(th, th', Storing(th))
    <3>1. /\ k \in todo /\ IsFiniteSet(all) /\ Sharing(th, Deleting, todo, all, nrem)
          /\ Others(th, th', t) /\ "store" \notin Deleting
          /\ th[t].pc \notin Deleting /\ th[t].pc # "store"
          /\ th'[t].pc \in Deleting /\ th'[t].k = k
          BY <1>1, <1>2, <1>3, <2>3, <2>4
    <3>. HIDE DEF all
    <3>. QED BY <3>1, TakeShared
  <2>6. Sharing(th, Deleting, todo, DOMAIN Batch.del, nrem)' BY <1>1, <1>2, <2>5
  <2>7. Removed' = Removed BY <1>1, <1>2, <2>5 DEF Removed
  <2>8. Touching(th') = Touching(th)
    <3>1. th[t].pc \notin {"back", "count"} /\ th'[t].pc \notin {"back", "count"}
          BY <1>1, <2>4
    <3>. QED BY <2>3, <3>1, TouchingKept
  <2>9. g[th'[t].k] = <<th'[t].u, th'[t].v>> BY <1>7, <2>4
  <2>. HIDE DEF g
  <2>10. Retreat(th', Removed, g, nrem, rem)
    <3>1. Retreat(th, Removed, g, nrem, rem) BY <1>9 DEF RetreatNow, g
    <3>. QED BY <2>3, <2>5, <2>9, <3>1, RetreatMove
  <2>11. Left(th', Removed, g, With, graph)
         BY <1>9, <2>8 DEF LeftNow, g, Left
  <2>12. RetreatNow' /\ LeftNow'
         BY <1>1, <1>8, <2>7, <2>10, <2>11, Zenon DEF RetreatNow, LeftNow, g
  <2>13. DeletedSoFar' BY <2>12, DeleteCourseNext, Zenon
  <2>. QED BY <1>1, <1>6, <1>11, <2>3, <2>6, <2>13, DeleteDone
<1>. QED BY <1>2, <1>12, <1>13

(* A thread removes one direction and goes on to the label to.             *)
Erase(t, to) ==
  /\ pc = "delete" /\ th[t].pc = (IF to = "back" THEN "forward" ELSE "back")
  /\ IF to = "back" THEN RemoveEdge(th[t].u, th[t].v) ELSE RemoveEdge(th[t].v, th[t].u)
  /\ th' = [th EXCEPT ![t] = At(t, to)]
  /\ todo' = todo /\ vertex' = vertex /\ next_type' = next_type /\ dropped' = dropped
  /\ nincr' = nincr /\ incr' = incr /\ nrem' = nrem /\ rem' = rem /\ UNCHANGED stamps /\ before' = before

LEMMA DoErase ==
  ASSUME Work, NEW t \in Threads, NEW to \in {"back", "count"}, Erase(t, to),
         pc' = pc, Batch' = Batch, UNCHANGED <<session, conn, cur>>
  PROVE  Numbered' /\ Threaded' /\ Shared' /\ Covered' /\ Outcome'
<1>. DEFINE l == At(t, to)
            all == DOMAIN Batch.del
            e == IF to = "back" THEN <<th[t].u, th[t].v>> ELSE <<th[t].v, th[t].u>>
            g == Deletes
<1>0. /\ pc = "delete" /\ th[t].pc = (IF to = "back" THEN "forward" ELSE "back")
      /\ graph' = graph \ {e}
      /\ th' = [th EXCEPT ![t] = At(t, to)]
      /\ todo' = todo /\ vertex' = vertex /\ next_type' = next_type /\ dropped' = dropped
      /\ nincr' = nincr /\ incr' = incr /\ nrem' = nrem /\ rem' = rem /\ UNCHANGED stamps
      /\ before' = before
      BY DEF Erase, RemoveEdge
<1>1. /\ Sharing(th, Deleting, todo, all, nrem) /\ IsFiniteSet(all)
      /\ th[t] \in Locals /\ dropped \in BOOLEAN /\ "store" \notin Deleting
      /\ rem \in Seq(Entry) /\ nrem \in Nat /\ nrem <= Len(rem) /\ Len(rem) \in Nat
      BY <1>0, DeleteLoop
<1>2. th[t].u \in 0..LV - 1 /\ th[t].v \in 0..LV - 1 BY <1>0 DEF Work, Threaded
<1>3. e \in Edge BY <1>2 DEF Edge
<1>4. DeleteFrame BY <1>0 DEF DeleteFrame
<1>5. /\ l \in Locals /\ l.pc = to /\ l.k = th[t].k /\ l.u = th[t].u /\ l.v = th[t].v
      /\ l.mn = th[t].mn /\ l.mx = th[t].mx
      BY <1>1 DEF At, Locals
<1>6. th' = [th EXCEPT ![t] = l] BY <1>0
<1>. HIDE DEF l
<1>7. Threaded' /\ Covered' /\ th'[t] = l /\ Others(th, th', t) /\ Loopless'
  <2>1. /\ l.pc \in {"idle"} \cup Deleting \cup {"store"}
        /\ l.u \in 0..LV - 1 /\ l.v \in 0..LV - 1
        BY <1>2, <1>5 DEF Deleting
  <2>2. dropped' \in BOOLEAN /\ graph' \subseteq graph BY <1>0, <1>1
  <2>. HIDE DEF Locals
  <2>. QED BY <1>0, <1>4, <1>5, <1>6, <2>1, <2>2, DeleteMove
<1>8. th[t].pc \in Deleting /\ th'[t].pc \in Deleting /\ th'[t].k = th[t].k
      BY <1>0, <1>5, <1>7 DEF Deleting
<1>9. /\ Sharing(th', Deleting, todo, all, nrem)
      /\ DoneIn(th', Deleting, todo, all) = DoneIn(th, Deleting, todo, all)
      /\ Storing(th') = Storing(th) /\ Agree(th, th', Storing(th))
  <2>1. /\ IsFiniteSet(all) /\ Sharing(th, Deleting, todo, all, nrem) /\ Others(th, th', t)
        /\ "store" \notin Deleting
        /\ th[t].pc \in Deleting /\ th'[t].pc \in Deleting /\ th'[t].k = th[t].k
        BY <1>1, <1>7, <1>8
  <2>. HIDE DEF all
  <2>. QED BY <2>1, KeepShared
<1>10. Sharing(th, Deleting, todo, DOMAIN Batch.del, nrem)' BY <1>0, <1>9
<1>11. Removed' = Removed BY <1>0, <1>9 DEF Removed
<1>12. With' = With /\ Deletes' = Deletes BY <1>4, SameWith
<1>13. RetreatNow /\ LeftNow BY <1>0, DeleteCourse, Zenon
<1>14. th'[t].u = th[t].u /\ th'[t].v = th[t].v /\ th'[t].pc = to BY <1>5, <1>7
<1>. HIDE DEF g
<1>15. Retreat(th', Removed, g, nrem, rem)
  <2>1. Retreat(th, Removed, g, nrem, rem) BY <1>13 DEF RetreatNow, g
  <2>2. g[th'[t].k] = <<th'[t].u, th'[t].v>> BY <1>8, <1>14, <2>1 DEF Retreat
  <2>. QED BY <1>7, <1>9, <2>1, <2>2, RetreatMove
<1>16. Touching(th') = Touching(th) \cup {e}
  <2>1. CASE to = "back"
    <3>1. e = <<th[t].u, th[t].v>> /\ th[t].pc = "forward" /\ th'[t].pc = "back"
          BY <1>0, <1>14, <2>1
    <3>2. <<th[t].u, th[t].v>> \in Edge BY <1>3, <3>1
    <3>3. Touching(th') = Touching(th) \cup {<<th[t].u, th[t].v>>}
          BY <1>7, <1>14, <3>1, <3>2, TouchForward, Zenon
    <3>. QED BY <3>1, <3>3
  <2>2. CASE to = "count"
    <3>1. e = <<th[t].v, th[t].u>> /\ th[t].pc = "back" /\ th'[t].pc = "count"
          BY <1>0, <1>14, <2>2
    <3>2. <<th[t].v, th[t].u>> \in Edge BY <1>3, <3>1
    <3>3. Touching(th') = Touching(th) \cup {<<th[t].v, th[t].u>>}
          BY <1>7, <1>14, <3>1, <3>2, TouchBack, Zenon
    <3>. QED BY <3>1, <3>3
  <2>. QED BY <2>1, <2>2
<1>17. Left(th', Removed, g, With, graph')
  <2>. DEFINE T == Touched(Removed \cap Within(g), g)
  <2>1. graph = With \ (T \cup Touching(th)) BY <1>13 DEF LeftNow, Left, g
  <2>2. graph' = graph \ {e} BY <1>0
  <2>. HIDE DEF T, e
  <2>3. graph' = With \ (T \cup Touching(th')) BY <1>16, <2>1, <2>2
  <2>. QED BY <2>3 DEF Left, T
<1>18. RetreatNow' /\ LeftNow'
       BY <1>0, <1>11, <1>12, <1>15, <1>17, Zenon DEF RetreatNow, LeftNow, g
<1>19. DeletedSoFar' BY <1>18, DeleteCourseNext, Zenon
<1>20. rem' \in Seq(Entry) /\ Len(rem') = Len(rem) /\ nrem' \in 0..Len(rem) BY <1>0, <1>1
<1>. QED BY <1>0, <1>4, <1>7, <1>10, <1>19, <1>20, DeleteDone

LEMMA DoRemoveForward ==
  ASSUME Work, NEW t \in Threads, RemoveForward(t), pc' = pc, Batch' = Batch,
         UNCHANGED <<session, conn, cur>>
  PROVE  Numbered' /\ Threaded' /\ Shared' /\ Covered' /\ Outcome'
<1>1. Erase(t, "back") BY DEF Erase, RemoveForward, Runs, Main, accum, Move
<1>. QED BY <1>1, DoErase

LEMMA DoRemoveBack ==
  ASSUME Work, NEW t \in Threads, RemoveBack(t), pc' = pc, Batch' = Batch,
         UNCHANGED <<session, conn, cur>>
  PROVE  Numbered' /\ Threaded' /\ Shared' /\ Covered' /\ Outcome'
<1>1. Erase(t, "count") BY DEF Erase, RemoveBack, Runs, Main, accum, Move
<1>. QED BY <1>1, DoErase

LEMMA DoCountDeletion ==
  ASSUME Work, NEW t \in Threads, CountDeletion(t), pc' = pc, Batch' = Batch,
         UNCHANGED <<session, conn, cur>>
  PROVE  Numbered' /\ Threaded' /\ Shared' /\ Covered' /\ Outcome'
<1>. DEFINE l == [At(t, "store") EXCEPT !.k = nrem + 1]
            k == th[t].k
            all == DOMAIN Batch.del
            g == Deletes
<1>1. /\ pc = "delete" /\ th[t].pc = "count" /\ vertex' = vertex /\ graph' = graph
      /\ next_type' = next_type
      /\ todo' = todo /\ nincr' = nincr /\ incr' = incr /\ nrem' = nrem + 1 /\ rem' = rem
      /\ UNCHANGED stamps /\ dropped' = dropped /\ before' = before
      /\ Move(t, [At(t, "store") EXCEPT !.k = nrem + 1])
      BY Zenon DEF CountDeletion, Runs, store
<1>2. /\ Sharing(th, Deleting, todo, all, nrem) /\ IsFiniteSet(all) /\ all = 1..Len(Batch.del)
      /\ Cardinality(all) = Len(rem)
      /\ th[t] \in Locals /\ dropped \in BOOLEAN /\ "store" \notin Deleting
      /\ rem \in Seq(Entry) /\ nrem \in Nat /\ nrem <= Len(rem) /\ Len(rem) \in Nat
      BY <1>1, DeleteLoop
<1>3. th[t].u \in 0..LV - 1 /\ th[t].v \in 0..LV - 1 BY <1>1 DEF Work, Threaded
<1>4. DeleteFrame BY <1>1 DEF DeleteFrame
<1>5. /\ l \in Locals /\ l.pc = "store" /\ l.k = nrem + 1 /\ l.u = th[t].u /\ l.v = th[t].v
      /\ l.mn = th[t].mn /\ l.mx = th[t].mx
  <2>1. nrem + 1 \in Nat BY <1>2
  <2>. QED BY <1>2, <2>1 DEF At, Locals
<1>6. th' = [th EXCEPT ![t] = l] BY <1>1 DEF Move
<1>. HIDE DEF l
<1>7. Threaded' /\ Covered' /\ th'[t] = l /\ Others(th, th', t) /\ Loopless'
  <2>1. /\ l.pc \in {"idle"} \cup Deleting \cup {"store"}
        /\ l.u \in 0..LV - 1 /\ l.v \in 0..LV - 1
        BY <1>3, <1>5
  <2>2. dropped' \in BOOLEAN /\ graph' \subseteq graph BY <1>1, <1>2
  <2>. HIDE DEF Locals
  <2>. QED BY <1>1, <1>4, <1>5, <1>6, <2>1, <2>2, DeleteMove
<1>8. th[t].pc \in Deleting BY <1>1 DEF Deleting
<1>9. /\ Sharing(th', Deleting, todo, all, nrem + 1) /\ nrem + 1 <= Cardinality(all)
      /\ DoneIn(th', Deleting, todo, all) = DoneIn(th, Deleting, todo, all) \cup {k}
      /\ k \notin DoneIn(th, Deleting, todo, all)
      /\ Storing(th') = Storing(th) \cup {t} /\ Agree(th, th', Storing(th))
  <2>1. /\ IsFiniteSet(all) /\ Sharing(th, Deleting, todo, all, nrem) /\ Others(th, th', t)
        /\ "store" \notin Deleting
        /\ th[t].pc \in Deleting /\ th'[t].pc = "store" /\ th'[t].k = nrem + 1
        BY <1>2, <1>5, <1>7, <1>8
  <2>. HIDE DEF all
  <2>. QED BY <2>1, CountShared
<1>10. Sharing(th, Deleting, todo, DOMAIN Batch.del, nrem)' BY <1>1, <1>9
<1>11. Removed' = Removed \cup {k} /\ k \notin Removed BY <1>1, <1>9 DEF Removed
<1>12. k \in DOMAIN g
  <2>1. t \in Holding(th, Deleting) BY <1>8 DEF Holding
  <2>2. k \in all BY <1>2, <2>1 DEF Sharing
  <2>. QED BY <1>2, <2>2 DEF Deletes
<1>13. With' = With /\ Deletes' = Deletes BY <1>4, SameWith
<1>14. RetreatNow /\ LeftNow BY <1>1, DeleteCourse, Zenon
<1>. HIDE DEF g, k
<1>15. g[k] = <<th[t].u, th[t].v>> /\ g[k] \in Edge
  <2>1. g[k] = <<th[t].u, th[t].v>> BY <1>8, <1>14 DEF RetreatNow, Retreat, g, k
  <2>2. <<th[t].u, th[t].v>> \in Edge BY <1>3 DEF Edge
  <2>. QED BY <2>1, <2>2
<1>16. /\ th'[t].pc = "store" /\ th'[t].k = nrem + 1 /\ th'[t].u = th[t].u /\ th'[t].v = th[t].v
       BY <1>5, <1>7
<1>17. Retreat(th', Removed \cup {k}, g, nrem + 1, rem)
  <2>1. Retreat(th, Removed, g, nrem, rem) BY <1>14 DEF RetreatNow, g
  <2>2. IsFiniteSet(Removed) BY <1>2, AddedThere, FS_Subset
  <2>3. \A s \in Storing(th) : th[s].k \in 1..nrem BY <1>2 DEF Sharing
  <2>. QED BY <1>2, <1>7, <1>9, <1>11, <1>12, <1>15, <1>16, <2>1, <2>2, <2>3, RetreatCount
<1>18. Left(th', Removed \cup {k}, g, With, graph)
  <2>1. Left(th, Removed, g, With, graph) BY <1>14 DEF LeftNow, g
  <2>. QED BY <1>1, <1>7, <1>12, <1>15, <1>16, <2>1, LeftCount
<1>19. RetreatNow' /\ LeftNow'
       BY <1>1, <1>11, <1>13, <1>17, <1>18, Zenon DEF RetreatNow, LeftNow, g
<1>20. DeletedSoFar' BY <1>19, DeleteCourseNext, Zenon
<1>21. rem' \in Seq(Entry) /\ Len(rem') = Len(rem) /\ nrem' \in 0..Len(rem)
       BY <1>1, <1>2, <1>9
<1>. QED BY <1>1, <1>4, <1>7, <1>10, <1>20, <1>21, DeleteDone

LEMMA DoStoreDeletion ==
  ASSUME Work, NEW t \in Threads, StoreDeletion(t), pc' = pc, Batch' = Batch,
         UNCHANGED <<session, conn, cur>>
  PROVE  Numbered' /\ Threaded' /\ Shared' /\ Covered' /\ Outcome'
<1>. DEFINE l == At(t, "idle")
            all == DOMAIN Batch.del
            g == Deletes
<1>1. /\ pc = "delete" /\ th[t].pc = "store" /\ vertex' = vertex /\ graph' = graph
      /\ next_type' = next_type
      /\ todo' = todo /\ nincr' = nincr /\ incr' = incr /\ nrem' = nrem
      /\ UNCHANGED stamps /\ dropped' = dropped /\ before' = before
      /\ rem' = [rem EXCEPT ![th[t].k] = <<th[t].u, th[t].v>>]
      /\ Move(t, At(t, "idle"))
      BY Zenon DEF StoreDeletion, Runs, store
<1>2. /\ Sharing(th, Deleting, todo, all, nrem) /\ IsFiniteSet(all)
      /\ th[t] \in Locals /\ dropped \in BOOLEAN
      /\ "store" \notin Deleting /\ "idle" \notin Deleting
      /\ rem \in Seq(Entry) /\ nrem \in Nat /\ nrem <= Len(rem) /\ Len(rem) \in Nat
      BY <1>1, DeleteLoop
<1>3. <<th[t].u, th[t].v>> \in Edge BY <1>1 DEF Work, Threaded, Edge
<1>4. DeleteFrame BY <1>1 DEF DeleteFrame
<1>5. /\ l \in Locals /\ l.pc = "idle" /\ l.mn = th[t].mn /\ l.mx = th[t].mx
      BY <1>2 DEF At, Locals
<1>6. th' = [th EXCEPT ![t] = l] BY <1>1 DEF Move
<1>. HIDE DEF l
<1>7. Threaded' /\ Covered' /\ th'[t] = l /\ Others(th, th', t) /\ Loopless'
  <2>1. l.pc \in {"idle"} \cup Deleting \cup {"store"} BY <1>5
  <2>2. dropped' \in BOOLEAN /\ graph' \subseteq graph BY <1>1, <1>2
  <2>. HIDE DEF Locals
  <2>. QED BY <1>1, <1>4, <1>5, <1>6, <2>1, <2>2, DeleteMove
<1>8. t \in Storing(th) /\ th'[t].pc = "idle" BY <1>1, <1>5, <1>7 DEF Storing
<1>9. /\ Sharing(th', Deleting, todo, all, nrem)
      /\ DoneIn(th', Deleting, todo, all) = DoneIn(th, Deleting, todo, all)
      /\ Storing(th') = Storing(th) \ {t} /\ Agree(th, th', Storing(th'))
  <2>1. /\ IsFiniteSet(all) /\ Sharing(th, Deleting, todo, all, nrem) /\ Others(th, th', t)
        /\ "store" \notin Deleting
        /\ th[t].pc = "store" /\ th'[t].pc \notin Deleting /\ th'[t].pc # "store"
        BY <1>1, <1>2, <1>7, <1>8
  <2>. HIDE DEF all
  <2>. QED BY <2>1, StoreShared
<1>10. Sharing(th, Deleting, todo, DOMAIN Batch.del, nrem)' BY <1>1, <1>9
<1>11. Removed' = Removed BY <1>1, <1>9 DEF Removed
<1>12. With' = With /\ Deletes' = Deletes BY <1>4, SameWith
<1>13. RetreatNow /\ LeftNow BY <1>1, DeleteCourse, Zenon
<1>14. /\ \A s \in Storing(th) : th[s].k \in 1..nrem
       /\ \A r, s \in Storing(th) : th[r].k = th[s].k => r = s
       BY <1>2 DEF Sharing
<1>. HIDE DEF g
<1>15. Retreat(th', Removed, g, nrem, rem')
  <2>1. Retreat(th, Removed, g, nrem, rem) BY <1>13 DEF RetreatNow, g
  <2>. QED BY <1>1, <1>2, <1>7, <1>8, <1>9, <1>14, <2>1, RetreatStore
<1>16. Left(th', Removed, g, With, graph)
  <2>1. th[t].pc \notin {"back", "count"} /\ th'[t].pc \notin {"back", "count"} BY <1>1, <1>8
  <2>2. Touching(th') = Touching(th) BY <1>7, <2>1, TouchingKept
  <2>. QED BY <1>13, <2>2 DEF LeftNow, Left, g
<1>17. RetreatNow' /\ LeftNow'
       BY <1>1, <1>11, <1>12, <1>15, <1>16, Zenon DEF RetreatNow, LeftNow, g
<1>18. DeletedSoFar' BY <1>17, DeleteCourseNext, Zenon
<1>19. rem' \in Seq(Entry) /\ Len(rem') = Len(rem) /\ nrem' \in 0..Len(rem)
  <2>1. th[t].k \in 1..Len(rem) BY <1>2, <1>8, <1>14
  <2>2. nrem' \in 0..Len(rem) BY <1>1, <1>2
  <2>. QED BY <1>1, <1>2, <1>3, <2>1, <2>2, Placed
<1>. QED BY <1>1, <1>4, <1>7, <1>10, <1>18, <1>19, DeleteDone

------------------------------------------------------------------------------
(* The barriers and the end of the batch.                                  *)

(* Nobody is in an iteration.                                              *)
LEMMA AllIdle ==
  ASSUME \A t \in Threads : th[t].pc \in {"idle", "merged"},
         NEW H \in {Inserting, Deleting}, NEW all
  PROVE  /\ Holding(th, H) = {} /\ Storing(th) = {} /\ Touching(th) = {}
         /\ DoneIn(th, H, {}, all) = all /\ DoneIn(th, H, all, all) = {}
<1>1. Holding(th, H) = {} /\ Storing(th) = {} /\ Touching(th) = {}
      BY DEF Holding, Storing, Touching, Inserting, Deleting
<1>. QED BY <1>1 DEF DoneIn

(* What changes at the barriers: only where the program is.                *)
AtBarrier ==
  /\ Batch' = Batch /\ UNCHANGED <<session, conn, cur>>
  /\ vertex' = vertex /\ next_type' = next_type /\ graph' = graph /\ before' = before
  /\ dropped' = dropped
  /\ nincr' = nincr /\ incr' = incr /\ nrem' = nrem /\ rem' = rem

LEMMA BarrierFrame ==
  ASSUME Work, AtBarrier, pc \in InBatch, pc' \in InBatch
  PROVE  /\ Numbered' /\ Loopless' /\ With' = With /\ Inserts' = Inserts /\ Deletes' = Deletes
         /\ incr' \in Seq(Entry) /\ rem' \in Seq(Entry)
         /\ nincr' \in 0..Len(incr') /\ nrem' \in 0..Len(rem')
         /\ Len(incr') = Len(Batch'.ins) /\ Len(rem') = Len(Batch'.del)
         /\ graph' \subseteq Edge /\ before' \subseteq Edge /\ dropped' \in BOOLEAN
<1>1. /\ Batch' = Batch /\ vertex' = vertex /\ next_type' = next_type /\ graph' = graph
      /\ before' = before /\ nincr' = nincr /\ incr' = incr /\ nrem' = nrem /\ rem' = rem /\ dropped' = dropped
      BY DEF AtBarrier
<1>2. Inserts' = Inserts /\ Deletes' = Deletes BY <1>1, SameChanges
<1>3. With' = With BY <1>1, <1>2, Zenon DEF With
<1>4. Numbered' BY <1>1 DEF Work, Numbered
<1>5. Loopless' BY <1>1, Zenon DEF Work, Outcome, Loopless
<1>6. /\ incr \in Seq(Entry) /\ rem \in Seq(Entry) /\ nincr \in 0..Len(incr)
      /\ nrem \in 0..Len(rem) /\ Len(incr) = Len(Batch.ins) /\ Len(rem) = Len(Batch.del)
      BY Zenon DEF Work, Shared
<1>7. graph \subseteq Edge /\ before \subseteq Edge /\ dropped \in BOOLEAN
      BY Zenon DEF Work, Threaded
<1>. QED BY <1>1, <1>2, <1>3, <1>4, <1>5, <1>6, <1>7, Zenon

(* The dates of the batch are all known when the insertions are done.      *)
LEMMA SameDates ==
  ASSUME AtBarrier, pc # "insert" \/ todo = {}, pc' # "insert"
  PROVE  Dates' = Dates
<1>1. Batch' = Batch BY DEF AtBarrier
<1>2. Seen' = Seen BY <1>1 DEF Seen
<1>. QED BY <1>1, <1>2 DEF Dates

LEMMA BarrierCovered ==
  ASSUME Work, AtBarrier, pc \in {"insert", "delete"}, todo = {}, pc' \in {"delete", "stamps"},
         th' = th, UNCHANGED stamps, \A t \in Threads : th[t].pc = "idle"
  PROVE  Covered'
<1>1. Dates' = Dates BY SameDates
<1>2. pc \in InBatch /\ pc' # "finish" BY DEF InBatch
<1>3. mints' = mints /\ maxts' = maxts BY DEF stamps
<1>. QED BY <1>1, <1>2, <1>3 DEF Work, Covered

LEMMA DoEndInsertions ==
  ASSUME Work, EndInsertions, Batch' = Batch
  PROVE  Numbered' /\ Threaded' /\ Shared' /\ Covered' /\ Outcome'
<1>. DEFINE all == DOMAIN Batch.del
            N == DOMAIN Batch.ins
<1>1. /\ pc = "insert" /\ todo = {} /\ pc' = "delete" /\ todo' = all /\ th' = th
      /\ UNCHANGED stamps /\ AtBarrier
      BY DEF EndInsertions, Barrier, AtBarrier, store, accum
<1>2. \A t \in Threads : th[t].pc = "idle" BY Zenon DEF EndInsertions, Barrier
<1>3. Covered' BY <1>1, <1>2, BarrierCovered
<1>4. /\ Numbered' /\ Loopless' /\ With' = With /\ Inserts' = Inserts /\ Deletes' = Deletes
      /\ incr' \in Seq(Entry) /\ rem' \in Seq(Entry)
      /\ nincr' \in 0..Len(incr') /\ nrem' \in 0..Len(rem')
      /\ Len(incr') = Len(Batch'.ins) /\ Len(rem') = Len(Batch'.del)
      /\ graph' \subseteq Edge /\ before' \subseteq Edge /\ dropped' \in BOOLEAN
  <2>1. pc \in InBatch /\ pc' \in InBatch BY <1>1 DEF InBatch
  <2>. QED BY <1>1, <2>1, BarrierFrame, Zenon
<1>5. Threaded'
  <2>1. th \in [Threads -> Locals] BY DEF Work, Threaded
  <2>2. "idle" \in Stages' BY <1>1 DEF Stages
  <2>3. \A t \in Threads : th'[t].pc \in Stages' BY <1>1, <1>2, <2>2
  <2>4. pc' \in {"insert", "delete", "stamps"} BY <1>1
  <2>5. \A t \in Threads :
          th'[t].pc \notin {"forward", "back", "count", "store"} /\ th'[t].pc # "destination"
        BY <1>1, <1>2
  <2>. QED BY <1>1, <1>4, <2>1, <2>3, <2>4, <2>5, Zenon DEF Threaded
<1>6. /\ Storing(th) = {} /\ Touching(th) = {} /\ Holding(th, Deleting) = {}
      /\ DoneIn(th, Inserting, {}, N) = N /\ DoneIn(th, Deleting, all, all) = {}
  <2>1. \A t \in Threads : th[t].pc \in {"idle", "merged"} BY <1>2
  <2>2. Inserting \in {Inserting, Deleting} /\ Deleting \in {Inserting, Deleting} OBVIOUS
  <2>. HIDE DEF N, all
  <2>. QED BY <2>1, <2>2, AllIdle
<1>7. nrem = 0 BY <1>1 DEF Work, Shared
<1>8. nrem' = 0 BY <1>1, <1>7 DEF AtBarrier
<1>9. Sharing(th, Deleting, todo, DOMAIN Batch.del, nrem)'
  <2>1. Sharing(th, Deleting, all, all, 0)
    <3>1. Cardinality({}) = 0 BY FS_EmptySet
    <3>. HIDE DEF all
    <3>. QED BY <1>6, <3>1 DEF Sharing
  <2>. QED BY <1>1, <1>8, <2>1 DEF AtBarrier
<1>10. Shared'
  <2>1. pc' # "insert" /\ pc' \in {"insert", "delete"} BY <1>1
  <2>. QED BY <1>1, <1>4, <1>9, <2>1, Zenon DEF Shared
<1>11. Removed' = {} BY <1>1, <1>6 DEF Removed, AtBarrier
<1>12. Added = N BY <1>1, <1>6 DEF Added
<1>13. Course(th, N, Inserts, nincr, incr, before, graph)
       BY <1>1, <1>12, InsertCourse, Zenon DEF CourseNow
<1>14. N = DOMAIN Inserts
  <2>1. DOMAIN Batch.ins = 1..Len(Batch.ins) BY <1>1, Current DEF Work, InBatch
  <2>. QED BY <2>1 DEF Inserts
<1>. DEFINE W == Within(Inserts)
<1>15. N \cap W = W BY <1>14 DEF Within
<1>16. /\ Accounted(th, W, Inserts, nincr, incr)
                /\ graph = before \cup Proper(Touched(W, Inserts) \cup Touching(th))
       BY <1>13, <1>15, Zenon DEF Course
<1>17. graph = With
  <2>1. Touched(W, Inserts) \cup Touching(th) = Touched(W, Inserts) BY <1>6
  <2>. QED BY <1>16, <2>1 DEF With
<1>18. Inserted'
  <2>. HIDE DEF W
  <2>1. nincr = Cardinality(W) /\ {incr[w] : w \in 1..nincr} = {Inserts[k] : k \in W}
    <3>1. Storing(th) = {} /\ Accounted(th, W, Inserts, nincr, incr) BY <1>6, <1>16
    <3>. HIDE DEF W
    <3>. QED BY <3>1, AccountedFor
  <2>2. nincr' = nincr /\ incr' = incr /\ next_type' = next_type BY <1>1 DEF AtBarrier
  <2>. QED BY <1>4, <2>1, <2>2, Zenon DEF Inserted, W
<1>19. DeletedSoFar'
  <2>1. \A t \in Threads : th[t].pc \notin Deleting BY <1>2 DEF Deleting
  <2>2. {} \cap Within(Deletes) = {} OBVIOUS
  <2>3. RetreatNow'
    <3>1. Accounted(th, {}, Deletes, 0, rem) BY <1>6, AccountedNone
    <3>2. Retreat(th, {}, Deletes, 0, rem) BY <2>1, <2>2, <3>1 DEF Retreat
    <3>3. rem' = rem BY <1>1 DEF AtBarrier
    <3>. QED BY <1>1, <1>4, <1>8, <1>11, <3>2, <3>3, Zenon DEF RetreatNow
  <2>4. Left(th, {}, Deletes, With, graph)
    <3>1. Touched({}, Deletes) = {} BY DEF Touched
    <3>2. With \ (Touched({} \cap Within(Deletes), Deletes) \cup Touching(th)) = With
          BY <1>6, <2>2, <3>1
    <3>. QED BY <1>17, <3>2 DEF Left
  <2>5. LeftNow'
    <3>1. graph' = graph BY <1>1 DEF AtBarrier
    <3>. QED BY <1>1, <1>4, <1>11, <2>4, <3>1, Zenon DEF LeftNow
  <2>. QED BY <2>3, <2>5, DeleteCourseNext, Zenon
<1>20. pc' # "insert" /\ pc' \notin {"stamps", "finish"} BY <1>1
<1>21. Outcome' BY <1>4, <1>18, <1>19, <1>20, Zenon DEF Outcome, InsertedSoFar, Deleted
<1>. QED BY <1>3, <1>4, <1>5, <1>10, <1>21

LEMMA DoEndDeletions ==
  ASSUME Work, EndDeletions, Batch' = Batch
  PROVE  Numbered' /\ Threaded' /\ Shared' /\ Covered' /\ Outcome'
<1>. DEFINE all == DOMAIN Batch.del
            W == Within(Deletes)
<1>1. /\ pc = "delete" /\ todo = {} /\ pc' = "stamps" /\ todo' = todo /\ th' = th
      /\ UNCHANGED stamps /\ AtBarrier
      BY DEF EndDeletions, Barrier, AtBarrier, store, accum, rest
<1>2. \A t \in Threads : th[t].pc = "idle" BY Zenon DEF EndDeletions, Barrier
<1>3. Covered' BY <1>1, <1>2, BarrierCovered
<1>4. /\ Numbered' /\ Loopless' /\ With' = With /\ Inserts' = Inserts /\ Deletes' = Deletes
      /\ incr' \in Seq(Entry) /\ rem' \in Seq(Entry)
      /\ nincr' \in 0..Len(incr') /\ nrem' \in 0..Len(rem')
      /\ Len(incr') = Len(Batch'.ins) /\ Len(rem') = Len(Batch'.del)
      /\ graph' \subseteq Edge /\ before' \subseteq Edge /\ dropped' \in BOOLEAN
  <2>1. pc \in InBatch /\ pc' \in InBatch BY <1>1 DEF InBatch
  <2>. QED BY <1>1, <2>1, BarrierFrame, Zenon
<1>5. Threaded'
  <2>1. th \in [Threads -> Locals] BY DEF Work, Threaded
  <2>2. "idle" \in Stages' BY <1>1 DEF Stages
  <2>3. \A t \in Threads : th'[t].pc \in Stages' BY <1>1, <1>2, <2>2
  <2>4. pc' \in {"insert", "delete", "stamps"} BY <1>1
  <2>5. \A t \in Threads :
          th'[t].pc \notin {"forward", "back", "count", "store"} /\ th'[t].pc # "destination"
        BY <1>1, <1>2
  <2>. QED BY <1>1, <1>4, <2>1, <2>3, <2>4, <2>5, Zenon DEF Threaded
<1>6. /\ Storing(th) = {} /\ Touching(th) = {} /\ DoneIn(th, Deleting, {}, all) = all
  <2>1. \A t \in Threads : th[t].pc \in {"idle", "merged"} BY <1>2
  <2>2. Deleting \in {Inserting, Deleting} OBVIOUS
  <2>. HIDE DEF all
  <2>. QED BY <2>1, <2>2, AllIdle
<1>7. Shared'
  <2>1. pc' # "insert" /\ pc' # "delete" BY <1>1
  <2>. QED BY <1>1, <1>4, <2>1, Zenon DEF Shared
<1>8. Removed = all BY <1>1, <1>6 DEF Removed
<1>9. RetreatNow /\ LeftNow BY <1>1, DeleteCourse, Zenon
<1>10. all \cap W = W
  <2>1. all = 1..Len(Batch.del) BY <1>1, Current DEF Work, InBatch
  <2>2. all = DOMAIN Deletes BY <2>1 DEF Deletes
  <2>. QED BY <2>2 DEF Within
<1>11. Accounted(th, W, Deletes, nrem, rem) BY <1>8, <1>9, <1>10 DEF RetreatNow, Retreat
<1>12. graph = With \ Touched(W, Deletes)
  <2>1. Touched(W, Deletes) \cup Touching(th) = Touched(W, Deletes) BY <1>6
  <2>. QED BY <1>8, <1>9, <1>10, <2>1 DEF LeftNow, Left
<1>. HIDE DEF W
<1>13. nrem = Cardinality(W) /\ {rem[w] : w \in 1..nrem} = {Deletes[k] : k \in W}
       BY <1>6, <1>11, AccountedFor
<1>14. /\ nincr' = nincr /\ incr' = incr /\ nrem' = nrem /\ rem' = rem /\ next_type' = next_type
       /\ graph' = graph
       BY <1>1 DEF AtBarrier
<1>15. Deleted' BY <1>4, <1>12, <1>13, <1>14, Zenon DEF Deleted, W
<1>16. pc \in {"delete", "stamps", "finish"} BY <1>1
<1>17. Inserted' BY <1>4, <1>14, <1>16, Zenon DEF Work, Outcome, Inserted
<1>18. pc' # "insert" /\ pc' # "delete" BY <1>1
<1>19. Outcome' BY <1>4, <1>15, <1>17, <1>18, Zenon DEF Outcome, InsertedSoFar, DeletedSoFar
<1>. QED BY <1>3, <1>4, <1>5, <1>7, <1>19

(* From the last barrier on only the stamps change.                        *)
LEMMA LateFrame ==
  ASSUME Work, AtBarrier, pc = "stamps", pc' \in {"stamps", "finish"}, todo' = todo
  PROVE  /\ Numbered' /\ Shared' /\ Outcome' /\ Dates' = Dates
         /\ graph' \subseteq Edge /\ before' \subseteq Edge /\ dropped' \in BOOLEAN
<1>1. pc \in InBatch /\ pc' \in InBatch /\ pc' # "insert" /\ pc' # "delete" /\ pc # "insert"
      BY DEF InBatch
<1>2. /\ Numbered' /\ Loopless' /\ With' = With /\ Inserts' = Inserts /\ Deletes' = Deletes
      /\ incr' \in Seq(Entry) /\ rem' \in Seq(Entry)
      /\ nincr' \in 0..Len(incr') /\ nrem' \in 0..Len(rem')
      /\ Len(incr') = Len(Batch'.ins) /\ Len(rem') = Len(Batch'.del)
      /\ graph' \subseteq Edge /\ before' \subseteq Edge /\ dropped' \in BOOLEAN
      BY <1>1, BarrierFrame, Zenon
<1>3. todo' = {} BY DEF Work, Shared
<1>4. Shared' BY <1>1, <1>2, <1>3, Zenon DEF Shared
<1>5. /\ nincr' = nincr /\ incr' = incr /\ nrem' = nrem /\ rem' = rem /\ next_type' = next_type
      /\ graph' = graph
      BY DEF AtBarrier
<1>6. pc \in {"stamps", "finish"} /\ pc \in {"delete", "stamps", "finish"} OBVIOUS
<1>7. Inserted' BY <1>2, <1>5, <1>6, Zenon DEF Work, Outcome, Inserted
<1>8. Deleted' BY <1>2, <1>5, <1>6, Zenon DEF Work, Outcome, Deleted
<1>9. Outcome' BY <1>1, <1>2, <1>7, <1>8, Zenon DEF Outcome, InsertedSoFar, DeletedSoFar
<1>10. Dates' = Dates BY <1>1, SameDates
<1>. QED BY <1>2, <1>4, <1>9, <1>10

LEMMA Dated ==
  ASSUME Work, pc \in InBatch
  PROVE  /\ Dates \subseteq Nat /\ mints \in {MaxTime} \cup Dates /\ maxts \in {0} \cup Dates
         /\ mints \in Nat /\ maxts \in Nat /\ MaxTime \in Nat
         /\ \A t \in Threads : /\ th[t].mn \in {MaxTime} \cup Dates /\ th[t].mx \in {0} \cup Dates
                               /\ th[t].mn \in Nat /\ th[t].mx \in Nat
         /\ \A x \in Dates : \/ Covers(mints, maxts, x)
                             \/ \E t \in Threads : /\ th[t].pc # "merged" /\ pc # "finish"
                                                   /\ Covers(th[t].mn, th[t].mx, x)
<1>1. \A k \in 1..Len(Batch.ins) : Batch.ins[k].time \in 0..MaxTime
      BY Current DEF Work
<1>2. MaxTime \in Nat BY Limits
<1>3. Seen \subseteq 1..Len(Batch.ins) BY DEF Seen
<1>4. Dates \subseteq Nat BY <1>1, <1>2, <1>3 DEF Dates
<1>5. /\ mints \in {MaxTime} \cup Dates /\ maxts \in {0} \cup Dates
      /\ \A t \in Threads : th[t].mn \in {MaxTime} \cup Dates /\ th[t].mx \in {0} \cup Dates
      BY Zenon DEF Work, Covered
<1>6. \A x \in Dates : \/ Covers(mints, maxts, x)
                        \/ \E t \in Threads : /\ th[t].pc # "merged" /\ pc # "finish"
                                              /\ Covers(th[t].mn, th[t].mx, x)
      BY Zenon DEF Work, Covered
<1>7. {MaxTime} \cup Dates \subseteq Nat /\ {0} \cup Dates \subseteq Nat BY <1>2, <1>4
<1>8. mints \in Nat /\ maxts \in Nat /\ \A t \in Threads : th[t].mn \in Nat /\ th[t].mx \in Nat
      BY <1>5, <1>7, Zenon
<1>. QED BY <1>2, <1>4, <1>5, <1>6, <1>8, Zenon

LEMMA DoMergeStamps ==
  ASSUME Work, NEW t \in Threads, MergeStamps(t), pc' = pc, Batch' = Batch,
         UNCHANGED <<session, conn, cur>>
  PROVE  Numbered' /\ Threaded' /\ Shared' /\ Covered' /\ Outcome'
<1>. DEFINE l == At(t, "merged")
<1>1. /\ pc = "stamps" /\ th[t].pc = "idle" /\ todo' = todo /\ AtBarrier
      /\ maxts' = (IF th[t].mx > maxts THEN th[t].mx ELSE maxts)
      /\ mints' = (IF th[t].mn < mints THEN th[t].mn ELSE mints)
      /\ th' = [th EXCEPT ![t] = l]
      BY DEF MergeStamps, Runs, store, accum, AtBarrier, Move
<1>2. pc' \in {"stamps", "finish"} BY <1>1
<1>3. /\ Numbered' /\ Shared' /\ Outcome' /\ Dates' = Dates
      /\ graph' \subseteq Edge /\ before' \subseteq Edge /\ dropped' \in BOOLEAN
      BY <1>1, <1>2, LateFrame, Zenon
<1>4. th[t] \in Locals BY DEF Work, Threaded
<1>5. l \in Locals /\ l.pc = "merged" /\ l.mn = th[t].mn /\ l.mx = th[t].mx
      BY <1>4 DEF At, Locals
<1>. HIDE DEF l
<1>6. Threaded' /\ th'[t] = l /\ Others(th, th', t)
  <2>1. pc \in {"insert", "delete", "stamps"} /\ Threaded /\ l.pc \in Stages
        BY <1>1, <1>5 DEF Work, Stages
  <2>2. l.pc \notin {"forward", "back", "count", "store"} /\ l.pc # "destination" BY <1>5
  <2>3. before' = before BY <1>1 DEF AtBarrier
  <2>. HIDE DEF Locals
  <2>. QED BY <1>1, <1>3, <1>5, <2>1, <2>2, <2>3, MoveThreaded
<1>7. /\ Dates \subseteq Nat /\ mints \in {MaxTime} \cup Dates /\ maxts \in {0} \cup Dates
      /\ mints \in Nat /\ maxts \in Nat /\ MaxTime \in Nat
      /\ \A s \in Threads : /\ th[s].mn \in {MaxTime} \cup Dates /\ th[s].mx \in {0} \cup Dates
                            /\ th[s].mn \in Nat /\ th[s].mx \in Nat
      /\ \A x \in Dates : \/ Covers(mints, maxts, x)
                          \/ \E s \in Threads : /\ th[s].pc # "merged" /\ pc # "finish"
                                                /\ Covers(th[s].mn, th[s].mx, x)
      BY <1>1, Dated DEF InBatch
<1>8. mints' \in {MaxTime} \cup Dates /\ maxts' \in {0} \cup Dates BY <1>1, <1>7
<1>9. \A s \in Threads : th'[s].mn = th[s].mn /\ th'[s].mx = th[s].mx
      BY <1>5, <1>6 DEF Others
<1>10. \A x \in Dates : /\ Covers(mints, maxts, x) => Covers(mints', maxts', x)
                        /\ Covers(th[t].mn, th[t].mx, x) => Covers(mints', maxts', x)
       BY <1>1, <1>7 DEF Covers
<1>11. ASSUME NEW x \in Dates
       PROVE  \/ Covers(mints', maxts', x)
              \/ \E s \in Threads : /\ th'[s].pc # "merged" /\ pc' # "finish"
                                    /\ Covers(th'[s].mn, th'[s].mx, x)
  <2>1. CASE Covers(mints, maxts, x) BY <1>10, <2>1
  <2>2. CASE \E s \in Threads : th[s].pc # "merged" /\ Covers(th[s].mn, th[s].mx, x)
    <3>1. PICK s \in Threads : th[s].pc # "merged" /\ Covers(th[s].mn, th[s].mx, x) BY <2>2
    <3>2. CASE s = t BY <1>10, <3>1, <3>2
    <3>3. CASE s # t
      <4>1. th'[s] = th[s] /\ pc' # "finish" BY <1>1, <1>6, <3>3 DEF Others
      <4>. QED BY <3>1, <4>1
    <3>. QED BY <3>2, <3>3
  <2>. QED BY <1>7, <2>1, <2>2
<1>12. Covered' BY <1>3, <1>7, <1>8, <1>9, <1>11 DEF Covered
<1>. QED BY <1>3, <1>6, <1>12

LEMMA IdleLocals == Idle \in Locals /\ Idle.mn = MaxTime /\ Idle.mx = 0 /\ Idle.pc = "idle"
BY Limits DEF Idle, Locals

LEMMA DoEndRegion ==
  ASSUME Work, EndRegion, Batch' = Batch
  PROVE  Numbered' /\ Threaded' /\ Shared' /\ Covered' /\ Outcome'
<1>1. /\ pc = "stamps" /\ pc' = "finish" /\ todo' = todo /\ AtBarrier /\ UNCHANGED stamps
      /\ th' = [t \in Threads |-> Idle]
      BY DEF EndRegion, store, accum, AtBarrier
<1>2. \A t \in Threads : th[t].pc = "merged" BY Zenon DEF EndRegion
<1>3. pc' \in {"stamps", "finish"} BY <1>1
<1>4. /\ Numbered' /\ Shared' /\ Outcome' /\ Dates' = Dates
      /\ graph' \subseteq Edge /\ before' \subseteq Edge /\ dropped' \in BOOLEAN
      BY <1>1, <1>3, LateFrame, Zenon
<1>5. \A t \in Threads : th'[t] = Idle BY <1>1
<1>6. Threaded'
  <2>1. th' \in [Threads -> Locals] BY <1>1, IdleLocals
  <2>2. pc' \notin {"insert", "delete", "stamps"} BY <1>1
  <2>3. "idle" \in Stages' BY <2>2 DEF Stages
  <2>4. \A t \in Threads : /\ th'[t].pc \in Stages' /\ th'[t].pc # "destination"
                           /\ th'[t].pc \notin {"forward", "back", "count", "store"}
        BY <1>5, <2>3, IdleLocals
  <2>. QED BY <1>4, <1>5, <2>1, <2>4, Zenon DEF Threaded
<1>7. pc \in InBatch BY <1>1 DEF InBatch
<1>8. /\ mints \in {MaxTime} \cup Dates /\ maxts \in {0} \cup Dates
      /\ \A x \in Dates : Covers(mints, maxts, x)
      BY <1>2, <1>7, Dated
<1>9. mints' = mints /\ maxts' = maxts BY <1>1 DEF stamps
<1>10. \A t \in Threads : th'[t].mn \in {MaxTime} \cup Dates /\ th'[t].mx \in {0} \cup Dates
       BY <1>5, IdleLocals
<1>11. Covered' BY <1>4, <1>8, <1>9, <1>10 DEF Covered
<1>. QED BY <1>4, <1>6, <1>11

------------------------------------------------------------------------------
(* Before a batch and after it.                                            *)

LEMMA Outside ==
  ASSUME Work, UNCHANGED rest, pc \notin {"insert", "delete", "stamps"}, pc' \notin InBatch
  PROVE  Numbered' /\ Threaded' /\ Shared' /\ Covered' /\ Outcome'
<1>1. /\ vertex' = vertex /\ graph' = graph /\ next_type' = next_type /\ todo' = todo /\ th' = th
      /\ nincr' = nincr /\ incr' = incr /\ nrem' = nrem /\ rem' = rem
      /\ dropped' = dropped /\ before' = before
      BY DEF rest, store, accum
<1>2. pc' \notin {"insert", "delete", "stamps", "finish"} BY DEF InBatch
<1>3. Numbered' BY <1>1 DEF Work, Numbered
<1>4. Threaded'
  <2>1. /\ th \in [Threads -> Locals] /\ dropped \in BOOLEAN
        /\ \A t \in Threads : th[t] = Idle
        /\ graph \subseteq Edge /\ before \subseteq Edge
        BY Zenon DEF Work, Threaded
  <2>2. "idle" \in Stages' BY <1>2 DEF Stages
  <2>3. \A t \in Threads : /\ th[t].pc \in Stages' /\ th[t].pc # "destination"
                           /\ th[t].pc \notin {"forward", "back", "count", "store"}
        BY <2>1, <2>2, IdleLocals
  <2>. QED BY <1>1, <2>1, <2>3, Zenon DEF Threaded
<1>5. Shared'
  <2>1. /\ todo = {} /\ incr \in Seq(Entry) /\ rem \in Seq(Entry)
        /\ nincr \in 0..Len(incr) /\ nrem \in 0..Len(rem)
        BY DEF Work, Shared
  <2>2. pc' # "insert" /\ pc' # "delete" BY <1>2
  <2>. QED BY <1>1, <2>1, <2>2, Zenon DEF Shared
<1>6. Covered' BY DEF Covered
<1>7. Loopless' BY <1>1, Zenon DEF Work, Outcome, Loopless
<1>8. /\ pc' # "insert" /\ pc' # "delete" /\ pc' \notin {"delete", "stamps", "finish"}
      /\ pc' \notin {"stamps", "finish"}
      BY <1>2
<1>9. Outcome'
      BY <1>7, <1>8, Zenon DEF Outcome, InsertedSoFar, Inserted, DeletedSoFar, Deleted
<1>. QED BY <1>3, <1>4, <1>5, <1>6, <1>9

(* An array without entries.                                               *)
LEMMA Blank ==
  ASSUME NEW s, DOMAIN s = 1..Len(s), Len(s) \in Nat
  PROVE  /\ [w \in DOMAIN s |-> <<>>] \in Seq(Entry)
         /\ Len([w \in DOMAIN s |-> <<>>]) = Len(s)
<1>1. <<>> \in Entry BY DEF Entry
<1>. HIDE DEF Entry
<1>. QED BY <1>1

(* A batch begins.                                                         *)
LEMMA DoStart ==
  ASSUME Work, Receive, pc' = "insert"
  PROVE  Numbered' /\ Threaded' /\ Shared' /\ Covered' /\ Outcome'
<1>. DEFINE N == DOMAIN Batch.ins
<1>0. pc = "body" /\ UNCHANGED <<session, conn, cur>> BY DEF Receive
<1>1. Batch' = Batch BY <1>0, SameBatch
<1>2. /\ todo' = N /\ nincr' = 0 /\ nrem' = 0
      /\ incr' = [w \in DOMAIN Batch.ins |-> <<>>] /\ rem' = [w \in DOMAIN Batch.del |-> <<>>]
      /\ mints' = MaxTime /\ maxts' = 0 /\ before' = graph
      /\ vertex' = vertex /\ next_type' = next_type /\ graph' = graph /\ th' = th /\ dropped' = dropped
  <2>1. ~(Batch.ins = <<>> /\ Batch.del = <<>>) BY DEF Receive
  <2>. QED BY <2>1 DEF Receive, store
<1>3. /\ N = 1..Len(Batch.ins) /\ DOMAIN Batch.del = 1..Len(Batch.del)
      /\ Len(Batch.ins) \in Nat /\ Len(Batch.del) \in Nat
      BY <1>0, Current DEF Work
<1>4. /\ incr' \in Seq(Entry) /\ rem' \in Seq(Entry)
      /\ Len(incr') = Len(Batch.ins) /\ Len(rem') = Len(Batch.del)
      BY <1>2, <1>3, Blank
<1>5. /\ th \in [Threads -> Locals] /\ dropped \in BOOLEAN
      /\ \A t \in Threads : th[t] = Idle
      /\ graph \subseteq Edge
      BY <1>0, Zenon DEF Work, Threaded
<1>6. Numbered' BY <1>2 DEF Work, Numbered
<1>7. Threaded'
  <2>1. "idle" \in Stages' BY DEF Stages
  <2>2. \A t \in Threads : /\ th[t].pc \in Stages' /\ th[t].pc # "destination"
                           /\ th[t].pc \notin {"forward", "back", "count", "store"}
        BY <1>5, <2>1, IdleLocals
  <2>3. pc' \in {"insert", "delete", "stamps"} OBVIOUS
  <2>. QED BY <1>2, <1>5, <2>2, <2>3, Zenon DEF Threaded
<1>8. /\ Storing(th) = {} /\ Touching(th) = {} /\ Holding(th, Inserting) = {}
      /\ DoneIn(th, Inserting, N, N) = {}
  <2>1. \A t \in Threads : th[t].pc \in {"idle", "merged"} BY <1>5, IdleLocals
  <2>2. Inserting \in {Inserting, Deleting} OBVIOUS
  <2>. HIDE DEF N
  <2>. QED BY <2>1, <2>2, AllIdle
<1>9. Sharing(th, Inserting, todo, DOMAIN Batch.ins, nincr)'
  <2>1. Sharing(th, Inserting, N, N, 0)
    <3>1. Cardinality({}) = 0 BY FS_EmptySet
    <3>. HIDE DEF N
    <3>. QED BY <1>8, <3>1 DEF Sharing
  <2>. QED BY <1>1, <1>2, <2>1
<1>10. Shared'
  <2>1. pc' \in {"insert", "delete"} /\ pc' # "delete" OBVIOUS
  <2>2. nincr' \in 0..Len(incr') /\ nrem' \in 0..Len(rem') BY <1>2, <1>3, <1>4
  <2>. QED BY <1>1, <1>2, <1>4, <1>9, <2>1, <2>2, Zenon DEF Shared
<1>11. Covered'
  <2>1. Seen' = {} BY <1>1, <1>2, <1>3 DEF Seen
  <2>2. Dates' = {} BY <2>1 DEF Dates
  <2>3. \A t \in Threads : th'[t].mn = MaxTime /\ th'[t].mx = 0 BY <1>2, <1>5, IdleLocals
  <2>. QED BY <1>2, <2>2, <2>3 DEF Covered
<1>12. InsertedSoFar'
  <2>1. Added' = {} BY <1>1, <1>2, <1>8 DEF Added
  <2>. DEFINE g == Inserts'
  <2>. HIDE DEF g
  <2>2. {} \cap Within(g) = {} /\ Touched({}, g) = {} /\ Proper({}) = {}
        BY DEF Touched, Proper
  <2>3. Accounted(th, {}, g, 0, incr') BY <1>8, AccountedNone
  <2>4. \A t \in Threads : th[t].pc \notin {"destination", "forward", "back", "count"}
        BY <1>5, IdleLocals
  <2>5. graph = graph \cup Proper(Touched({} \cap Within(g), g) \cup Touching(th))
        BY <1>8, <2>2
  <2>6. Course(th, {}, g, 0, incr', graph, graph) BY <2>2, <2>3, <2>4, <2>5 DEF Course
  <2>7. CourseNow' BY <1>2, <2>1, <2>6, Zenon DEF CourseNow, g
  <2>. QED BY <2>7, InsertCourseNext, Zenon
<1>13. Loopless' BY <1>2 DEF Work, Outcome, Loopless
<1>14. /\ pc' # "delete" /\ pc' \notin {"delete", "stamps", "finish"}
       /\ pc' \notin {"stamps", "finish"}
       OBVIOUS
<1>15. Outcome' BY <1>12, <1>13, <1>14, Zenon DEF Outcome, Inserted, DeletedSoFar, Deleted
<1>. QED BY <1>6, <1>7, <1>10, <1>11, <1>15

------------------------------------------------------------------------------
(* Every step.                                                             *)

LEMMA DoWorker ==
  ASSUME Work, NEW t \in Threads, Worker(t)
  PROVE  Numbered' /\ Threaded' /\ Shared' /\ Covered' /\ Outcome'
<1>1. pc' = pc /\ UNCHANGED <<session, conn, cur>> BY Working
<1>2. Batch' = Batch BY <1>1, SameBatch
<1>3. CASE TakeInsertion(t) BY <1>1, <1>2, <1>3, DoTakeInsertion
<1>4. CASE InsertSource(t) BY <1>1, <1>2, <1>4, DoInsertSource
<1>5. CASE InsertDestination(t) BY <1>1, <1>2, <1>5, DoInsertDestination
<1>6. CASE Forward(t) BY <1>1, <1>2, <1>6, DoForward
<1>7. CASE Back(t) BY <1>1, <1>2, <1>7, DoBack
<1>8. CASE CountInsertion(t) BY <1>1, <1>2, <1>8, DoCountInsertion
<1>9. CASE StoreInsertion(t) BY <1>1, <1>2, <1>9, DoStoreInsertion
<1>10. CASE TakeDeletion(t) BY <1>1, <1>2, <1>10, DoTakeDeletion
<1>11. CASE RemoveForward(t) BY <1>1, <1>2, <1>11, DoRemoveForward
<1>12. CASE RemoveBack(t) BY <1>1, <1>2, <1>12, DoRemoveBack
<1>13. CASE CountDeletion(t) BY <1>1, <1>2, <1>13, DoCountDeletion
<1>14. CASE StoreDeletion(t) BY <1>1, <1>2, <1>14, DoStoreDeletion
<1>15. CASE MergeStamps(t) BY <1>1, <1>2, <1>15, DoMergeStamps
<1>. QED BY <1>3, <1>4, <1>5, <1>6, <1>7, <1>8, <1>9, <1>10, <1>11, <1>12, <1>13, <1>14,
            <1>15, Zenon DEF Worker

LEMMA DoMain ==
  ASSUME Work, MainThread \/ Arrive
  PROVE  Numbered' /\ Threaded' /\ Shared' /\ Covered' /\ Outcome'
<1>1. CASE EndInsertions
  <2>1. UNCHANGED <<session, conn, cur>> BY <1>1 DEF EndInsertions
  <2>. QED BY <1>1, <2>1, SameBatch, DoEndInsertions
<1>2. CASE EndDeletions
  <2>1. UNCHANGED <<session, conn, cur>> BY <1>2 DEF EndDeletions
  <2>. QED BY <1>2, <2>1, SameBatch, DoEndDeletions
<1>3. CASE EndRegion
  <2>1. UNCHANGED <<session, conn, cur>> BY <1>3 DEF EndRegion
  <2>. QED BY <1>3, <2>1, SameBatch, DoEndRegion
<1>4. CASE Receive
  <2>1. pc = "body" /\ (pc' = "insert" \/ (pc' \in {"prefix", "accept"} /\ UNCHANGED rest))
        BY <1>4 DEF Receive
  <2>2. CASE pc' = "insert" BY <1>4, <2>2, DoStart
  <2>3. CASE pc' \in {"prefix", "accept"} /\ UNCHANGED rest
    <3>1. pc \notin {"insert", "delete", "stamps"} /\ pc' \notin InBatch
          BY <2>1, <2>3 DEF InBatch
    <3>. QED BY <2>3, <3>1, Outside
  <2>. QED BY <2>1, <2>2, <2>3
<1>5. CASE \/ Accept \/ Arrive \/ ReadPrefix \/ ShortPrefix \/ ReadJunk \/ ReadClosed
           \/ Refuse \/ ShortBody \/ Finish
  <2>1. /\ UNCHANGED rest /\ pc \notin {"insert", "delete", "stamps"}
        /\ pc' \in {"accept", "prefix", "body", "junk", "exited"}
        BY <1>5 DEF Accept, Arrive, ReadPrefix, ShortPrefix, ReadJunk, ReadClosed, Refuse,
                    ShortBody, Finish, Fail
  <2>2. pc' \notin InBatch BY <2>1 DEF InBatch
  <2>. QED BY <2>1, <2>2, Outside
<1>. QED BY <1>1, <1>2, <1>3, <1>4, <1>5, Zenon DEF MainThread

LEMMA DoNothing ==
  ASSUME Work, UNCHANGED vars
  PROVE  Numbered' /\ Threaded' /\ Shared' /\ Covered' /\ Outcome'
<1>1. /\ session' = session /\ conn' = conn /\ pc' = pc /\ cur' = cur
      /\ vertex' = vertex /\ graph' = graph /\ next_type' = next_type /\ todo' = todo /\ th' = th
      /\ nincr' = nincr /\ incr' = incr /\ nrem' = nrem /\ rem' = rem
      /\ mints' = mints /\ maxts' = maxts /\ dropped' = dropped /\ before' = before
      BY DEF vars, net, store, accum, stamps
<1>2. Batch' = Batch BY <1>1, SameBatch
<1>3. Inserts' = Inserts /\ Deletes' = Deletes BY <1>1, <1>2, SameChanges
<1>4. Numbered' BY <1>1 DEF Work, Numbered
<1>5. Threaded'
  <2>1. Stages' = Stages BY <1>1, Zenon DEF Stages
  <2>. QED BY <1>1, <2>1, Zenon DEF Work, Threaded
<1>6. Shared' BY <1>1, <1>2, Zenon DEF Work, Shared
<1>7. Covered'
  <2>1. Seen' = Seen BY <1>1, <1>2, Zenon DEF Seen
  <2>2. Dates' = Dates BY <1>2, <2>1, Zenon DEF Dates
  <2>. QED BY <1>1, <2>2, Zenon DEF Work, Covered
<1>8. Added' = Added /\ Removed' = Removed BY <1>1, <1>2, Zenon DEF Added, Removed
<1>9. With' = With BY <1>1, <1>3, Zenon DEF With
<1>10. InsertedSoFar' BY <1>1, <1>3, <1>8, Zenon DEF Work, Outcome, InsertedSoFar
<1>11. Inserted' BY <1>1, <1>3, Zenon DEF Work, Outcome, Inserted
<1>12. DeletedSoFar' BY <1>1, <1>3, <1>8, <1>9, Zenon DEF Work, Outcome, DeletedSoFar
<1>13. Deleted' BY <1>1, <1>3, <1>9, Zenon DEF Work, Outcome, Deleted
<1>14. Loopless' BY <1>1, Zenon DEF Work, Outcome, Loopless
<1>. QED BY <1>4, <1>5, <1>6, <1>7, <1>10, <1>11, <1>12, <1>13, <1>14 DEF Outcome

LEMMA WorkInit == Init => Work
<1>. SUFFICES ASSUME Init PROVE Work OBVIOUS
<1>1. /\ pc = "accept" /\ graph = {} /\ todo = {} /\ th = [t \in Threads |-> Idle]
      /\ nincr = 0 /\ incr = <<>> /\ nrem = 0 /\ rem = <<>> /\ dropped = FALSE /\ before = {}
      BY DEF Init
<1>2. pc \notin {"insert", "delete", "stamps"} /\ pc \notin InBatch
      /\ pc # "insert" /\ pc # "delete" /\ pc \notin {"delete", "stamps", "finish"}
      /\ pc \notin {"stamps", "finish"} /\ pc \notin {"insert", "delete"}
      BY <1>1 DEF InBatch
<1>3. Threaded
  <2>1. "idle" \in Stages BY <1>2 DEF Stages
  <2>2. th \in [Threads -> Locals] /\ \A t \in Threads : th[t] = Idle BY <1>1, IdleLocals
  <2>3. \A t \in Threads : /\ th[t].pc \in Stages /\ th[t].pc # "destination"
                           /\ th[t].pc \notin {"forward", "back", "count", "store"}
        BY <2>1, <2>2, IdleLocals
  <2>4. dropped \in BOOLEAN /\ graph \subseteq Edge /\ before \subseteq Edge BY <1>1
  <2>. QED BY <2>2, <2>3, <2>4 DEF Threaded
<1>4. Shared
  <2>1. incr \in Seq(Entry) /\ rem \in Seq(Entry) /\ nincr \in 0..Len(incr)
        /\ nrem \in 0..Len(rem)
        BY <1>1
  <2>. QED BY <1>1, <1>2, <2>1, Zenon DEF Shared
<1>5. Covered BY <1>2 DEF Covered
<1>6. Outcome
  <2>1. Loopless BY <1>1 DEF Loopless
  <2>. QED BY <1>2, <2>1, Zenon DEF Outcome, InsertedSoFar, Inserted, DeletedSoFar, Deleted
<1>. QED BY <1>3, <1>4, <1>5, <1>6, FramedInit, NumberedInit DEF Work

LEMMA Invariance == Spec => []SInv
<1>1. Init => SInv BY WorkInit, InStepInit DEF SInv
<1>2. SInv /\ [Next]_vars => SInv'
  <2>. SUFFICES ASSUME Work, InStep, [Next]_vars PROVE SInv' BY DEF SInv
  <2>1. Framed' /\ InStep' BY FramedStep, InStepStep DEF Work
  <2>2. Numbered' /\ Threaded' /\ Shared' /\ Covered' /\ Outcome'
    <3>1. CASE MainThread \/ Arrive BY <3>1, DoMain
    <3>2. CASE \E t \in Threads : Worker(t)
      <4>1. PICK t \in Threads : Worker(t) BY <3>2
      <4>. QED BY <4>1, DoWorker
    <3>3. CASE Over \/ UNCHANGED vars
      <4>1. UNCHANGED vars BY <3>3 DEF Over
      <4>. QED BY <4>1, DoNothing
    <3>. QED BY <3>1, <3>2, <3>3, Zenon DEF Next
  <2>. QED BY <2>1, <2>2 DEF Work, SInv
<1>. QED BY <1>1, <1>2, PTL DEF Spec

------------------------------------------------------------------------------
(* The theorems.                                                           *)

(* The variables have their types: what is read is a unit of the stream,   *)
(* the map has given out the numbers below its count only, edges join      *)
(* vertices of the array, and the arrays of changes are long enough for    *)
(* their counts.                                                           *)
THEOREM TypeCorrect == Spec => []TypeOK
<1>1. SInv => TypeOK
  <2>. SUFFICES ASSUME Work PROVE TypeOK BY DEF SInv
  <2>1. /\ session \in Sessions /\ conn \in 0..Len(session) /\ pc \in Labels /\ cur \in Nat
        /\ nfail \in 0..3 /\ short \in BOOLEAN
        /\ {sent, got} \subseteq [msg : Nat \ {0}, part : Nat]
        BY Zenon DEF Work, Framed
  <2>2. next_type \in Nat /\ vertex \in [Names -> {-1} \cup 0..next_type - 1]
        BY Zenon DEF Work, Numbered
  <2>3. th \in [Threads -> Locals] /\ dropped \in BOOLEAN /\ graph \subseteq Edge
        BY Zenon DEF Work, Threaded
  <2>4. /\ incr \in Seq(Entry) /\ rem \in Seq(Entry)
        /\ nincr \in 0..Len(incr) /\ nrem \in 0..Len(rem)
        BY Zenon DEF Work, Shared
  <2>5. DOMAIN incr \subseteq Nat /\ DOMAIN rem \subseteq Nat BY <2>4
  <2>6. todo \subseteq Nat
    <3>1. CASE pc \notin {"insert", "delete"} BY <3>1 DEF Work, Shared
    <3>2. CASE pc \in {"insert", "delete"}
      <4>1. todo \subseteq DOMAIN Batch.ins \/ todo \subseteq DOMAIN Batch.del
            BY <3>2 DEF Work, Shared, Sharing
      <4>2. DOMAIN Batch.ins \subseteq Nat /\ DOMAIN Batch.del \subseteq Nat
            BY <3>2, Current DEF Work, InBatch
      <4>. QED BY <4>1, <4>2
    <3>. QED BY <3>1, <3>2
  <2>. QED BY <2>1, <2>2, <2>3, <2>4, <2>5, <2>6, Zenon DEF TypeOK
<1>. QED BY <1>1, Invariance, PTL

(* Wherever a read ends within a message, a client leaves or a message     *)
(* does not parse: the server loses its place in the stream only after a   *)
(* read that ended within a message, and until then it takes the messages  *)
(* of a connection in order, none twice and none left out that parses.     *)
THEOREM StepKept == Spec => []KeepsStep
<1>1. SInv => KeepsStep
  <2>. SUFFICES ASSUME SInv, ~short, NEW x \in DOMAIN handled
       PROVE  LET c == handled[x][1]
                  m == handled[x][2]
              IN  /\ session[c].messages[m].parses
                  /\ \A y \in 1..x - 1 : handled[y][1] = c => handled[y][2] < m
                  /\ \A l \in 1..m - 1 : session[c].messages[l].parses =>
                       \E y \in 1..x - 1 : handled[y] = <<c, l>>
       BY Zenon DEF SInv, InStep, KeepsStep
  <2>. DEFINE c == handled[x][1]
              m == handled[x][2]
  <2>1. handled \in Seq(Nat \X (Nat \ {0})) /\ Order /\ Complete /\ session[c].messages[m].parses
        BY DEF SInv, InStep
  <2>2. /\ Len(handled) \in Nat /\ DOMAIN handled = 1..Len(handled)
        /\ \A y \in DOMAIN handled : handled[y][2] \in Nat
        BY <2>1
  <2>3. \A y \in 1..x - 1 : y \in DOMAIN handled /\ y < x BY <2>2
  <2>4. \A y \in 1..x - 1 : handled[y][1] = c => handled[y][2] < m BY <2>1, <2>3 DEF Order
  <2>5. ASSUME NEW l \in 1..m - 1, session[c].messages[l].parses
        PROVE  \E y \in 1..x - 1 : handled[y] = <<c, l>>
    <3>1. PICK y \in DOMAIN handled : handled[y] = <<c, l>> BY <2>1, <2>5 DEF Complete
    <3>2. handled[y][1] = c /\ handled[y][2] < m BY <2>2, <3>1
    <3>3. y # x BY <2>2, <3>2
    <3>4. ~(x < y) BY <2>1, <2>2, <3>2 DEF Order
    <3>5. y \in 1..x - 1 BY <2>2, <3>3, <3>4
    <3>. QED BY <3>1, <3>5
  <2>. QED BY <2>1, <2>4, <2>5
<1>. QED BY <1>1, Invariance, PTL

(* The range of timestamps that is reported: that of the insertions, and   *)
(* empty if there are none.                                                *)
StampsCover ==
  pc = "finish" =>
    LET times == {Batch.ins[k].time : k \in DOMAIN Batch.ins}
    IN  /\ times = {} <=> mints > maxts
        /\ times # {} => {mints, maxts} \subseteq times /\ \A x \in times : mints <= x /\ x <= maxts

(* Whichever threads took the insertions, the range of timestamps that a   *)
(* batch reports is right.                                                 *)
THEOREM StampsRight == Spec => []StampsCover
<1>1. SInv => StampsCover
  <2>. SUFFICES ASSUME Work, pc = "finish"
       PROVE  LET times == {Batch.ins[k].time : k \in DOMAIN Batch.ins}
              IN  /\ times = {} <=> mints > maxts
                  /\ times # {} => /\ {mints, maxts} \subseteq times
                                   /\ \A x \in times : mints <= x /\ x <= maxts
       BY DEF SInv, StampsCover
  <2>. DEFINE times == {Batch.ins[k].time : k \in DOMAIN Batch.ins}
  <2>1. pc \in InBatch BY DEF InBatch
  <2>2. times = Dates
    <3>1. Seen = DOMAIN Batch.ins BY <2>1, Current DEF Seen, Work
    <3>. QED BY <3>1 DEF Dates
  <2>3. /\ Dates \subseteq Nat /\ mints \in {MaxTime} \cup Dates /\ maxts \in {0} \cup Dates
        /\ mints \in Nat /\ maxts \in Nat
        /\ \A x \in Dates : Covers(mints, maxts, x)
        BY <2>1, Dated
  <2>4. \A x \in Dates : x <= MaxTime
    <3>1. \A k \in DOMAIN Batch.ins : Batch.ins[k].time \in 0..MaxTime
          BY <2>1, Current DEF Work
    <3>. QED BY <2>2, <3>1, Limits
  <2>. HIDE DEF times
  <2>5. /\ times = {} <=> mints > maxts
        /\ times # {} => /\ {mints, maxts} \subseteq times
                         /\ \A x \in times : mints <= x /\ x <= maxts
    <3>1. CASE times = {}
      <4>1. mints = MaxTime /\ maxts = 0 BY <2>2, <2>3, <3>1
      <4>. QED BY <3>1, <4>1, Limits
    <3>2. CASE times # {}
      <4>1. PICK x \in Dates : TRUE BY <2>2, <3>2
      <4>2. mints <= x /\ x <= maxts /\ x \in Nat /\ x <= MaxTime BY <2>3, <2>4 DEF Covers
      <4>3. ~(mints > maxts) BY <2>3, <4>2
      <4>4. mints \in Dates BY <2>3, <4>2, Limits
      <4>5. maxts \in Dates BY <2>3, <4>2
      <4>6. \A y \in times : mints <= y /\ y <= maxts BY <2>2, <2>3 DEF Covers
      <4>. QED BY <2>2, <3>2, <4>3, <4>4, <4>5, <4>6
    <3>. QED BY <3>1, <3>2
  <2>. QED BY <2>5 DEF times
<1>. QED BY <1>1, Invariance, PTL

(* What clients ask for is what the loops do, unless an insertion of a     *)
(* MIXED batch names its destination by a string: the server then maps     *)
(* another string (DestinationOf), and the outcome is a different one.     *)
PlainDestinations ==
  \A s \in Sessions : \A c \in DOMAIN s : \A m \in DOMAIN s[c].messages :
    s[c].messages[m].type = "MIXED" =>
      \A k \in DOMAIN s[c].messages[m].ins : s[c].messages[m].ins[k].destination \notin Names

LEMMA Plainly ==
  ASSUME PlainDestinations, Work, pc = "finish"
  PROVE  /\ DOMAIN Inserts = DOMAIN Batch.ins /\ DOMAIN Deletes = DOMAIN Batch.del
         /\ \A k \in DOMAIN Batch.ins :
              Inserts[k] = <<Found(Source(Batch.ins[k])), Found(Destination(Batch.ins[k]))>>
         /\ \A k \in DOMAIN Batch.del :
              Deletes[k] = <<Found(Source(Batch.del[k])), Found(Destination(Batch.del[k]))>>
<1>1. /\ conn > 0 /\ conn \in Nat /\ cur \in 1..Len(Here.messages)
      /\ DOMAIN Batch.ins = 1..Len(Batch.ins) /\ DOMAIN Batch.del = 1..Len(Batch.del)
      BY Current DEF Work, InBatch
<1>2. session \in Sessions /\ conn \in DOMAIN session
  <2>1. session \in Seq(Connections) BY ServerOK DEF Work, Framed
  <2>2. conn \in 0..Len(session) BY DEF Work, Framed
  <2>. HIDE DEF Connections
  <2>. QED BY <1>1, <2>1, <2>2 DEF Work, Framed
<1>3. cur \in DOMAIN session[conn].messages
  <2>1. Here.messages \in Seq(Batches) BY <1>1, Sent DEF Work
  <2>. HIDE DEF Batches
  <2>. QED BY <1>1, <2>1 DEF Here
<1>4. Batch.type = "MIXED" => \A k \in DOMAIN Batch.ins : Batch.ins[k].destination \notin Names
      BY <1>2, <1>3, Zenon DEF PlainDestinations, Batch, Here
<1>5. \A k \in DOMAIN Batch.ins : DestinationOf(Batch.ins[k]) = Destination(Batch.ins[k])
      BY <1>4 DEF DestinationOf
<1>. QED BY <1>1, <1>5 DEF Inserts, Deletes

LEMMA Wanting ==
  ASSUME NEW list, NEW g, DOMAIN g = DOMAIN list,
         \A k \in DOMAIN list : g[k] = Ends(list[k])
  PROVE  /\ Accepted(list) = Within(g) /\ Pairs(list) = {g[k] : k \in Within(g)}
         /\ BothWays(Pairs(list)) = Proper(Touched(Within(g), g))
<1>1. Accepted(list) = Within(g) BY DEF Accepted, Within
<1>2. Pairs(list) = {g[k] : k \in Within(g)}
  <2>1. \A k \in Within(g) : g[k] = Ends(list[k]) BY DEF Within
  <2>. QED BY <1>1, <2>1 DEF Pairs
<1>. DEFINE P == {g[k] : k \in Within(g)}
<1>3. \A e \in P : e \in Edge /\ <<e[2], e[1]>> \in Edge BY DEF Within, Edge
<1>4. BothWays(P) = Proper(Touched(Within(g), g))
  <2>1. \A e : e \in P \cup {<<d[2], d[1]>> : d \in P} <=> e \in Touched(Within(g), g)
        BY <1>3 DEF Touched
  <2>. QED BY <2>1 DEF BothWays, Proper
<1>. QED BY <1>1, <1>2, <1>4

(* The arrays handed to the analyses hold every accepted change, without a *)
(* gap and without one written over another, however the threads race for  *)
(* the places.                                                             *)
THEOREM ChangesAccumulated == PlainDestinations => (Spec => []AccumulatedAll)
<1>. SUFFICES ASSUME PlainDestinations PROVE Spec => []AccumulatedAll OBVIOUS
<1>1. SInv => AccumulatedAll
  <2>. SUFFICES ASSUME Work, pc = "finish"
       PROVE  /\ nincr = Cardinality(Accepted(Batch.ins))
              /\ nrem = Cardinality(Accepted(Batch.del))
              /\ {incr[w] : w \in 1..nincr} = Pairs(Batch.ins)
              /\ {rem[w] : w \in 1..nrem} = Pairs(Batch.del)
       BY Zenon DEF SInv, AccumulatedAll
  <2>1. /\ Accepted(Batch.ins) = Within(Inserts) /\ Accepted(Batch.del) = Within(Deletes)
        /\ Pairs(Batch.ins) = {Inserts[k] : k \in Within(Inserts)}
        /\ Pairs(Batch.del) = {Deletes[k] : k \in Within(Deletes)}
        BY Plainly, Wanting DEF Ends
  <2>2. /\ nincr = Cardinality(Within(Inserts))
        /\ {incr[w] : w \in 1..nincr} = {Inserts[k] : k \in Within(Inserts)}
        BY Zenon DEF Work, Outcome, Inserted
  <2>3. /\ nrem = Cardinality(Within(Deletes))
        /\ {rem[w] : w \in 1..nrem} = {Deletes[k] : k \in Within(Deletes)}
        BY Zenon DEF Work, Outcome, Deleted
  <2>. QED BY <2>1, <2>2, <2>3, Zenon
<1>. QED BY <1>1, Invariance, PTL

(* Whatever the threads do at once, a batch adds all its edges in both     *)
(* directions and then removes those it deletes.                           *)
THEOREM BatchApplied == PlainDestinations => (Spec => []BatchOutcome)
<1>. SUFFICES ASSUME PlainDestinations PROVE Spec => []BatchOutcome OBVIOUS
<1>1. SInv => BatchOutcome
  <2>. SUFFICES ASSUME Work, pc = "finish"
       PROVE  graph = (before \cup BothWays(Pairs(Batch.ins))) \ BothWays(Pairs(Batch.del))
       BY Zenon DEF SInv, BatchOutcome
  <2>1. /\ BothWays(Pairs(Batch.ins)) = Proper(Touched(Within(Inserts), Inserts))
        /\ BothWays(Pairs(Batch.del)) = Proper(Touched(Within(Deletes), Deletes))
        BY Plainly, Wanting DEF Ends
  <2>2. graph = With \ Touched(Within(Deletes), Deletes) BY Zenon DEF Work, Outcome, Deleted
  <2>3. \A e \in With : e[1] # e[2] BY DEF With, Proper, Work, Outcome, Loopless
  <2>4. graph = With \ Proper(Touched(Within(Deletes), Deletes)) BY <2>2, <2>3 DEF Proper
  <2>. QED BY <2>1, <2>4 DEF With
<1>. QED BY <1>1, Invariance, PTL
==============================================================================

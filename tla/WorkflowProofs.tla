--------------------------- MODULE WorkflowProofs ----------------------------
(***************************************************************************)
(* Proofs about Workflow: its types, the stages of its participants and    *)
(* that it implements Lifecycle, and that each batch is applied once.  The *)
(* invariant says of every place of the two arrays which stage its entry   *)
(* has reached, by the loop in progress and its index.                     *)
(***************************************************************************)
EXTENDS Workflow, SequenceTheorems, TLAPS

Distinct(array) == \A k, l \in 1..Len(array) : array[k] = array[l] => k = l
In(p, array)    == \E k \in 1..Len(array) : array[k] = p

(* The stage of the stream in place k, and of the algorithm in place k.    *)
StreamStage(k) ==
  IF pc \in {"register", "args"} \/ (pc = "init_streams" /\ k >= i) THEN "registered"
  ELSE IF pc = "cleanup_algs" \/ (pc = "cleanup_streams" /\ k < i) THEN "cleaned" ELSE "ready"
AlgStage(k) ==
  IF pc \in {"register", "args", "init_streams"} \/ (pc = "init_algs" /\ k >= j) THEN "registered"
  ELSE IF pc = "cleanup_algs" /\ k < j THEN "cleaned" ELSE "ready"

(* The stages of those who are in no array.                                *)
Outside ==
  IF pc = "register" THEN {"absent"}
  ELSE IF pc \in {"args", "init_streams", "init_algs"} THEN {"absent", "dropped"}
  ELSE {"absent", "dropped", "cleaned"}

Stages == {"absent", "registered", "dropped", "ready", "cleaned"}

(* Whoever was initialized is cleaned up by the end of the run.            *)
CleanedAtEnd == pc = "done" => \A p \in Participants : life[p] # "ready"

(* The indices are reset where a loop begins.                              *)
Indexed ==
  /\ pc \in {"register", "args"} => i = 1
  /\ pc \in {"register", "args", "init_streams", "cleanup_streams"} => j = 1
  /\ pc = "cleanup_streams" => i >= 1

Staged ==
  /\ life \in [Participants -> Stages]
  /\ Distinct(streams) /\ Distinct(algs)
  /\ pc # "done" =>
       /\ \A k \in 1..Len(streams) : life[streams[k]] = StreamStage(k)
       /\ \A k \in 1..Len(algs) : life[algs[k]] = AlgStage(k)
       /\ \A p \in Participants : In(p, streams) \/ In(p, algs) \/ life[p] \in Outside
  /\ CleanedAtEnd

(* The position of a binary stream is that of a batch, and lies before the *)
(* end until the stream is taken out.                                      *)
Positioned ==
  /\ \A s \in Streams : setup[s].kind = "binary" =>
       \E q \in Nat : actno[s] = q * setup[s].size
  /\ \A s \in Streams : Writer(s) /\ setup[s].kind = "binary" =>
       \/ actno[s] < RecordedEnd(s)
       \/ pc = "remove_stream" /\ s = streams[i]
       \/ pc # "register" /\ ~In(s, streams)
  /\ pc = "register" => \A s \in Streams : actno[s] = 0

(* From the stream to the end of apply, the counted actions are all fresh  *)
(* and of one stream.                                                      *)
Buffered ==
  /\ actions_len <= Len(actions)
  /\ (\A s \in Streams : ~Writer(s)) => actions_len = 0
  /\ Uniform /\ LongEnough /\ pc \in {"remove_stream", "before", "remove_before", "apply"} =>
       \E s \in Streams : \A k \in 1..actions_len : actions[k] = Fresh(s)

(* Only the entry the loop is about to remove has asked to be, and the run *)
(* has returned only when it is done.                                      *)
Asked ==
  /\ call.what = "return" => pc = "done"
  /\ L!Due => pc \in {"remove_stream", "remove_before", "remove_after"}
  /\ pc = "remove_stream" => call.who = streams[i]
  /\ pc \in {"remove_before", "remove_after"} => call.who = algs[j]

WInv == TypeOK /\ Indexed /\ Staged /\ Positioned /\ Buffered /\ Asked
------------------------------------------------------------------------------
(* The arrays.                                                             *)

(* An entry is taken out and the ones behind it move down.                 *)
LEMMA Unregistered ==
  ASSUME NEW S, NEW a \in Seq(S), NEW n \in 1..Len(a)
  PROVE  /\ Unregister(a, n) \in Seq(S) /\ Len(Unregister(a, n)) = Len(a) - 1
         /\ \A k \in 1..Len(a) - 1 :
              Unregister(a, n)[k] = IF k < n THEN a[k] ELSE a[k + 1]
<1>1. Len(a) \in Nat /\ Len(a) - 1 \in Nat OBVIOUS
<1>2. \A k \in 1..Len(a) - 1 : (IF k < n THEN a[k] ELSE a[k + 1]) \in S OBVIOUS
<1>. QED BY <1>1, <1>2 DEF Unregister

LEMMA Shortened ==
  ASSUME NEW S, NEW a \in Seq(S), NEW n \in 1..Len(a), Distinct(a)
  PROVE  /\ Distinct(Unregister(a, n))
         /\ \A p : In(p, a) <=> In(p, Unregister(a, n)) \/ p = a[n]
         /\ ~In(a[n], Unregister(a, n))
<1>. DEFINE b == Unregister(a, n)
<1>0. Len(a) \in Nat OBVIOUS
<1>1. /\ Len(b) = Len(a) - 1 /\ Len(a) \in Nat
      /\ \A k \in 1..Len(a) - 1 : b[k] = IF k < n THEN a[k] ELSE a[k + 1]
      BY <1>0, Unregistered, Zenon
<1>. HIDE DEF b
<1>2. Distinct(b) BY <1>1 DEF Distinct
<1>3. ASSUME NEW p, In(p, a), p # a[n] PROVE In(p, b)
  <2>1. PICK k \in 1..Len(a) : a[k] = p BY <1>3 DEF In
  <2>2. k # n BY <2>1, <1>3
  <2>3. CASE k < n BY <1>1, <2>1, <2>3 DEF In
  <2>4. CASE k > n
    <3>1. k - 1 \in 1..Len(b) /\ b[k - 1] = p BY <1>1, <2>1, <2>4
    <3>. QED BY <3>1 DEF In
  <2>. QED BY <2>2, <2>3, <2>4
<1>4. ASSUME NEW p, In(p, b) PROVE In(p, a) /\ p # a[n]
  <2>1. PICK k \in 1..Len(b) : b[k] = p BY <1>4 DEF In
  <2>. QED BY <1>1, <2>1 DEF In, Distinct
<1>5. In(a[n], a) BY DEF In
<1>. QED BY <1>2, <1>3, <1>4, <1>5 DEF b


(* What a stream writes is fresh, and there is room for it.                *)
LEMMA Resizes ==
  ASSUME TypeOK, NEW n \in Nat
  PROVE  /\ Len(Resized(n)) = n
         /\ Resized(n) \in Seq([by : Streams \cup {"nobody"}, applied : BOOLEAN])
<1>. DEFINE Action == [by : Streams \cup {"nobody"}, applied : BOOLEAN]
<1>1. Garbage \in Action BY DEF Garbage
<1>2. actions \in Seq(Action) BY DEF TypeOK
<1>. HIDE DEF Action
<1>3. \A k \in 1..n : (IF k <= Len(actions) THEN actions[k] ELSE Garbage) \in Action BY <1>1, <1>2
<1>4. Len(Resized(n)) = n /\ Resized(n) \in Seq(Action) BY <1>3 DEF Resized
<1>. QED BY <1>4 DEF Action

LEMMA Written ==
  ASSUME TypeOK, actions_len <= Len(actions), NEW s \in Streams, NEW n \in Nat, NEW w \in Nat,
         w <= n, Writes(s, n, w)
  PROVE  /\ actions' \in Seq([by : Streams \cup {"nobody"}, applied : BOOLEAN])
         /\ actions_len' = n /\ actions_len' <= Len(actions')
         /\ \A k \in 1..w : actions'[k] = Fresh(s)
<1>. DEFINE Action == [by : Streams \cup {"nobody"}, applied : BOOLEAN]
            room == IF actions_len < n THEN Resized(n) ELSE actions
<1>1. Fresh(s) \in Action BY DEF Fresh
<1>2. actions \in Seq(Action) /\ actions_len \in Nat BY DEF TypeOK
<1>3. Len(Resized(n)) = n /\ Resized(n) \in Seq(Action) BY Resizes
<1>4. /\ actions' = [k \in DOMAIN room |-> IF k <= w THEN Fresh(s) ELSE room[k]]
      /\ actions_len' = n
      BY DEF Writes
<1>. HIDE DEF Action
<1>5. room \in Seq(Action) /\ n <= Len(room) BY <1>2, <1>3
<1>. HIDE DEF room
<1>6. \A k \in 1..Len(room) : (IF k <= w THEN Fresh(s) ELSE room[k]) \in Action BY <1>1, <1>5
<1>7. DOMAIN room = 1..Len(room) /\ Len(room) \in Nat BY <1>5
<1>8. actions' \in Seq(Action) /\ Len(actions') = Len(room)
      BY <1>4, <1>6, <1>7
<1>9. \A k \in 1..w : actions'[k] = Fresh(s) BY <1>4, <1>5, <1>7
<1>. QED BY <1>4, <1>5, <1>8, <1>9 DEF Action

------------------------------------------------------------------------------
(* The positions of a binary stream.                                       *)

LEMMA Multiples ==
  ASSUME NEW n \in Nat \ {0}, NEW r \in Nat, NEW q \in Nat, q * n < ((r + n - 1) \div n) * n
  PROVE  q * n < r
<1>. DEFINE d == (r + n - 1) \div n
<1>1. d \in Int /\ d * n <= r + n - 1 OBVIOUS
<1>2. q * n < d * n OBVIOUS
<1>. HIDE DEF d
<1>3. q < d
  <2>. SUFFICES ASSUME d <= q PROVE FALSE BY <1>1
  <2>1. d * n <= q * n BY <1>1
  <2>. QED BY <1>1, <1>2, <2>1
<1>4. (q + 1) * n <= d * n BY <1>1, <1>3
<1>5. (q + 1) * n = q * n + n OBVIOUS
<1>6. q * n \in Int /\ d * n \in Int BY <1>1
<1>. QED BY <1>1, <1>4, <1>5, <1>6

LEMMA Setup ==
  ASSUME TypeOK, NEW s \in Streams
  PROVE  setup[s] \in StreamSetups
BY SetupsOK DEF TypeOK

LEMMA BeforeTheRows ==
  ASSUME TypeOK, NEW s \in Streams, NEW q \in Nat, q * setup[s].size < RecordedEnd(s)
  PROVE  q * setup[s].size < setup[s].rows
<1>1. /\ setup[s].size \in Nat \ {0} /\ setup[s].limit \in Nat /\ setup[s].rows \in Nat
      BY Setup DEF StreamSetups
<1>. DEFINE n == setup[s].size
            m == setup[s].limit
            r == setup[s].rows
<1>2. q * n < IF r < m * n THEN ((r + n - 1) \div n) * n ELSE m * n BY DEF RecordedEnd
<1>3. n \in Nat \ {0} /\ m \in Nat /\ r \in Nat BY <1>1
<1>. SUFFICES q * n < r OBVIOUS
<1>. HIDE DEF n, m, r
<1>4. m * n \in Int /\ q * n \in Int BY <1>3
<1>5. CASE r < m * n BY <1>2, <1>3, <1>5, Multiples
<1>6. CASE ~(r < m * n) BY <1>2, <1>3, <1>4, <1>6
<1>. QED BY <1>5, <1>6

LEMMA EndIsNumber ==
  ASSUME TypeOK, NEW s \in Streams
  PROVE  RecordedEnd(s) \in Int
<1>1. /\ setup[s].size \in Nat \ {0} /\ setup[s].limit \in Nat /\ setup[s].rows \in Nat
      BY Setup DEF StreamSetups
<1>2. (setup[s].rows + setup[s].size - 1) \div setup[s].size \in Int BY <1>1
<1>. HIDE DEF StreamSetups
<1>. QED BY <1>1, <1>2 DEF RecordedEnd

LEMMA Entries ==
  ASSUME TypeOK
  PROVE  /\ Len(streams) \in Nat /\ Len(algs) \in Nat
         /\ \A k \in 1..Len(streams) : streams[k] \in Streams
         /\ \A k \in 1..Len(algs) : algs[k] \in Algs
         /\ i \in Nat \ {0} /\ j \in Nat \ {0}
BY DEF TypeOK

(* What each kind of stream_batch does to its position.                    *)
Steps(s) ==
  /\ actno' \in [Streams -> Nat]
  /\ \A q \in Streams : q # s => actno'[q] = actno[q]
  /\ setup[s].kind = "binary" => \E q \in Nat : actno'[s] = q * setup[s].size
  /\ Writer(s) /\ setup[s].kind = "binary" => actno'[s] < RecordedEnd(s) \/ pc' = "remove_stream"
  /\ setup[s].kind = "csv" => actno'[s] <= setup[s].rows

(* ... and to the actions: it counts n and writes w, fewer only where a    *)
(* file has been read to its end.                                          *)
Counts(s) ==
  \/ Writer(s) /\ \E n, w \in Nat :
       /\ Writes(s, n, w) /\ w <= n
       /\ w = n \/ (setup[s].kind = "csv" /\ actno'[s] = setup[s].rows)
  \/ ~Writer(s) /\ UNCHANGED <<actions, actions_len>>

LEMMA RecordedSteps ==
  ASSUME TypeOK, Positioned, pc = "stream", NEW s \in Streams, In(s, streams),
         NEW remove \in BOOLEAN, RecordedBatch(s, remove),
         pc' = IF remove THEN "remove_stream" ELSE "before"
  PROVE  Steps(s) /\ Counts(s)
<1>. DEFINE u == setup[s]
<1>1. /\ u.size \in Nat \ {0} /\ u.rows \in Nat /\ u.kind = "binary"
      /\ actno \in [Streams -> Nat] /\ RecordedEnd(s) \in Int
      BY Setup, EndIsNumber DEF StreamSetups, RecordedBatch, TypeOK
<1>2. PICK q \in Nat : actno[s] = q * u.size BY <1>1 DEF Positioned
<1>3. Writer(s) <=> RecordedEnd(s) > 0 BY <1>1 DEF Writer
<1>4. CASE /\ actno[s] < RecordedEnd(s)
           /\ LET n == Lesser(actno[s] + setup[s].size, setup[s].rows) - actno[s] IN Writes(s, n, n)
           /\ actno' = [actno EXCEPT ![s] = @ + setup[s].size]
           /\ remove = (actno'[s] >= RecordedEnd(s) \/ actno'[s] >= setup[s].rows)
  <2>1. actno[s] < u.rows BY <1>1, <1>2, <1>4, BeforeTheRows
  <2>2. Lesser(actno[s] + u.size, u.rows) - actno[s] \in Nat BY <1>1, <2>1 DEF Lesser
  <2>3. actno[s] \in Nat /\ actno' = [actno EXCEPT ![s] = actno[s] + u.size] BY <1>1, <1>4
  <2>4. /\ actno' \in [Streams -> Nat] /\ actno'[s] = actno[s] + u.size
        /\ \A p \in Streams : p # s => actno'[p] = actno[p]
        BY <1>1, <2>3
  <2>5. actno'[s] = (q + 1) * u.size /\ q + 1 \in Nat BY <1>1, <1>2, <2>4
  <2>6. actno'[s] < RecordedEnd(s) \/ pc' = "remove_stream"
    <3>1. actno'[s] \in Int BY <1>1, <2>4
    <3>2. actno'[s] >= RecordedEnd(s) => remove BY <1>4, Zenon
    <3>3. remove => pc' = "remove_stream" OBVIOUS
    <3>. QED BY <1>1, <3>1, <3>2, <3>3
  <2>7. \E p \in Nat : actno'[s] = p * setup[s].size BY <2>5, Zenon
  <2>8. Steps(s) BY <1>1, <2>4, <2>6, <2>7 DEF Steps
  <2>9. Writer(s) BY <1>1, <1>3, <1>4
  <2>. DEFINE n == Lesser(actno[s] + u.size, u.rows) - actno[s]
  <2>10. n \in Nat /\ Writes(s, n, n) BY <1>4, <2>2
  <2>. HIDE DEF n
  <2>11. n <= n BY <2>10
  <2>12. Counts(s) BY <2>9, <2>10, <2>11, Zenon DEF Counts
  <2>. QED BY <2>8, <2>12
<1>5. CASE actno[s] >= RecordedEnd(s) /\ remove = TRUE /\ UNCHANGED <<actno, actions, actions_len>>
  <2>1. ~Writer(s) BY <1>1, <1>5 DEF Positioned
  <2>. QED BY <1>1, <1>2, <1>5, <2>1 DEF Steps, Counts
<1>. QED BY <1>4, <1>5, Zenon DEF RecordedBatch

LEMMA Batched ==
  ASSUME TypeOK, Positioned, StreamBatch, NEW s, s = streams[i]
  PROVE  s \in Streams /\ Steps(s) /\ Counts(s) /\ pc' \in {"remove_stream", "before"}
<1>1. /\ pc = "stream" /\ i \in 1..Len(streams) /\ s \in Streams BY Entries DEF StreamBatch
<1>2. In(s, streams) BY <1>1 DEF In
<1>3. PICK remove \in BOOLEAN :
        /\ \/ CountedBatch(s, remove) \/ FileBatch(s, remove)
           \/ FailedBatch(s, remove) \/ RecordedBatch(s, remove)
        /\ pc' = IF remove THEN "remove_stream" ELSE "before"
      BY Zenon DEF StreamBatch, Goto
<1>4. pc' \in {"remove_stream", "before"} BY <1>3
<1>5. actno \in [Streams -> Nat] BY DEF TypeOK
<1>6. CASE CountedBatch(s, remove)
  <2>1. Writer(s) /\ setup[s].kind # "binary" BY <1>6 DEF CountedBatch, Writer
  <2>2. setup[s].size \in Nat /\ setup[s].size <= setup[s].size BY <1>1, Setup DEF StreamSetups
  <2>3. Steps(s) BY <1>5, <1>6, <2>1 DEF CountedBatch, Steps
  <2>4. Counts(s) BY <1>6, <2>1, <2>2, Zenon DEF CountedBatch, Counts
  <2>. QED BY <1>1, <1>4, <2>3, <2>4
<1>9. CASE FileBatch(s, remove)
  <2>. DEFINE read == Lesser(setup[s].size, setup[s].rows - actno[s])
  <2>1. Writer(s) /\ setup[s].kind = "csv" BY <1>9 DEF FileBatch, Writer
  <2>2. /\ setup[s].size \in Nat /\ setup[s].rows \in Nat /\ actno[s] \in Nat
        /\ actno[s] <= setup[s].rows
        BY <1>1, <2>1, Setup DEF StreamSetups, TypeOK
  <2>3. /\ read \in Nat /\ read <= setup[s].size /\ actno[s] + read <= setup[s].rows
        /\ read = setup[s].size \/ actno[s] + read = setup[s].rows
        BY <2>2 DEF Lesser
  <2>4. Writes(s, setup[s].size, read) /\ actno' = [actno EXCEPT ![s] = actno[s] + read]
        BY <1>9 DEF FileBatch
  <2>. HIDE DEF read
  <2>5. /\ actno' \in [Streams -> Nat] /\ actno'[s] = actno[s] + read
        /\ \A q \in Streams : q # s => actno'[q] = actno[q]
        BY <1>1, <1>5, <2>2, <2>3, <2>4
  <2>6. Steps(s) BY <2>1, <2>3, <2>5 DEF Steps
  <2>7. read = setup[s].size \/ (setup[s].kind = "csv" /\ actno'[s] = setup[s].rows)
        BY <2>1, <2>3, <2>5
  <2>8. Counts(s) BY <2>1, <2>2, <2>3, <2>4, <2>7, Zenon DEF Counts
  <2>. QED BY <1>1, <1>4, <2>6, <2>8
<1>7. CASE FailedBatch(s, remove)
  <2>1. ~Writer(s) /\ setup[s].kind # "binary" BY <1>7 DEF FailedBatch, Writer
  <2>2. Steps(s) BY <1>5, <1>7, <2>1 DEF FailedBatch, Steps
  <2>. QED BY <1>1, <1>4, <1>7, <2>1, <2>2 DEF FailedBatch, Counts
<1>8. CASE RecordedBatch(s, remove)
  <2>. QED BY <1>1, <1>2, <1>3, <1>4, <1>8, RecordedSteps
<1>. QED BY <1>3, <1>6, <1>7, <1>8, <1>9

------------------------------------------------------------------------------
(* Types.                                                                  *)

LEMMA TypeInit == Init => TypeOK
<1>. SUFFICES ASSUME Init PROVE TypeOK OBVIOUS
<1>1. \A s \in Streams : actno[s] <= setup[s].rows
  <2>. SUFFICES ASSUME NEW s \in Streams PROVE actno[s] <= setup[s].rows OBVIOUS
  <2>1. setup[s] \in StreamSetups BY SetupsOK DEF Init
  <2>2. setup[s].rows \in Nat BY <2>1 DEF StreamSetups
  <2>3. actno[s] = 0 BY DEF Init
  <2>. QED BY <2>2, <2>3
<1>. QED BY <1>1, SetupsOK DEF Init, TypeOK, Labels

LEMMA TypeStep ==
  ASSUME TypeOK, Positioned, actions_len <= Len(actions), Indexed, Next
  PROVE  TypeOK'
<1>. USE DEF Goto, control, batch, history
<1>0. /\ Len(streams) \in Nat /\ Len(algs) \in Nat
      /\ MaxBatch \in Nat
      BY Entries, SetupsOK
<1>1. CASE Run BY <1>1 DEF Run, TypeOK, Labels
<1>2. CASE ParsedArgs BY <1>2 DEF ParsedArgs, TypeOK, Labels
<1>3. ASSUME NEW p \in Participants, Register(p) PROVE TypeOK'
  <2>1. streams' \in Seq(Streams) /\ algs' \in Seq(Algs)
    <3>1. streams \in Seq(Streams) /\ algs \in Seq(Algs) BY DEF TypeOK
    <3>2. CASE p \in Streams /\ streams' = Append(streams, p) /\ UNCHANGED algs
          BY <3>1, <3>2, AppendProperties
    <3>3. CASE p \in Algs /\ algs' = Append(algs, p) /\ UNCHANGED streams
          BY <3>1, <3>3, AppendProperties
    <3>. QED BY <1>3, <3>2, <3>3, Zenon DEF Register
  <2>. QED BY <1>3, <2>1 DEF Register, TypeOK, Labels
<1>4. ASSUME NEW k \in 1..Len(streams), DropStream(k) PROVE TypeOK'
  <2>1. streams' \in Seq(Streams) BY <1>4, Unregistered DEF DropStream, TypeOK
  <2>. QED BY <1>4, <2>1 DEF DropStream, TypeOK, Labels
<1>5. ASSUME NEW k \in 1..Len(algs), DropAlg(k) PROVE TypeOK'
  <2>1. algs' \in Seq(Algs) BY <1>5, Unregistered DEF DropAlg, TypeOK
  <2>. QED BY <1>5, <2>1 DEF DropAlg, TypeOK, Labels
<1>6. CASE InitStream BY <1>6 DEF InitStream, TypeOK, Labels
<1>7. CASE StreamsReady BY <1>7 DEF StreamsReady, TypeOK, Labels
<1>8. CASE InitAlg BY <1>8 DEF InitAlg, TypeOK, Labels
<1>9. CASE AlgsReady BY <1>9 DEF AlgsReady, TypeOK, Labels
<1>10. CASE StreamBatch
  <2>1. /\ streams[i] \in Streams /\ Steps(streams[i]) /\ pc' \in {"remove_stream", "before"}
        /\ \/ \E n, w \in Nat : Writes(streams[i], n, w) /\ w <= n
           \/ UNCHANGED <<actions, actions_len>>
        BY <1>10, Batched, Zenon DEF Counts
  <2>2. /\ actions' \in Seq([by : Streams \cup {"nobody"}, applied : BOOLEAN])
        /\ actions_len' \in Nat
    <3>1. CASE UNCHANGED <<actions, actions_len>> BY <3>1 DEF TypeOK
    <3>2. ASSUME NEW n \in Nat, NEW w \in Nat, Writes(streams[i], n, w), w <= n
          PROVE  /\ actions' \in Seq([by : Streams \cup {"nobody"}, applied : BOOLEAN])
                 /\ actions_len' = n
          BY <2>1, <3>2, Written, Zenon
    <3>. QED BY <2>1, <3>1, <3>2
  <2>3. /\ actno' \in [Streams -> Nat]
        /\ \A s \in Streams : setup[s].kind = "csv" => actno'[s] <= setup[s].rows
        BY <2>1 DEF Steps, TypeOK
  <2>4. i <= Len(streams) BY <1>10 DEF StreamBatch
  <2>5. /\ j' = 1 /\ told' = {}
        /\ UNCHANGED <<setup, streams, algs, i, batch_num, life>>
        BY <1>10 DEF StreamBatch
  <2>. QED BY <1>0, <2>1, <2>2, <2>3, <2>4, <2>5 DEF TypeOK, Labels
<1>11. CASE SkipSilent BY <1>11 DEF SkipSilent, TypeOK, Labels
<1>12. CASE RemoveStream
  <2>1. i \in 1..Len(streams) BY <1>0, <1>12 DEF RemoveStream, TypeOK
  <2>2. streams' \in Seq(Streams) BY <1>12, <2>1, Unregistered DEF RemoveStream, TypeOK
  <2>3. pc' = "before" /\ UNCHANGED <<setup, algs, i, j, batch, told>> BY <1>12 DEF RemoveStream
  <2>. QED BY <2>2, <2>3 DEF TypeOK, Labels
<1>13. CASE EndRound BY <1>13 DEF EndRound, TypeOK, Labels
<1>14. CASE BeforeBatch
  <2>1. /\ pc' \in {"before", "remove_before"} /\ j' \in {j, j + 1}
        /\ pc' = "remove_before" => j' <= Len(algs)
        BY <1>14 DEF BeforeBatch
  <2>2. j \in Nat \ {0} /\ j <= Len(algs) BY <1>14 DEF BeforeBatch, TypeOK
  <2>3. algs[j] \in Algs BY <1>0, <2>2, Entries DEF TypeOK
  <2>4. told' = told \cup {algs[j]} /\ UNCHANGED <<setup, streams, algs, i>>
        BY <1>14 DEF BeforeBatch
  <2>5. UNCHANGED <<batch_num, actno, actions, actions_len>> BY <1>14 DEF BeforeBatch
  <2>. QED BY <2>1, <2>2, <2>3, <2>4, <2>5 DEF TypeOK, Labels
<1>15. CASE EndBefore BY <1>15 DEF EndBefore, TypeOK, Labels
<1>16. CASE Apply
  <2>. DEFINE Action == [by : Streams \cup {"nobody"}, applied : BOOLEAN]
  <2>1. /\ actions \in Seq(Action)
        /\ actions' = [k \in DOMAIN actions |-> IF k <= actions_len
                         THEN [actions[k] EXCEPT !.applied = TRUE] ELSE actions[k]]
        BY <1>16 DEF Apply, TypeOK
  <2>. HIDE DEF Action
  <2>2. DOMAIN actions = 1..Len(actions) /\ Len(actions) \in Nat BY <2>1
  <2>3. \A k \in 1..Len(actions) :
          (IF k <= actions_len THEN [actions[k] EXCEPT !.applied = TRUE] ELSE actions[k]) \in Action
    <3>. SUFFICES ASSUME NEW k \in 1..Len(actions)
                  PROVE  actions[k] \in Action /\ [actions[k] EXCEPT !.applied = TRUE] \in Action
         OBVIOUS
    <3>1. actions[k] \in Action BY <2>1, <2>2
    <3>. QED BY <3>1 DEF Action
  <2>4. actions' \in Seq(Action) BY <2>1, <2>2, <2>3
  <2>5. /\ j' = 1 /\ pc' = "after"
        /\ UNCHANGED <<setup, streams, algs, i, batch_num, actno, actions_len, told>>
        BY <1>16 DEF Apply
  <2>. QED BY <2>4, <2>5 DEF TypeOK, Labels, Action
<1>17. CASE AfterBatch
  <2>1. /\ pc' \in {"after", "remove_after"} /\ j' \in {j, j + 1}
        /\ pc' = "remove_after" => j' <= Len(algs)
        BY <1>17 DEF AfterBatch
  <2>2. j \in Nat \ {0} BY DEF TypeOK
  <2>3. UNCHANGED <<setup, streams, algs, i, told>> BY <1>17 DEF AfterBatch
  <2>4. UNCHANGED <<batch_num, actno, actions, actions_len>> BY <1>17 DEF AfterBatch
  <2>. QED BY <2>1, <2>2, <2>3, <2>4 DEF TypeOK, Labels
<1>18. CASE EndAfter BY <1>0, <1>18 DEF EndAfter, Lesser, TypeOK, Labels
<1>19. ASSUME NEW loop \in {"before", "after"}, RemoveAlg(loop) PROVE TypeOK'
  <2>1. pc \in {"remove_before", "remove_after"} /\ pc' \in {"before", "after"}
        BY <1>19 DEF RemoveAlg, Removing
  <2>2. j \in 1..Len(algs) BY <1>0, <2>1 DEF TypeOK
  <2>3. algs' \in Seq(Algs) BY <1>19, <2>2, Unregistered DEF RemoveAlg, TypeOK
  <2>4. j' = j + 1 /\ UNCHANGED <<setup, streams, i, batch, told>>
        BY <1>19 DEF RemoveAlg, TypeOK
  <2>. QED BY <2>1, <2>3, <2>4 DEF TypeOK, Labels
<1>20. CASE CleanupStream BY <1>20 DEF CleanupStream, TypeOK, Labels
<1>21. CASE StreamsCleaned BY <1>21 DEF StreamsCleaned, TypeOK, Labels
<1>22. CASE CleanupAlg BY <1>22 DEF CleanupAlg, TypeOK, Labels
<1>23. CASE AlgsCleaned BY <1>23 DEF AlgsCleaned, TypeOK, Labels
<1>24. ASSUME NEW p \in Participants, Configure(p) PROVE TypeOK'
  BY <1>24 DEF Configure, TypeOK, Labels
<1>25. CASE Over BY <1>25 DEF Over, vars, TypeOK, Labels
<1>. QED BY <1>1, <1>2, <1>3, <1>4, <1>5, <1>6, <1>7, <1>8, <1>9, <1>10, <1>11, <1>12, <1>13,
            <1>14, <1>15, <1>16, <1>17, <1>18, <1>19, <1>20, <1>21, <1>22, <1>23, <1>24, <1>25,
            Zenon DEF Next, Step

------------------------------------------------------------------------------
(* The stages.                                                             *)

LEMMA IndexedStep ==
  ASSUME TypeOK, Indexed, Next
  PROVE  Indexed'
<1>. USE DEF Goto, Indexed, Removing
<1>1. i \in Nat \ {0} /\ j \in Nat \ {0} BY DEF TypeOK
<1>2. CASE Run \/ ParsedArgs BY <1>2 DEF Run, ParsedArgs
<1>3. CASE \E p \in Participants : Register(p) BY <1>3 DEF Register
<1>4. CASE \E p \in Participants : Configure(p) BY <1>4 DEF Configure, control
<1>5. CASE \E k \in 1..Len(streams) : DropStream(k) BY <1>5 DEF DropStream
<1>6. CASE \E k \in 1..Len(algs) : DropAlg(k) BY <1>6 DEF DropAlg
<1>7. CASE InitStream \/ StreamsReady \/ InitAlg \/ AlgsReady
  <2>1. CASE InitStream BY <1>1, <2>1 DEF InitStream
  <2>2. CASE StreamsReady \/ AlgsReady BY <1>1, <2>2 DEF StreamsReady, AlgsReady
  <2>3. CASE InitAlg
    <3>1. pc' = "init_algs" BY <2>3 DEF InitAlg
    <3>. QED BY <3>1
  <2>. QED BY <1>7, <2>1, <2>2, <2>3
<1>8. CASE SkipSilent \/ RemoveStream \/ EndRound
  <2>1. CASE SkipSilent BY <2>1 DEF SkipSilent
  <2>2. CASE RemoveStream
    <3>1. pc' = "before" BY <2>2 DEF RemoveStream
    <3>. QED BY <3>1
  <2>3. CASE EndRound BY <2>3 DEF EndRound
  <2>. QED BY <1>8, <2>1, <2>2, <2>3
<1>9. CASE StreamBatch
  <2>1. pc' \in {"remove_stream", "before"} BY <1>9 DEF StreamBatch
  <2>. QED BY <2>1
<1>10. CASE BeforeBatch \/ EndBefore \/ Apply \/ AfterBatch \/ EndAfter
  <2>1. CASE BeforeBatch
    <3>1. pc' \in {"before", "remove_before"} BY <2>1 DEF BeforeBatch
    <3>. QED BY <3>1
  <2>2. CASE EndBefore \/ Apply \/ EndAfter BY <2>2 DEF EndBefore, Apply, EndAfter
  <2>3. CASE AfterBatch
    <3>1. pc' \in {"after", "remove_after"} BY <2>3 DEF AfterBatch
    <3>. QED BY <3>1
  <2>. QED BY <1>10, <2>1, <2>2, <2>3
<1>11. CASE \E loop \in {"before", "after"} : RemoveAlg(loop) BY <1>11 DEF RemoveAlg
<1>12. CASE CleanupStream \/ StreamsCleaned \/ CleanupAlg \/ AlgsCleaned
  <2>1. CASE CleanupStream
    <3>1. pc' = "cleanup_streams" /\ i' = i + 1 /\ j' = j BY <2>1 DEF CleanupStream
    <3>2. pc = "cleanup_streams" BY <2>1 DEF CleanupStream
    <3>. QED BY <1>1, <3>1, <3>2
  <2>2. CASE StreamsCleaned BY <2>2 DEF StreamsCleaned
  <2>3. CASE CleanupAlg
    <3>1. pc' = "cleanup_algs" BY <2>3 DEF CleanupAlg
    <3>. QED BY <3>1
  <2>4. CASE AlgsCleaned
    <3>1. pc' = "done" BY <2>4 DEF AlgsCleaned
    <3>. QED BY <3>1
  <2>. QED BY <1>12, <2>1, <2>2, <2>3, <2>4
<1>13. CASE Over BY <1>13 DEF Over, vars, control
<1>. QED BY <1>2, <1>3, <1>4, <1>5, <1>6, <1>7, <1>8, <1>9, <1>10, <1>11, <1>12, <1>13,
            Zenon DEF Next, Step

LEMMA Grown ==
  ASSUME NEW S, NEW a \in Seq(S), NEW p \in S, Distinct(a), ~In(p, a)
  PROVE  /\ Distinct(Append(a, p))
         /\ \A q : In(q, Append(a, p)) <=> In(q, a) \/ q = p
<1>. DEFINE b == Append(a, p)
<1>1. /\ Len(b) = Len(a) + 1 /\ Len(a) \in Nat /\ b[Len(a) + 1] = p
      /\ \A k \in 1..Len(a) : b[k] = a[k]
      BY AppendProperties
<1>. HIDE DEF b
<1>2. Distinct(b) BY <1>1 DEF Distinct, In
<1>3. ASSUME NEW q PROVE In(q, b) <=> In(q, a) \/ q = p BY <1>1 DEF In
<1>. QED BY <1>2, <1>3 DEF b

(* Every entry that is left was one of the others.                         *)
LEMMA Others ==
  ASSUME NEW S, NEW a \in Seq(S), NEW n \in 1..Len(a)
  PROVE  \A k \in 1..Len(Unregister(a, n)) :
           \E m \in 1..Len(a) : m # n /\ Unregister(a, n)[k] = a[m]
<1>. DEFINE b == Unregister(a, n)
<1>0. Len(a) \in Nat OBVIOUS
<1>1. /\ Len(b) = Len(a) - 1
      /\ \A k \in 1..Len(a) - 1 : b[k] = IF k < n THEN a[k] ELSE a[k + 1]
      BY <1>0, Unregistered, Zenon
<1>. HIDE DEF b
<1>2. ASSUME NEW k \in 1..Len(b) PROVE \E m \in 1..Len(a) : m # n /\ b[k] = a[m]
  <2>1. CASE k < n BY <1>0, <1>1, <2>1
  <2>2. CASE ~(k < n)
    <3>1. k + 1 \in 1..Len(a) /\ k + 1 # n /\ b[k] = a[k + 1] BY <1>0, <1>1, <2>2
    <3>. QED BY <3>1
  <2>. QED BY <2>1, <2>2
<1>. QED BY <1>2 DEF b

(* A step that leaves the arrays and the stages alone.                     *)
LEMMA SameStages ==
  ASSUME Staged, UNCHANGED <<streams, algs, life>>, pc # "done", pc' # "done",
         \A k \in 1..Len(streams) : StreamStage(k)' = StreamStage(k),
         \A k \in 1..Len(algs) : AlgStage(k)' = AlgStage(k), Outside \subseteq Outside'
  PROVE  Staged'
<1>1. /\ life' \in [Participants -> Stages] /\ Distinct(streams') /\ Distinct(algs')
      /\ CleanedAtEnd'
      BY DEF Staged, CleanedAtEnd
<1>2. \A k \in 1..Len(streams') : life'[streams'[k]] = StreamStage(k)' BY DEF Staged
<1>3. \A k \in 1..Len(algs') : life'[algs'[k]] = AlgStage(k)' BY DEF Staged
<1>4. \A p \in Participants : In(p, streams') \/ In(p, algs') \/ life'[p] \in Outside'
      BY DEF Staged
<1>. QED BY <1>1, <1>2, <1>3, <1>4 DEF Staged

(* A stream that is taken out, and an algorithm.                           *)
LEMMA StreamGone ==
  ASSUME TypeOK, Staged, NEW n \in 1..Len(streams), NEW stage \in Stages,
         streams' = Unregister(streams, n), life' = [life EXCEPT ![streams[n]] = stage],
         UNCHANGED algs, pc # "done", pc' # "done", stage \in Outside',
         \A k, m \in 1..Len(streams) : StreamStage(k)' = StreamStage(m),
         \A k \in 1..Len(algs) : AlgStage(k)' = AlgStage(k), Outside \subseteq Outside'
  PROVE  Staged'
<1>1. /\ streams \in Seq(Streams) /\ algs \in Seq(Algs) /\ streams[n] \in Streams
      /\ \A k \in 1..Len(algs) : algs[k] # streams[n]
      BY SetupsOK DEF TypeOK
<1>2. /\ life \in [Participants -> Stages] /\ Distinct(streams) /\ Distinct(algs)
      BY DEF Staged
<1>3. /\ life' \in [Participants -> Stages] /\ life'[streams[n]] = stage
      /\ \A p \in Participants : p # streams[n] => life'[p] = life[p]
      BY <1>1, <1>2 DEF Participants
<1>4. /\ Distinct(streams') /\ Distinct(algs')
      /\ \A p : In(p, streams) => In(p, streams') \/ p = streams[n]
      BY <1>1, <1>2, Shortened
<1>0. Len(streams) \in Nat BY Entries
<1>5. Len(streams') = Len(streams) - 1 /\ Len(streams) \in Nat BY <1>0, <1>1, Unregistered, Zenon
<1>6. ASSUME NEW k \in 1..Len(streams') PROVE life'[streams'[k]] = StreamStage(k)'
  <2>1. PICK m \in 1..Len(streams) : m # n /\ streams'[k] = streams[m] BY <1>1, Others
  <2>2. streams[m] # streams[n] /\ streams[m] \in Participants
        BY <1>1, <1>2, <2>1 DEF Distinct, Participants
  <2>3. life'[streams[m]] = StreamStage(m) BY <1>3, <2>2 DEF Staged
  <2>4. k \in 1..Len(streams) BY <1>5
  <2>. QED BY <2>1, <2>3, <2>4
<1>7. ASSUME NEW k \in 1..Len(algs') PROVE life'[algs'[k]] = AlgStage(k)'
  <2>1. algs[k] # streams[n] /\ algs[k] \in Participants BY <1>1 DEF Participants
  <2>. QED BY <1>3, <2>1 DEF Staged
<1>8. ASSUME NEW p \in Participants PROVE In(p, streams') \/ In(p, algs') \/ life'[p] \in Outside'
  <2>1. CASE p = streams[n] BY <1>3, <2>1
  <2>2. CASE p # streams[n] BY <1>3, <1>4, <2>2 DEF Staged
  <2>. QED BY <2>1, <2>2
<1>. QED BY <1>3, <1>4, <1>6, <1>7, <1>8 DEF Staged, CleanedAtEnd

LEMMA AlgGone ==
  ASSUME TypeOK, Staged, NEW n \in 1..Len(algs), NEW stage \in Stages,
         algs' = Unregister(algs, n), life' = [life EXCEPT ![algs[n]] = stage],
         UNCHANGED streams, pc # "done", pc' # "done", stage \in Outside',
         \A k, m \in 1..Len(algs) : AlgStage(k)' = AlgStage(m),
         \A k \in 1..Len(streams) : StreamStage(k)' = StreamStage(k), Outside \subseteq Outside'
  PROVE  Staged'
<1>1. /\ streams \in Seq(Streams) /\ algs \in Seq(Algs) /\ algs[n] \in Algs
      /\ \A k \in 1..Len(streams) : streams[k] # algs[n]
      BY SetupsOK DEF TypeOK
<1>2. /\ life \in [Participants -> Stages] /\ Distinct(streams) /\ Distinct(algs)
      BY DEF Staged
<1>3. /\ life' \in [Participants -> Stages] /\ life'[algs[n]] = stage
      /\ \A p \in Participants : p # algs[n] => life'[p] = life[p]
      BY <1>1, <1>2 DEF Participants
<1>4. /\ Distinct(streams') /\ Distinct(algs')
      /\ \A p : In(p, algs) => In(p, algs') \/ p = algs[n]
      BY <1>1, <1>2, Shortened
<1>0. Len(algs) \in Nat BY Entries
<1>5. Len(algs') = Len(algs) - 1 /\ Len(algs) \in Nat BY <1>0, <1>1, Unregistered, Zenon
<1>6. ASSUME NEW k \in 1..Len(algs') PROVE life'[algs'[k]] = AlgStage(k)'
  <2>1. PICK m \in 1..Len(algs) : m # n /\ algs'[k] = algs[m] BY <1>1, Others
  <2>2. algs[m] # algs[n] /\ algs[m] \in Participants
        BY <1>1, <1>2, <2>1 DEF Distinct, Participants
  <2>3. life'[algs[m]] = AlgStage(m) BY <1>3, <2>2 DEF Staged
  <2>4. k \in 1..Len(algs) BY <1>5
  <2>. QED BY <2>1, <2>3, <2>4
<1>7. ASSUME NEW k \in 1..Len(streams') PROVE life'[streams'[k]] = StreamStage(k)'
  <2>1. streams[k] # algs[n] /\ streams[k] \in Participants BY <1>1 DEF Participants
  <2>. QED BY <1>3, <2>1 DEF Staged
<1>8. ASSUME NEW p \in Participants PROVE In(p, streams') \/ In(p, algs') \/ life'[p] \in Outside'
  <2>1. CASE p = algs[n] BY <1>3, <2>1
  <2>2. CASE p # algs[n] BY <1>3, <1>4, <2>2 DEF Staged
  <2>. QED BY <2>1, <2>2
<1>. QED BY <1>3, <1>4, <1>6, <1>7, <1>8 DEF Staged, CleanedAtEnd

LEMMA StagedStep ==
  ASSUME TypeOK, Indexed, Staged, Next
  PROVE  Staged'
<1>. USE DEF Goto, Becomes, control, batch, history
<1>0. /\ Len(streams) \in Nat /\ Len(algs) \in Nat /\ i \in Nat \ {0} /\ j \in Nat \ {0}
      /\ \A k \in 1..Len(streams) : streams[k] \in Streams
      /\ \A k \in 1..Len(algs) : algs[k] \in Algs
      /\ Streams \cap Algs = {}
      BY Entries, SetupsOK
<1>1. life \in [Participants -> Stages] BY DEF Staged
<1>2. Distinct(streams) /\ Distinct(algs) BY DEF Staged
<1>3. CASE Run BY <1>3, SameStages DEF Run, StreamStage, AlgStage, Outside
<1>4. CASE ParsedArgs
  <2>1. CASE pc' = "init_streams"
    <3>1. pc = "args" /\ UNCHANGED <<streams, algs, i, j, life>> BY <1>4 DEF ParsedArgs
    <3>. QED BY <1>0, <2>1, <3>1, SameStages DEF StreamStage, AlgStage, Outside, Indexed
  <2>2. CASE pc' = "done"
    <3>1. pc = "args" /\ UNCHANGED <<streams, algs, life>> BY <1>4 DEF ParsedArgs
    <3>2. ASSUME NEW p \in Participants PROVE life[p] # "ready"
          BY <3>1 DEF Staged, In, StreamStage, AlgStage, Outside
    <3>. QED BY <1>1, <1>2, <2>2, <3>1, <3>2 DEF Staged, CleanedAtEnd
  <2>. QED BY <1>4, <2>1, <2>2 DEF ParsedArgs
<1>5. ASSUME NEW p \in Participants, Register(p) PROVE Staged'
  <2>1. /\ pc = "register" /\ pc' = "register" /\ life[p] = "absent"
        /\ life' = [life EXCEPT ![p] = "registered"]
        BY <1>5 DEF Register
  <2>2. /\ \A k \in 1..Len(streams) : life[streams[k]] = "registered"
        /\ \A k \in 1..Len(algs) : life[algs[k]] = "registered"
        /\ \A q \in Participants : In(q, streams) \/ In(q, algs) \/ life[q] = "absent"
        BY <2>1 DEF Staged, StreamStage, AlgStage, Outside
  <2>3. ~In(p, streams) /\ ~In(p, algs) BY <2>1, <2>2 DEF In
  <2>4. /\ life' \in [Participants -> Stages] /\ life'[p] = "registered"
        /\ \A q \in Participants : q # p => life'[q] = life[q]
        BY <1>1, <2>1 DEF Stages
  <2>5. streams \in Seq(Streams) /\ algs \in Seq(Algs) BY DEF TypeOK
  <2>6. CASE p \in Streams /\ streams' = Append(streams, p) /\ UNCHANGED algs
    <3>1. /\ Distinct(streams') /\ Distinct(algs')
          /\ \A q : In(q, streams') <=> In(q, streams) \/ q = p
          BY <1>2, <2>3, <2>5, <2>6, Grown
    <3>2. ASSUME NEW k \in 1..Len(streams') PROVE life'[streams'[k]] = "registered"
      <4>1. In(streams'[k], streams') BY DEF In
      <4>2. In(streams'[k], streams) \/ streams'[k] = p BY <3>1, <4>1
      <4>. QED BY <1>0, <2>2, <2>4, <4>2 DEF In, Participants
    <3>3. ASSUME NEW k \in 1..Len(algs') PROVE life'[algs'[k]] = "registered"
          BY <1>0, <2>2, <2>3, <2>4, <2>6 DEF In, Participants
    <3>4. \A q \in Participants : In(q, streams') \/ In(q, algs') \/ life'[q] = "absent"
          BY <2>2, <2>4, <2>6, <3>1
    <3>. QED BY <2>1, <2>4, <3>1, <3>2, <3>3, <3>4
             DEF Staged, StreamStage, AlgStage, Outside, CleanedAtEnd
  <2>7. CASE p \in Algs /\ algs' = Append(algs, p) /\ UNCHANGED streams
    <3>1. /\ Distinct(streams') /\ Distinct(algs')
          /\ \A q : In(q, algs') <=> In(q, algs) \/ q = p
          BY <1>2, <2>3, <2>5, <2>7, Grown
    <3>2. ASSUME NEW k \in 1..Len(algs') PROVE life'[algs'[k]] = "registered"
      <4>1. In(algs'[k], algs') BY DEF In
      <4>2. In(algs'[k], algs) \/ algs'[k] = p BY <3>1, <4>1
      <4>. QED BY <1>0, <2>2, <2>4, <4>2 DEF In, Participants
    <3>3. ASSUME NEW k \in 1..Len(streams') PROVE life'[streams'[k]] = "registered"
          BY <1>0, <2>2, <2>3, <2>4, <2>7 DEF In, Participants
    <3>4. \A q \in Participants : In(q, streams') \/ In(q, algs') \/ life'[q] = "absent"
          BY <2>2, <2>4, <2>7, <3>1
    <3>. QED BY <2>1, <2>4, <3>1, <3>2, <3>3, <3>4
             DEF Staged, StreamStage, AlgStage, Outside, CleanedAtEnd
  <2>. QED BY <1>5, <2>6, <2>7, Zenon DEF Register
<1>6. ASSUME NEW p \in Participants, Configure(p) PROVE Staged'
  <2>1. pc = "args" /\ UNCHANGED <<streams, algs, life, pc, i, j>> BY <1>6 DEF Configure
  <2>. QED BY <2>1, SameStages DEF StreamStage, AlgStage, Outside
<1>7. ASSUME NEW n \in 1..Len(streams), DropStream(n) PROVE Staged'
  <2>1. /\ pc = "args" /\ UNCHANGED <<pc, algs, i, j>> /\ streams' = Unregister(streams, n)
        /\ life' = [life EXCEPT ![streams[n]] = "dropped"]
        BY <1>7 DEF DropStream
  <2>2. "dropped" \in Stages BY DEF Stages
  <2>. QED BY <2>1, <2>2, StreamGone DEF StreamStage, AlgStage, Outside
<1>8. ASSUME NEW n \in 1..Len(algs), DropAlg(n) PROVE Staged'
  <2>1. /\ pc = "args" /\ UNCHANGED <<pc, streams, i, j>> /\ algs' = Unregister(algs, n)
        /\ life' = [life EXCEPT ![algs[n]] = "dropped"]
        BY <1>8 DEF DropAlg
  <2>2. "dropped" \in Stages BY DEF Stages
  <2>. QED BY <2>1, <2>2, AlgGone DEF StreamStage, AlgStage, Outside
<1>9. CASE InitStream \/ CleanupStream
  <2>1. PICK stage \in {"ready", "cleaned"} :
          /\ \/ pc = "init_streams" /\ stage = "ready"
             \/ pc = "cleanup_streams" /\ stage = "cleaned"
          /\ i <= Len(streams) /\ i' = i + 1 /\ UNCHANGED <<pc, streams, algs, j>>
          /\ life' = [life EXCEPT ![streams[i]] = stage]
        BY <1>9 DEF InitStream, CleanupStream
  <2>2. /\ life' \in [Participants -> Stages] /\ life'[streams[i]] = stage
        /\ \A q \in Participants : q # streams[i] => life'[q] = life[q]
        BY <1>0, <1>1, <2>1 DEF Stages, Participants
  <2>3. ASSUME NEW k \in 1..Len(streams') PROVE life'[streams'[k]] = StreamStage(k)'
        BY <1>0, <1>2, <2>1, <2>2 DEF Staged, StreamStage, Distinct, Participants
  <2>4. ASSUME NEW k \in 1..Len(algs') PROVE life'[algs'[k]] = AlgStage(k)'
    <3>1. algs[k] # streams[i] /\ algs[k] \in Participants BY <1>0, <2>1 DEF Participants
    <3>2. life'[algs[k]] = AlgStage(k) BY <2>1, <2>2, <3>1 DEF Staged
    <3>. QED BY <2>1, <3>2 DEF AlgStage
  <2>5. ASSUME NEW p \in Participants PROVE In(p, streams') \/ In(p, algs') \/ life'[p] \in Outside'
    <3>1. p = streams[i] => In(p, streams) BY <1>0, <2>1 DEF In
    <3>. QED BY <2>1, <2>2, <3>1 DEF Staged, Outside
  <2>. QED BY <1>2, <2>1, <2>2, <2>3, <2>4, <2>5 DEF Staged, CleanedAtEnd
<1>10. CASE InitAlg \/ CleanupAlg
  <2>1. PICK stage \in {"ready", "cleaned"} :
          /\ \/ pc = "init_algs" /\ stage = "ready"
             \/ pc = "cleanup_algs" /\ stage = "cleaned"
          /\ j <= Len(algs) /\ j' = j + 1 /\ UNCHANGED <<pc, streams, algs, i>>
          /\ life' = [life EXCEPT ![algs[j]] = stage]
        BY <1>10 DEF InitAlg, CleanupAlg
  <2>2. /\ life' \in [Participants -> Stages] /\ life'[algs[j]] = stage
        /\ \A q \in Participants : q # algs[j] => life'[q] = life[q]
        BY <1>0, <1>1, <2>1 DEF Stages, Participants
  <2>3. ASSUME NEW k \in 1..Len(algs') PROVE life'[algs'[k]] = AlgStage(k)'
        BY <1>0, <1>2, <2>1, <2>2 DEF Staged, AlgStage, Distinct, Participants
  <2>4. ASSUME NEW k \in 1..Len(streams') PROVE life'[streams'[k]] = StreamStage(k)'
    <3>1. streams[k] # algs[j] /\ streams[k] \in Participants BY <1>0, <2>1 DEF Participants
    <3>2. life'[streams[k]] = StreamStage(k) BY <2>1, <2>2, <3>1 DEF Staged
    <3>. QED BY <2>1, <3>2 DEF StreamStage
  <2>5. ASSUME NEW p \in Participants PROVE In(p, streams') \/ In(p, algs') \/ life'[p] \in Outside'
    <3>1. p = algs[j] => In(p, algs) BY <1>0, <2>1 DEF In
    <3>. QED BY <2>1, <2>2, <3>1 DEF Staged, Outside
  <2>. QED BY <1>2, <2>1, <2>2, <2>3, <2>4, <2>5 DEF Staged, CleanedAtEnd
<1>11. CASE StreamsReady \/ AlgsReady \/ StreamsCleaned
  <2>1. /\ UNCHANGED <<streams, algs, j, life>>
        /\ \/ pc = "init_streams" /\ pc' = "init_algs" /\ i > Len(streams) /\ i' = i
           \/ pc = "init_algs" /\ pc' = "stream" /\ j > Len(algs)
           \/ pc = "cleanup_streams" /\ pc' = "cleanup_algs" /\ i > Len(streams) /\ i' = i
        BY <1>11 DEF StreamsReady, AlgsReady, StreamsCleaned
  <2>2. \A k \in 1..Len(streams) : StreamStage(k)' = StreamStage(k)
        BY <1>0, <2>1 DEF StreamStage
  <2>3. \A k \in 1..Len(algs) : AlgStage(k)' = AlgStage(k)
        BY <1>0, <2>1 DEF AlgStage, Indexed
  <2>. QED BY <2>1, <2>2, <2>3, SameStages DEF Outside
<1>12. CASE StreamBatch \/ SkipSilent \/ BeforeBatch \/ EndBefore \/ Apply \/ AfterBatch \/ EndAfter
  <2>1. /\ pc \in {"stream", "before", "apply", "after"}
        /\ pc' \in {"stream", "remove_stream", "before", "remove_before", "apply", "after",
                    "remove_after"}
        /\ UNCHANGED <<streams, algs, life>>
        BY <1>12 DEF StreamBatch, SkipSilent, BeforeBatch, EndBefore, Apply, AfterBatch, EndAfter
  <2>. QED BY <2>1, SameStages DEF StreamStage, AlgStage, Outside
<1>13. CASE RemoveStream
  <2>1. /\ pc = "remove_stream" /\ pc' = "before" /\ UNCHANGED <<algs, i, j>>
        /\ streams' = Unregister(streams, i) /\ life' = [life EXCEPT ![streams[i]] = "cleaned"]
        BY <1>13 DEF RemoveStream
  <2>2. "cleaned" \in Stages /\ i \in 1..Len(streams) BY <1>0, <2>1 DEF Stages, TypeOK
  <2>. QED BY <2>1, <2>2, StreamGone DEF StreamStage, AlgStage, Outside
<1>14. CASE EndRound
  <2>1. /\ pc = "stream" /\ pc' \in {"stream", "cleanup_streams"} /\ i' = 1
        /\ UNCHANGED <<streams, algs, life>>
        BY <1>14 DEF EndRound
  <2>. QED BY <2>1, SameStages DEF StreamStage, AlgStage, Outside
<1>15. ASSUME NEW loop \in {"before", "after"}, RemoveAlg(loop) PROVE Staged'
  <2>1. /\ pc \in {"remove_before", "remove_after"} /\ pc' \in {"before", "after"}
        /\ UNCHANGED <<streams, i>>
        /\ algs' = Unregister(algs, j) /\ life' = [life EXCEPT ![algs[j]] = "cleaned"]
        BY <1>15 DEF RemoveAlg, Removing
  <2>2. "cleaned" \in Stages /\ j \in 1..Len(algs) BY <1>0, <2>1 DEF Stages, TypeOK
  <2>. QED BY <2>1, <2>2, AlgGone DEF StreamStage, AlgStage, Outside
<1>16. CASE AlgsCleaned
  <2>1. /\ pc = "cleanup_algs" /\ pc' = "done" /\ j > Len(algs) /\ UNCHANGED <<streams, algs, life>>
        BY <1>16 DEF AlgsCleaned
  <2>2. ASSUME NEW p \in Participants PROVE life[p] # "ready"
        BY <1>0, <2>1 DEF Staged, In, StreamStage, AlgStage, Outside
  <2>. QED BY <1>1, <1>2, <2>1, <2>2 DEF Staged, CleanedAtEnd
<1>17. CASE Over
  <2>1. pc = "done" /\ UNCHANGED <<pc, streams, algs, life>> BY <1>17 DEF Over, vars
  <2>. QED BY <2>1 DEF Staged, CleanedAtEnd
<1>. QED BY <1>3, <1>4, <1>5, <1>6, <1>7, <1>8, <1>9, <1>10, <1>11, <1>12, <1>13, <1>14, <1>15,
            <1>16, <1>17, Zenon DEF Next, Step

------------------------------------------------------------------------------
(* Positions, and the array of actions.                                    *)

LEMMA SetupKept ==
  ASSUME Next
  PROVE  /\ setup' = setup /\ \A s \in Streams : RecordedEnd(s)' = RecordedEnd(s)
         /\ \A s \in Streams : Writer(s)' <=> Writer(s)
         /\ Uniform' <=> Uniform
<1>1. setup' = setup
  <2>1. CASE Run \/ ParsedArgs \/ (\E p \in Participants : Register(p))
        BY <2>1 DEF Run, ParsedArgs, Register
  <2>2. CASE \/ \E k \in 1..Len(streams) : DropStream(k)
             \/ \E k \in 1..Len(algs) : DropAlg(k)
             \/ \E loop \in {"before", "after"} : RemoveAlg(loop)
        BY <2>2 DEF DropStream, DropAlg, RemoveAlg
  <2>3. CASE \/ InitStream \/ StreamsReady \/ InitAlg \/ AlgsReady
             \/ SkipSilent \/ RemoveStream \/ EndRound
        BY <2>3 DEF InitStream, StreamsReady, InitAlg, AlgsReady, SkipSilent, RemoveStream, EndRound
  <2>4. CASE StreamBatch BY <2>4 DEF StreamBatch
  <2>5. CASE BeforeBatch \/ EndBefore \/ Apply \/ AfterBatch \/ EndAfter
        BY <2>5 DEF BeforeBatch, EndBefore, Apply, AfterBatch, EndAfter
  <2>6. CASE CleanupStream \/ StreamsCleaned \/ CleanupAlg \/ AlgsCleaned
        BY <2>6 DEF CleanupStream, StreamsCleaned, CleanupAlg, AlgsCleaned
  <2>7. CASE Over \/ \E p \in Participants : Configure(p) BY <2>7 DEF Over, vars, Configure
  <2>. QED BY <2>1, <2>2, <2>3, <2>4, <2>5, <2>6, <2>7, Zenon DEF Next, Step
<1>2. \A s \in Streams : RecordedEnd(s)' = RecordedEnd(s) BY <1>1 DEF RecordedEnd
<1>3. \A s \in Streams : Writer(s)' <=> Writer(s) BY <1>1, <1>2 DEF Writer
<1>. QED BY <1>1, <1>2, <1>3 DEF Uniform

(* What the other steps leave alone.                                       *)
Keeps ==
  /\ actno' = actno /\ actions_len' = actions_len
  /\ Apply \/ actions' = actions
  /\ pc' # "remove_stream"
  /\ \/ streams' = streams /\ pc # "remove_stream" /\ pc' # "register"
     \/ pc = "register" /\ pc' = "register"
     \/ pc' # "register" /\ pc # "register" /\ \E n \in 1..Len(streams) :
          /\ streams' = Unregister(streams, n) /\ (pc = "remove_stream" => n = i)
  /\ pc' \in {"before", "remove_before", "apply"} =>
       pc \in {"remove_stream", "before", "remove_before"}

LEMMA Kept ==
  ASSUME TypeOK, Next
  PROVE  Keeps \/ StreamBatch
<1>. USE DEF Goto, batch, history, control
<1>1. CASE Run \/ ParsedArgs BY <1>1 DEF Run, ParsedArgs, Keeps
<1>2. ASSUME NEW p \in Participants, Register(p) PROVE Keeps BY <1>2 DEF Register, Keeps
<1>3. ASSUME NEW n \in 1..Len(streams), DropStream(n) PROVE Keeps BY <1>3 DEF DropStream, Keeps
<1>4. ASSUME NEW n \in 1..Len(algs), DropAlg(n) PROVE Keeps BY <1>4 DEF DropAlg, Keeps
<1>5. CASE InitStream \/ StreamsReady \/ InitAlg \/ AlgsReady \/ SkipSilent \/ EndRound
      BY <1>5 DEF InitStream, StreamsReady, InitAlg, AlgsReady, SkipSilent, EndRound, Keeps
<1>6. CASE RemoveStream
  <2>1. pc = "remove_stream" /\ i \in 1..Len(streams) BY <1>6, Entries DEF RemoveStream, TypeOK
  <2>. QED BY <1>6, <2>1 DEF RemoveStream, Keeps
<1>7. CASE BeforeBatch \/ EndBefore \/ Apply
      BY <1>7 DEF BeforeBatch, EndBefore, Apply, Keeps
<1>8. CASE AfterBatch \/ EndAfter BY <1>8 DEF AfterBatch, EndAfter, Keeps
<1>9. ASSUME NEW loop \in {"before", "after"}, RemoveAlg(loop) PROVE Keeps
      BY <1>9 DEF RemoveAlg, Removing, Keeps
<1>10. CASE CleanupStream \/ StreamsCleaned \/ CleanupAlg \/ AlgsCleaned
       BY <1>10 DEF CleanupStream, StreamsCleaned, CleanupAlg, AlgsCleaned, Keeps
<1>11. ASSUME NEW p \in Participants, Configure(p) PROVE Keeps BY <1>11 DEF Configure, Keeps
<1>12. CASE Over BY <1>12 DEF Over, vars, Keeps
<1>. QED BY <1>1, <1>2, <1>3, <1>4, <1>5, <1>6, <1>7, <1>8, <1>9, <1>10, <1>11, <1>12,
            Zenon DEF Next, Step

LEMMA PositionedInit == Init => Positioned
<1>. SUFFICES ASSUME Init PROVE Positioned OBVIOUS
<1>1. \A s \in Streams : actno[s] = 0 /\ pc = "register" BY DEF Init
<1>2. TypeOK BY TypeInit
<1>3. ASSUME NEW s \in Streams PROVE \E q \in Nat : actno[s] = q * setup[s].size
  <2>1. setup[s].size \in Nat BY <1>2, Setup DEF StreamSetups
  <2>2. actno[s] = 0 * setup[s].size BY <1>1, <2>1
  <2>. QED BY <2>2
<1>. QED BY <1>1, <1>3 DEF Positioned, Writer

LEMMA PositionedStep ==
  ASSUME TypeOK, Staged, Positioned, Next
  PROVE  Positioned'
<1>0. /\ setup' = setup /\ \A s \in Streams : RecordedEnd(s)' = RecordedEnd(s)
      /\ \A s \in Streams : Writer(s)' <=> Writer(s)
      BY SetupKept
<1>1. CASE StreamBatch
  <2>1. /\ streams[i] \in Streams /\ Steps(streams[i]) /\ pc' \in {"remove_stream", "before"}
        BY <1>1, Batched
  <2>2. pc = "stream" /\ UNCHANGED <<streams, i>> BY <1>1 DEF StreamBatch
  <2>3. ASSUME NEW s \in Streams, setup[s].kind = "binary"
        PROVE  \E q \in Nat : actno'[s] = q * setup[s].size
        BY <2>1, <2>3 DEF Steps, Positioned
  <2>4. ASSUME NEW s \in Streams, setup[s].kind = "binary", Writer(s)
        PROVE  \/ actno'[s] < RecordedEnd(s)
               \/ pc' = "remove_stream" /\ s = streams[i]
               \/ ~In(s, streams)
        BY <2>1, <2>2, <2>4 DEF Steps, Positioned
  <2>. QED BY <1>0, <2>1, <2>2, <2>3, <2>4 DEF Positioned, In
<1>2. CASE Keeps
  <2>1. \A s \in Streams : setup[s].kind = "binary" =>
          \E q \in Nat : actno'[s] = q * setup[s].size
        BY <1>2 DEF Keeps, Positioned
  <2>2. pc' = "register" => \A s \in Streams : actno'[s] = 0 BY <1>2 DEF Keeps, Positioned
  <2>3. ASSUME NEW s \in Streams, setup[s].kind = "binary", Writer(s)
        PROVE  actno'[s] < RecordedEnd(s) \/ (pc' # "register" /\ ~In(s, streams'))
    <3>1. CASE streams' = streams /\ pc # "remove_stream" /\ pc' # "register"
          BY <1>2, <2>3, <3>1 DEF Keeps, Positioned
    <3>2. CASE pc = "register" /\ pc' = "register"
          BY <1>2, <2>3, <3>2 DEF Keeps, Positioned
    <3>3. ASSUME NEW n \in 1..Len(streams), pc' # "register", streams' = Unregister(streams, n),
                 pc = "remove_stream" => n = i
          PROVE  actno'[s] < RecordedEnd(s) \/ (pc' # "register" /\ ~In(s, streams'))
      <4>1. streams \in Seq(Streams) /\ Distinct(streams) BY DEF TypeOK, Staged
      <4>2. /\ ~In(streams[n], streams') /\ \A p : In(p, streams') => In(p, streams)
            BY <3>3, <4>1, Shortened
      <4>. QED BY <1>2, <2>3, <3>3, <4>2 DEF Keeps, Positioned
    <3>. QED BY <1>2, <3>1, <3>2, <3>3 DEF Keeps
  <2>. QED BY <1>0, <2>1, <2>2, <2>3 DEF Positioned, In
<1>. QED BY <1>1, <1>2, Kept

LEMMA BufferedStep ==
  ASSUME TypeOK, Positioned, Buffered, Next
  PROVE  Buffered'
<1>0. /\ \A s \in Streams : Writer(s)' <=> Writer(s)
      /\ (Uniform' <=> Uniform) /\ setup' = setup
      BY SetupKept
<1>1. CASE StreamBatch
  <2>. DEFINE s == streams[i]
  <2>1. /\ s \in Streams
        /\ \/ Writer(s) /\ \E n, w \in Nat :
                /\ Writes(s, n, w) /\ w <= n
                /\ w = n \/ (setup[s].kind = "csv" /\ actno'[s] = setup[s].rows)
           \/ ~Writer(s) /\ UNCHANGED <<actions, actions_len>>
        BY <1>1, Batched, Zenon DEF Counts
  <2>2. setup[s].kind # "silent" BY <1>1 DEF StreamBatch
  <2>. HIDE DEF s
  <2>3. ASSUME Writer(s), NEW n \in Nat, NEW w \in Nat, Writes(s, n, w), w <= n,
               w = n \/ (setup[s].kind = "csv" /\ actno'[s] = setup[s].rows)
        PROVE  Buffered'
    <3>1. /\ actions_len' <= Len(actions') /\ actions_len' = n
          /\ \A k \in 1..w : actions'[k] = Fresh(s)
          BY <2>1, <2>3, Written, Zenon DEF Buffered
    <3>2. LongEnough' => w = n
      <4>1. setup[s].kind = "csv" => setup[s].rows \in Nat BY <2>1, Setup DEF StreamSetups
      <4>. QED BY <1>0, <2>1, <2>3, <4>1 DEF LongEnough
    <3>3. LongEnough' => \A k \in 1..actions_len' : actions'[k] = Fresh(s) BY <3>1, <3>2
    <3>. QED BY <1>0, <2>1, <2>3, <3>1, <3>3 DEF Buffered, Fresh
  <2>4. CASE ~Writer(s) /\ UNCHANGED <<actions, actions_len>>
    <3>1. Uniform => \A p \in Streams : ~Writer(p) BY <2>1, <2>2, <2>4 DEF Uniform
    <3>2. Uniform => actions_len' = 0 BY <2>4, <3>1 DEF Buffered
    <3>3. Uniform => \A k \in 1..actions_len' : actions'[k] = Fresh(s) BY <3>2
    <3>. QED BY <1>0, <2>1, <2>4, <3>3 DEF Buffered, Fresh
  <2>. QED BY <2>1, <2>3, <2>4
<1>2. CASE Keeps
  <2>1. Len(actions') = Len(actions)
    <3>1. CASE actions' = actions BY <3>1
    <3>2. CASE Apply
      <4>1. DOMAIN actions = 1..Len(actions) /\ Len(actions) \in Nat BY DEF TypeOK
      <4>. QED BY <3>2, <4>1 DEF Apply
    <3>. QED BY <1>2, <3>1, <3>2 DEF Keeps
  <2>2. pc' \in {"before", "remove_before", "apply"} => actions' = actions
        BY <1>2 DEF Keeps, Apply, Goto
  <2>3. pc' # "remove_stream" /\ actions_len' = actions_len BY <1>2 DEF Keeps
  <2>4. /\ pc' \in {"before", "remove_before", "apply"} =>
             pc \in {"remove_stream", "before", "remove_before"}
        BY <1>2 DEF Keeps
  <2>6. LongEnough' <=> LongEnough BY <1>0, <1>2 DEF Keeps, LongEnough
  <2>5. Uniform /\ LongEnough /\ pc' \in {"remove_stream", "before", "remove_before", "apply"} =>
          \E s \in Streams : \A k \in 1..actions_len : actions'[k] = Fresh(s)
        BY <2>2, <2>3, <2>4 DEF Buffered
  <2>. QED BY <1>0, <2>1, <2>3, <2>5, <2>6 DEF Buffered, Fresh
<1>. QED BY <1>1, <1>2, Kept

------------------------------------------------------------------------------
(* Who has asked to be removed.                                            *)

LEMMA AskedStep ==
  ASSUME TypeOK, Asked, Next
  PROVE  Asked'
<1>. USE DEF Goto, Calls, Returns, control, batch, history, Removing, L!Due
<1>1. CASE Run BY <1>1 DEF Run, Asked
<1>2. CASE ParsedArgs BY <1>2 DEF ParsedArgs, Asked
<1>3. CASE \E p \in Participants : Register(p) BY <1>3 DEF Register, Asked
<1>4. CASE \E p \in Participants : Configure(p)
  <2>1. /\ pc = "args" /\ pc' = "args"
        /\ \E p \in Participants, leaves \in BOOLEAN :
             call' = [who |-> p, what |-> "settings", leaves |-> leaves]
        BY <1>4 DEF Configure
  <2>. QED BY <2>1 DEF Asked
<1>5. CASE \/ \E n \in 1..Len(streams) : DropStream(n)
           \/ \E n \in 1..Len(algs) : DropAlg(n)
      BY <1>5 DEF DropStream, DropAlg, Asked
<1>6. CASE InitStream BY <1>6 DEF InitStream, Asked
<1>7. CASE InitAlg
  <2>1. /\ pc = "init_algs" /\ pc' = "init_algs"
        /\ \E leaves \in BOOLEAN : call' = [who |-> algs[j], what |-> "init", leaves |-> leaves]
        BY <1>7 DEF InitAlg
  <2>. QED BY <2>1 DEF Asked
<1>8. CASE StreamsReady \/ AlgsReady \/ SkipSilent \/ EndRound
      BY <1>8 DEF StreamsReady, AlgsReady, SkipSilent, EndRound, Asked
<1>9. CASE StreamBatch
  <2>1. /\ UNCHANGED <<streams, i>>
        /\ \E remove \in BOOLEAN :
             /\ pc' = IF remove THEN "remove_stream" ELSE "before"
             /\ call' = [who |-> streams[i], what |-> "stream_batch", leaves |-> remove]
        BY <1>9, Zenon DEF StreamBatch
  <2>. QED BY <2>1 DEF Asked
<1>10. CASE RemoveStream BY <1>10 DEF RemoveStream, Asked
<1>11. CASE BeforeBatch BY <1>11 DEF BeforeBatch, Asked
<1>12. CASE EndBefore \/ Apply \/ EndAfter BY <1>12 DEF EndBefore, Apply, EndAfter, Asked
<1>13. CASE AfterBatch BY <1>13 DEF AfterBatch, Asked
<1>14. CASE \E loop \in {"before", "after"} : RemoveAlg(loop) BY <1>14 DEF RemoveAlg, Asked
<1>15. CASE CleanupStream \/ StreamsCleaned BY <1>15 DEF CleanupStream, StreamsCleaned, Asked
<1>16. CASE CleanupAlg \/ AlgsCleaned BY <1>16 DEF CleanupAlg, AlgsCleaned, Asked
<1>17. CASE Over BY <1>17 DEF Over, vars, Asked
<1>. QED BY <1>1, <1>2, <1>3, <1>4, <1>5, <1>6, <1>7, <1>8, <1>9, <1>10, <1>11, <1>12, <1>13,
            <1>14, <1>15, <1>16, <1>17, Zenon DEF Next, Step

------------------------------------------------------------------------------
(* The theorems.                                                           *)

LEMMA InvInit == Init => WInv
<1>. SUFFICES ASSUME Init PROVE WInv OBVIOUS
<1>1. TypeOK /\ Positioned BY TypeInit, PositionedInit
<1>2. streams = <<>> /\ algs = <<>> /\ pc = "register" /\ actions = <<>> /\ actions_len = 0
      BY DEF Init
<1>3. Indexed BY DEF Init, Indexed
<1>4. Staged
  <2>1. /\ life \in [Participants -> Stages]
        /\ \A p \in Participants : life[p] = "absent"
        BY DEF Init, Stages
  <2>2. 1..Len(streams) = {} /\ 1..Len(algs) = {} BY <1>2
  <2>. QED BY <1>2, <2>1, <2>2 DEF Staged, Distinct, Outside, CleanedAtEnd
<1>5. Buffered BY <1>2 DEF Buffered
<1>6. Asked BY <1>2 DEF Init, Asked, L!Due
<1>. QED BY <1>1, <1>3, <1>4, <1>5, <1>6 DEF WInv

LEMMA InvStep == WInv /\ [Next]_vars => WInv'
<1>1. ASSUME WInv, Next PROVE WInv'
      BY <1>1, TypeStep, IndexedStep, StagedStep, PositionedStep, BufferedStep, AskedStep
      DEF WInv, Buffered
<1>2. ASSUME WInv, UNCHANGED vars PROVE WInv'
  <2>1. UNCHANGED <<setup, pc, streams, algs, i, j, batch_num, actno, actions, actions_len,
                    life, call, told>>
        BY <1>2 DEF vars, control, batch, history
  <2>2. TypeOK' BY <1>2, <2>1 DEF WInv, TypeOK
  <2>3. Indexed' BY <1>2, <2>1 DEF WInv, Indexed
  <2>4. Staged' BY <1>2, <2>1 DEF WInv, Staged, StreamStage, AlgStage, Outside, CleanedAtEnd
  <2>5. Positioned' /\ Buffered'
        BY <1>2, <2>1
        DEF WInv, Positioned, Buffered, Uniform, LongEnough, Writer, RecordedEnd, In, Fresh
  <2>6. Asked' BY <1>2, <2>1 DEF WInv, Asked, L!Due
  <2>. QED BY <2>2, <2>3, <2>4, <2>5, <2>6 DEF WInv
<1>. QED BY <1>1, <1>2

LEMMA Invariance == Spec => []WInv
BY InvInit, InvStep, PTL DEF Spec

(* The types, and that a callback that asked to be removed is taken from a *)
(* place that is counted, however the arrays have shifted.                 *)
THEOREM TypeCorrect == Spec => []TypeOK
<1>1. WInv => TypeOK BY DEF WInv
<1>. QED BY <1>1, Invariance, PTL

(* What is applied was written for this round by one stream, and lies      *)
(* inside the array, until a file has been read to its end.                *)
THEOREM BatchesAppliedOnce == Spec => AppliedOnce
<1>1. WInv /\ [Next]_vars =>
        [Uniform /\ LongEnough /\ pc = "apply" /\ pc' = "after" =>
           /\ actions_len <= Len(actions)
           /\ \E s \in Streams : \A k \in 1..actions_len : actions[k] = Fresh(s)]_vars
      BY DEF WInv, Buffered
<1>. QED BY <1>1, Invariance, PTL DEF Spec, AppliedOnce

------------------------------------------------------------------------------
(* The workflow implements Lifecycle.                                      *)

InLoop == {"stream", "remove_stream", "before", "remove_before", "apply", "after",
           "remove_after", "cleanup_streams", "cleanup_algs"}

LEMMA Reached ==
  ASSUME TypeOK, Staged, pc # "done"
  PROVE  /\ pc = "register" => \A p \in Participants : life[p] \in {"absent", "registered"}
         /\ pc = "init_algs" => \A s \in Streams : life[s] # "registered"
         /\ pc \in InLoop => \A p \in Participants : life[p] # "registered"
<1>1. \A k \in 1..Len(algs) : algs[k] \notin Streams BY Entries, SetupsOK
<1>2. ASSUME NEW p \in Participants, In(p, streams)
      PROVE  \E k \in 1..Len(streams) : life[p] = StreamStage(k)
      BY <1>2 DEF In, Staged
<1>3. ASSUME NEW p \in Participants, In(p, algs)
      PROVE  p \notin Streams /\ \E k \in 1..Len(algs) : life[p] = AlgStage(k)
      BY <1>1, <1>3 DEF In, Staged
<1>4. ASSUME NEW p \in Participants
      PROVE  In(p, streams) \/ In(p, algs) \/ life[p] \in Outside
      BY DEF Staged
<1>5. ASSUME pc = "register", NEW p \in Participants PROVE life[p] \in {"absent", "registered"}
      BY <1>2, <1>3, <1>4, <1>5 DEF StreamStage, AlgStage, Outside
<1>6. ASSUME pc = "init_algs", NEW p \in Streams PROVE life[p] # "registered"
  <2>1. p \in Participants BY DEF Participants
  <2>. QED BY <1>2, <1>3, <1>4, <1>6, <2>1 DEF StreamStage, AlgStage, Outside
<1>7. ASSUME pc \in InLoop, NEW p \in Participants PROVE life[p] # "registered"
      BY <1>2, <1>3, <1>4, <1>7 DEF StreamStage, AlgStage, Outside, InLoop
<1>. QED BY <1>5, <1>6, <1>7

(* What is known of the entry that is called.                              *)
LEMMA Called ==
  ASSUME TypeOK, Staged, pc # "done"
  PROVE  /\ \A k \in 1..Len(streams) : /\ streams[k] \in Streams /\ streams[k] \in Participants
                                       /\ streams[k] \notin Algs
                                       /\ life[streams[k]] = StreamStage(k)
         /\ \A k \in 1..Len(algs) : /\ algs[k] \in Algs /\ algs[k] \in Participants
                                    /\ algs[k] \notin Streams /\ life[algs[k]] = AlgStage(k)
BY Entries, SetupsOK DEF Staged, Participants

LEMMA LifecycleStep ==
  ASSUME TypeOK, Indexed, Staged, Staged', Asked, Next
  PROVE  [L!Next]_(L!vars)
<1>. USE DEF Goto, Calls, Returns, Becomes, control, batch, history, L!Becomes, L!Calls
<1>0. /\ L!Participants = Participants
      /\ Len(streams) \in Nat /\ Len(algs) \in Nat /\ i \in Nat \ {0} /\ j \in Nat \ {0}
      BY Entries DEF L!Participants, Participants
<1>00. /\ pc # "done" => call.what # "return"
       /\ L!Due => pc \in {"remove_stream", "remove_before", "remove_after"}
       /\ pc = "remove_stream" => call.who = streams[i]
       /\ pc \in {"remove_before", "remove_after"} => call.who = algs[j]
       BY DEF Asked
<1>1. ASSUME NEW p \in Participants, Register(p) PROVE L!Next
  <2>1. pc # "done" /\ L!Register(p) BY <1>0, <1>1, Reached DEF Register, L!Register
  <2>. QED BY <1>0, <1>00, <2>1, Zenon DEF L!Next
<1>2. ASSUME NEW p \in Participants, Configure(p) PROVE L!Next
  <2>1. pc # "done" /\ \E leaves \in BOOLEAN : L!Configure(p, leaves)
        BY <1>2 DEF Configure, L!Configure
  <2>. QED BY <1>0, <1>00, <2>1, Zenon DEF L!Next
<1>3. ASSUME NEW n \in 1..Len(streams), DropStream(n) PROVE L!Next
  <2>1. pc # "done" /\ L!Drop(streams[n]) /\ streams[n] \in Participants
        BY <1>3, Called DEF DropStream, L!Drop, StreamStage
  <2>. QED BY <1>0, <1>00, <2>1, Zenon DEF L!Next
<1>4. ASSUME NEW n \in 1..Len(algs), DropAlg(n) PROVE L!Next
  <2>1. pc # "done" /\ L!Drop(algs[n]) /\ algs[n] \in Participants
        BY <1>4, Called DEF DropAlg, L!Drop, AlgStage
  <2>. QED BY <1>0, <1>00, <2>1, Zenon DEF L!Next
<1>5. CASE InitStream
  <2>1. pc = "init_streams" /\ i \in 1..Len(streams) BY <1>0, <1>5 DEF InitStream
  <2>2. L!Start(streams[i], FALSE) /\ streams[i] \in Participants
        BY <1>0, <1>5, <2>1, Called DEF InitStream, L!Start, StreamStage
  <2>3. pc # "done" /\ FALSE \in BOOLEAN BY <2>1
  <2>. QED BY <1>0, <1>00, <2>2, <2>3, Zenon DEF L!Next
<1>6. CASE InitAlg
  <2>1. pc = "init_algs" /\ j \in 1..Len(algs) BY <1>0, <1>6 DEF InitAlg
  <2>2. PICK leaves \in BOOLEAN : Calls(algs[j], "init", leaves) BY <1>6 DEF InitAlg
  <2>3. L!Start(algs[j], leaves) /\ algs[j] \in Participants
        BY <1>0, <1>6, <2>1, <2>2, Called, Reached DEF InitAlg, L!Start, AlgStage
  <2>4. pc # "done" BY <2>1
  <2>. QED BY <1>0, <1>00, <2>3, <2>4, Zenon DEF L!Next
<1>7. CASE StreamBatch
  <2>1. pc = "stream" /\ i \in 1..Len(streams) BY <1>0, <1>7 DEF StreamBatch
  <2>2. PICK remove \in BOOLEAN :
          UNCHANGED life /\ call' = [who |-> streams[i], what |-> "stream_batch", leaves |-> remove]
        BY <1>7, Zenon DEF StreamBatch
  <2>3. L!Batch(streams[i], "stream_batch", remove) /\ streams[i] \in Participants
        BY <1>0, <1>00, <2>1, <2>2, Called, Reached DEF L!Batch, StreamStage, InLoop
  <2>4. pc # "done" /\ "stream_batch" \in L!Callbacks BY <2>1 DEF L!Callbacks
  <2>. QED BY <1>0, <1>00, <2>3, <2>4, Zenon DEF L!Next
<1>8. CASE BeforeBatch \/ AfterBatch
  <2>1. PICK what \in {"before_batch", "after_batch"}, leaves \in BOOLEAN :
          /\ pc \in {"before", "after"} /\ j <= Len(algs) /\ UNCHANGED life
          /\ call' = [who |-> algs[j], what |-> what, leaves |-> leaves]
        BY <1>8 DEF BeforeBatch, AfterBatch
  <2>2. L!Batch(algs[j], what, leaves) /\ algs[j] \in Participants
        BY <1>0, <1>00, <2>1, Called, Reached DEF L!Batch, AlgStage, InLoop
  <2>3. pc # "done" /\ what \in L!Callbacks BY <2>1 DEF L!Callbacks
  <2>. QED BY <1>0, <1>00, <2>2, <2>3, Zenon DEF L!Next
<1>9. CASE RemoveStream \/ CleanupStream
  <2>1. /\ pc \in {"remove_stream", "cleanup_streams"} /\ i \in 1..Len(streams)
        /\ life' = [life EXCEPT ![streams[i]] = "cleaned"]
        /\ call' = [who |-> streams[i], what |-> "cleanup", leaves |-> FALSE]
        BY <1>0, <1>9 DEF RemoveStream, CleanupStream, TypeOK
  <2>2. L!Finish(streams[i]) /\ streams[i] \in Participants
        BY <1>0, <1>00, <2>1, Called, Reached DEF L!Finish, StreamStage, InLoop
  <2>3. pc # "done" BY <2>1
  <2>. QED BY <1>0, <1>00, <2>2, <2>3, Zenon DEF L!Next
<1>10. CASE CleanupAlg \/ \E loop \in {"before", "after"} : RemoveAlg(loop)
  <2>1. /\ pc \in {"remove_before", "remove_after", "cleanup_algs"} /\ j \in 1..Len(algs)
        /\ life' = [life EXCEPT ![algs[j]] = "cleaned"]
        /\ call' = [who |-> algs[j], what |-> "cleanup", leaves |-> FALSE]
        BY <1>0, <1>10 DEF RemoveAlg, Removing, CleanupAlg, TypeOK
  <2>2. L!Finish(algs[j]) /\ algs[j] \in Participants
        BY <1>0, <1>00, <2>1, Called, Reached DEF L!Finish, AlgStage, InLoop
  <2>3. pc # "done" BY <2>1
  <2>. QED BY <1>0, <1>00, <2>2, <2>3, Zenon DEF L!Next
<1>14. ASSUME pc # "done", pc' = "done", UNCHANGED life, Returns PROVE L!Next
  <2>1. \A p \in Participants : life[p] # "ready" BY <1>14 DEF Staged, CleanedAtEnd
  <2>2. L!Return BY <1>0, <1>14, <2>1 DEF L!Return
  <2>. QED BY <1>00, <1>14, <2>2, Zenon DEF L!Next
<1>11. ASSUME UNCHANGED <<life, call>> PROVE UNCHANGED L!vars BY <1>11 DEF L!vars
<1>15. CASE ParsedArgs
  <2>1. /\ pc = "args" /\ UNCHANGED life
        /\ (pc' = "done" /\ Returns) \/ UNCHANGED call
        BY <1>15 DEF ParsedArgs
  <2>. QED BY <1>11, <1>14, <2>1
<1>16. CASE AlgsCleaned BY <1>14, <1>16 DEF AlgsCleaned
<1>12. CASE Run \/ StreamsReady \/ AlgsReady \/ SkipSilent \/ EndRound
       BY <1>11, <1>12 DEF Run, StreamsReady, AlgsReady, SkipSilent, EndRound
<1>13. CASE EndBefore \/ Apply \/ EndAfter \/ StreamsCleaned \/ Over
       BY <1>11, <1>13 DEF EndBefore, Apply, EndAfter, StreamsCleaned, Over, vars
<1>. QED BY <1>1, <1>2, <1>3, <1>4, <1>5, <1>6, <1>7, <1>8, <1>9, <1>10, <1>12, <1>13, <1>15,
            <1>16, Zenon DEF Next, Step

(* The loop keeps the order of calls, whatever is removed while it runs:   *)
(* one init, batches between init and cleanup, one cleanup, at once for    *)
(* who asks by a batch callback, nobody left out when the run returns.     *)
THEOREM LifecycleImplemented == Spec => ImplementsLifecycle
<1>1. Init => L!Init
      BY DEF Init, L!Init, L!Participants, Participants
<1>2. WInv /\ WInv' /\ [Next]_vars => [L!Next]_(L!vars)
  <2>1. ASSUME UNCHANGED vars PROVE UNCHANGED L!vars BY <2>1 DEF vars, history, L!vars
  <2>. QED BY <2>1, LifecycleStep DEF WInv
<1>. QED BY <1>1, <1>2, Invariance, PTL DEF Spec, L!Spec, ImplementsLifecycle
==============================================================================

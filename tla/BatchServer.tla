---------------------------- MODULE BatchServer ------------------------------
(***************************************************************************)
(* The batch server of server.cpp: the accept loop of main, the framing of *)
(* src/proto/send_rcv.cpp and process_batch, whose OpenMP loops apply the  *)
(* insertions of a batch and then its deletions from all threads.          *)
(*                                                                         *)
(* A call of the edge store or of the physical map is one atomic step, as  *)
(* EdgeSet has it and as StingerNames shows for strings of different       *)
(* buckets.  Batches that remove an edge twice, whose second removal never *)
(* returns (StingerEdges), are left out.  Label propagation, which follows *)
(* each batch, is the module Labels; the community detection of src-demo   *)
(* is left out.                                                            *)
(***************************************************************************)
EXTENDS Integers, Sequences, FiniteSets

CONSTANTS
  Threads,    \* the team of the parallel region
  Names,      \* the strings that name vertices
  Lower,      \* Lower[n]: n with ascii_tolower applied
  Empty,      \* the empty string
  LV,         \* STINGER_MAX_LVERTICES
  MaxTime,    \* the largest int64_t
  Sessions    \* what clients may send: sequences of connections

(* What a client sends: the messages, the position where it stops, which   *)
(* is their end or within one, and whether it then closes the connection.  *)
(* A message takes two units for its prefix and then size units of body; a *)
(* read may end between any two.  parses is FALSE if the parser refuses    *)
(* the body.  LV stands for every number that is too large.                *)
Endpoints == (0..LV) \cup Names
Batches ==
  [type : {"NUMBERS_ONLY", "STRINGS_ONLY", "MIXED"}, keep_alive : BOOLEAN,
   size : Nat, parses : BOOLEAN,
   ins : Seq([source : Endpoints, destination : Endpoints, time : 0..MaxTime]),
   del : Seq([source : Endpoints, destination : Endpoints])]
Connections ==
  [messages : Seq(Batches), stop : [msg : Nat \ {0}, part : Nat], hangup : BOOLEAN]

(* A position is that of the next unit: part 0 and 1 are the prefix.       *)
Position(m, p) == [msg |-> m, part |-> p]
Places(c) ==
  (UNION {{Position(m, p) : p \in 0..c.messages[m].size + 1} : m \in 1..Len(c.messages)})
    \cup {Position(Len(c.messages) + 1, 0)}

(* No session has more strings than the map has numbers, LV * 128          *)
(* (stinger.c:589).                                                        *)
ASSUME ServerOK ==
  /\ {LV, MaxTime} \subseteq Nat \ {0} /\ Empty \in Names /\ Lower \in [Names -> Names]
  /\ IsFiniteSet(Names) /\ Cardinality(Names) <= LV * 128
  /\ Sessions \subseteq Seq(Connections)
  /\ \A s \in Sessions : \A c \in 1..Len(s) : s[c].stop \in Places(s[c])

VARIABLES
  session, conn,   \* the connections, and which of them is open
  pc, cur, nfail,  \* main: where it is, the message being received, nfail
  sent, got,       \* the units of the connection that come next: the one to
                   \* arrive, the one to be read
  vertex,          \* the physical map: vertex[n], or -1
  next_type,       \* the number the map gives out next
  graph,           \* the directed edges of the edge store
  todo,            \* the iterations of the loop that nobody has taken
  th,              \* th[t]: program counter and locals of a thread
  nincr, incr, nrem, rem,
  mints, maxts,    \* min_batch_ts, max_batch_ts
  dropped,         \* dropped_vertices
  before,          \* history: the graph before the batch
  handled, short   \* history: messages received; a read ended within a message

net   == <<session, conn, pc, cur, nfail, sent, got, handled, short>>
accum == <<nincr, incr, nrem, rem>>
stamps == <<mints, maxts>>
store == <<vertex, graph, next_type>>
vars  == <<net, store, todo, th, accum, stamps, dropped, before>>

Here    == session[conn]
Batch   == Here.messages[cur]
Idle    == [pc |-> "idle", k |-> 0, u |-> -1, v |-> -1, mx |-> 0, mn |-> MaxTime]

First == Position(1, 0)
End   == Here.stop
After(x) == IF x.part < Here.messages[x.msg].size + 1
            THEN Position(x.msg, x.part + 1) ELSE Position(x.msg + 1, 0)
UpTo(x, y) == x.msg < y.msg \/ (x.msg = y.msg /\ x.part <= y.part)

Init ==
  /\ session \in Sessions /\ conn = 0
  /\ pc = "accept" /\ cur = 0 /\ nfail = 0 /\ sent = First /\ got = First
  /\ vertex = [n \in Names |-> -1] /\ next_type = 0 /\ graph = {} /\ todo = {}
  /\ th = [t \in Threads |-> Idle]
  /\ nincr = 0 /\ incr = <<>> /\ nrem = 0 /\ rem = <<>>
  /\ mints = 0 /\ maxts = 0 /\ dropped = FALSE
  /\ before = {} /\ handled = <<>> /\ short = FALSE

------------------------------------------------------------------------------
(* The accept loop and recv_message.                                       *)

rest == <<store, todo, th, accum, stamps, dropped, before>>

Accept ==
  /\ pc = "accept" /\ conn < Len(session)
  /\ conn' = conn + 1 /\ pc' = "prefix" /\ nfail' = 0 /\ sent' = First /\ got' = First
  /\ UNCHANGED <<session, cur, handled, short, rest>>

(* Any number of units may be there before the server looks again.         *)
Arrive ==
  /\ pc \in {"prefix", "body", "junk"} /\ sent # End /\ sent' = After(sent)
  /\ UNCHANGED <<session, conn, pc, cur, nfail, got, handled, short, rest>>

(* recv_message returned false; the third time in a row ends main.         *)
Fail ==
  /\ nfail' = nfail + 1
  /\ pc' = IF nfail' > 2 THEN "exited" ELSE "prefix"

(* The read of the prefix finds one, or what a failed read left behind.    *)
ReadPrefix ==
  /\ pc = "prefix" /\ got # sent /\ After(got) # sent /\ got' = After(After(got))
  /\ IF got.part = 0
     THEN pc' = "body" /\ cur' = got.msg
     ELSE pc' = "junk" /\ UNCHANGED cur
  /\ UNCHANGED <<session, conn, nfail, sent, handled, short, rest>>

(* Only half of a prefix is there.                                         *)
ShortPrefix ==
  /\ pc = "prefix" /\ got # sent /\ After(got) = sent /\ got' = sent
  /\ Fail /\ short' = TRUE
  /\ UNCHANGED <<session, conn, cur, sent, handled, rest>>

(* A length made of other bytes: the allocation throws, or as much as it   *)
(* says of what is there is read, and is too short or no message.          *)
ReadJunk ==
  /\ pc = "junk"
  /\ \/ pc' = "exited" /\ UNCHANGED <<got, nfail>>
     \/ /\ got' \in {x \in Places(Here) : UpTo(got, x) /\ UpTo(x, sent)} \ {got}
        /\ Fail
  /\ UNCHANGED <<session, conn, cur, sent, handled, short, rest>>

(* How much of the body is there.                                          *)
Waiting == IF sent.msg > cur THEN Batch.size ELSE sent.part - 2

(* The client has closed the connection, and all it sent has been read:    *)
(* read returns 0.                                                         *)
ReadClosed ==
  /\ pc \in {"prefix", "body", "junk"} /\ Here.hangup /\ got = End
  /\ pc = "body" => Waiting < Batch.size
  /\ Fail /\ short' = (short \/ pc = "body")
  /\ UNCHANGED <<session, conn, cur, sent, got, handled, rest>>

(* A reader that takes all there is, up to the next message and beyond.    *)
Receive_ReadsOn ==
  /\ pc = "body" /\ Waiting = Batch.size /\ Batch.parses /\ got' = sent
  /\ nfail' = 0 /\ handled' = Append(handled, <<conn, cur>>)
  /\ pc' = (IF Batch.keep_alive THEN "prefix" ELSE "accept") /\ UNCHANGED rest
  /\ UNCHANGED <<session, conn, cur, sent, short>>

(* The body is all there.  An empty batch only keeps the connection open.  *)
Receive ==
  /\ pc = "body" /\ Waiting = Batch.size /\ Batch.parses /\ got' = Position(cur + 1, 0)
  /\ nfail' = 0 /\ handled' = Append(handled, <<conn, cur>>)
  /\ IF Batch.ins = <<>> /\ Batch.del = <<>>
     THEN pc' = (IF Batch.keep_alive THEN "prefix" ELSE "accept") /\ UNCHANGED rest
     ELSE /\ pc' = "insert" /\ todo' = DOMAIN Batch.ins
          /\ nincr' = 0 /\ nrem' = 0
          /\ incr' = [w \in DOMAIN Batch.ins |-> <<>>] /\ rem' = [w \in DOMAIN Batch.del |-> <<>>]
          /\ mints' = MaxTime /\ maxts' = 0 /\ before' = graph
          /\ UNCHANGED <<store, th, dropped>>
  /\ UNCHANGED <<session, conn, cur, sent, short>>

(* ParseFromCodedStream failed.                                            *)
Refuse ==
  /\ pc = "body" /\ Waiting = Batch.size /\ ~Batch.parses /\ got' = Position(cur + 1, 0)
  /\ Fail /\ UNCHANGED <<session, conn, cur, sent, handled, short, rest>>

ShortBody ==
  /\ pc = "body" /\ Waiting \in 1..Batch.size - 1 /\ got' = sent
  /\ Fail /\ short' = TRUE
  /\ UNCHANGED <<session, conn, cur, sent, handled, rest>>

------------------------------------------------------------------------------
(* What the batch's type makes of the ends of an edge, and the physical    *)
(* map.                                                                    *)

(* The type says whether the field for numbers or the one for strings is   *)
(* read; one that is not set reads as its default.                         *)
Decoded(e, default) ==
  CASE Batch.type = "NUMBERS_ONLY" -> IF e \in Names THEN default ELSE e
    [] Batch.type = "STRINGS_ONLY" -> IF e \in Names THEN e ELSE Empty
    [] OTHER -> e
Source(x)      == Decoded(x.source, 0)
Destination(x) == Decoded(x.destination, 1)

(* stinger_mapping_create.  Numbers go on behind LV - 1, up to LV * 128.   *)
MapCreate(n) ==
  \/ vertex[n] # -1 /\ UNCHANGED <<vertex, next_type>>
  \/ /\ vertex[n] = -1
     /\ vertex' = [vertex EXCEPT ![n] = next_type] /\ next_type' = next_type + 1

MapLookup(n) == vertex[n]

------------------------------------------------------------------------------
(* One iteration of the loop over insertions.                              *)

Runs(t, loop, label) == pc = loop /\ th[t].pc = label
Move(t, to) == th' = [th EXCEPT ![t] = to]
At(t, label) == [th[t] EXCEPT !.pc = label]
Main == <<net, todo, accum, stamps, before>>

TakeInsertion(t) ==
  /\ Runs(t, "insert", "idle")
  /\ \E k \in todo :
       LET ts == Batch.ins[k].time
       IN  /\ todo' = todo \ {k}
           /\ Move(t, [At(t, "source") EXCEPT !.k = k,
                   !.mx = IF ts > @ THEN ts ELSE @, !.mn = IF ts < @ THEN ts ELSE @])
  /\ UNCHANGED <<net, store, accum, stamps, dropped, before>>

(* A number is the vertex; a string has the one the map gives.             *)
VertexOf(e, map) == IF e \in Names THEN map[Lower[e]] ELSE e
Resolve(e) == IF e \in Names THEN MapCreate(Lower[e]) ELSE UNCHANGED <<vertex, next_type>>

InsertSource(t) ==
  /\ Runs(t, "insert", "source")
  /\ LET e == Source(Batch.ins[th[t].k]) IN
       Resolve(e) /\ Move(t, [At(t, "destination") EXCEPT !.u = VertexOf(e, vertex')])
  /\ UNCHANGED <<Main, graph, dropped>>

(* In a MIXED batch the destination is decoded into the buffer of the      *)
(* source, and the string that is mapped is dest, which only the loop over *)
(* deletions ever writes: it is still empty.                               *)
DestinationOf(in) ==
  IF Batch.type = "MIXED" /\ in.destination \in Names THEN Empty ELSE Destination(in)

(* Without the test against the largest vertex.                            *)
InsertDestination_Any(t) ==
  /\ Runs(t, "insert", "destination")
  /\ LET e == DestinationOf(Batch.ins[th[t].k]) IN
       Resolve(e) /\ Move(t, [At(t, "forward") EXCEPT !.v = VertexOf(e, vertex')])
  /\ UNCHANGED <<Main, graph, dropped>>

InsertDestination(t) ==
  /\ Runs(t, "insert", "destination")
  /\ LET e == DestinationOf(Batch.ins[th[t].k])
         v == VertexOf(e, vertex')
     IN  /\ Resolve(e)
         /\ IF th[t].u < LV /\ v < LV
            THEN Move(t, [At(t, "forward") EXCEPT !.v = v]) /\ UNCHANGED dropped
            ELSE Move(t, At(t, "idle")) /\ dropped' = TRUE
  /\ UNCHANGED <<Main, graph>>

(* stinger_incr_edge_pair: one direction, then the other; self-loops are   *)
(* refused.                                                                *)
AddEdge(u, v) == graph' = IF u = v THEN graph ELSE graph \cup {<<u, v>>}
RemoveEdge(u, v) == graph' = graph \ {<<u, v>>}

Forward(t) ==
  /\ Runs(t, "insert", "forward") /\ AddEdge(th[t].u, th[t].v) /\ Move(t, At(t, "back"))
  /\ UNCHANGED <<Main, vertex, next_type, dropped>>

(* The second half adds the first direction again.                         *)
Back_Again(t) ==
  /\ Runs(t, "insert", "back") /\ AddEdge(th[t].u, th[t].v) /\ Move(t, At(t, "count"))
  /\ UNCHANGED <<Main, vertex, next_type, dropped>>

Back(t) ==
  /\ Runs(t, "insert", "back") /\ AddEdge(th[t].v, th[t].u) /\ Move(t, At(t, "count"))
  /\ UNCHANGED <<Main, vertex, next_type, dropped>>

(* A plain increment, which may lose the one of another thread.            *)
CountInsertion_Plain(t) ==
  /\ Runs(t, "insert", "count") /\ nincr' \in {nincr, nincr + 1} \ {0}
  /\ Move(t, [At(t, "store") EXCEPT !.k = nincr'])
  /\ UNCHANGED <<net, store, todo, incr, nrem, rem, stamps, dropped, before>>

(* The place is claimed with an atomic increment and then filled.          *)
CountInsertion(t) ==
  /\ Runs(t, "insert", "count") /\ nincr' = nincr + 1
  /\ Move(t, [At(t, "store") EXCEPT !.k = nincr + 1])
  /\ UNCHANGED <<net, store, todo, incr, nrem, rem, stamps, dropped, before>>

StoreInsertion(t) ==
  /\ Runs(t, "insert", "store") /\ incr' = [incr EXCEPT ![th[t].k] = <<th[t].u, th[t].v>>]
  /\ Move(t, At(t, "idle"))
  /\ UNCHANGED <<net, store, todo, nincr, nrem, rem, stamps, dropped, before>>

------------------------------------------------------------------------------
(* The barriers, the loop over deletions and the end of the batch.         *)

Barrier(label) == pc = label /\ todo = {} /\ \A t \in Threads : th[t].pc = "idle"

EndInsertions ==
  /\ Barrier("insert") /\ pc' = "delete" /\ todo' = DOMAIN Batch.del
  /\ UNCHANGED <<session, conn, cur, nfail, sent, got, handled, short,
                 store, th, accum, stamps, dropped, before>>

Found(e) == IF e \in Names THEN MapLookup(Lower[e]) ELSE e

(* Deletions of what is not mapped are ignored.                            *)
TakeDeletion(t) ==
  /\ Runs(t, "delete", "idle")
  /\ \E k \in todo :
       LET u == Found(Source(Batch.del[k]))
           v == Found(Destination(Batch.del[k]))
       IN  /\ todo' = todo \ {k}
           /\ \/ /\ u = -1 \/ v = -1
                 /\ Move(t, At(t, "idle")) /\ UNCHANGED dropped
              \/ /\ u # -1 /\ v # -1 /\ (u >= LV \/ v >= LV)
                 /\ Move(t, At(t, "idle")) /\ dropped' = TRUE
              \/ /\ u # -1 /\ v # -1 /\ u < LV /\ v < LV
                 /\ Move(t, [At(t, "forward") EXCEPT !.k = k, !.u = u, !.v = v])
                 /\ UNCHANGED dropped
  /\ UNCHANGED <<net, store, accum, stamps, before>>

RemoveForward(t) ==
  /\ Runs(t, "delete", "forward") /\ RemoveEdge(th[t].u, th[t].v) /\ Move(t, At(t, "back"))
  /\ UNCHANGED <<Main, vertex, next_type, dropped>>

RemoveBack(t) ==
  /\ Runs(t, "delete", "back") /\ RemoveEdge(th[t].v, th[t].u) /\ Move(t, At(t, "count"))
  /\ UNCHANGED <<Main, vertex, next_type, dropped>>

CountDeletion(t) ==
  /\ Runs(t, "delete", "count") /\ nrem' = nrem + 1
  /\ Move(t, [At(t, "store") EXCEPT !.k = nrem + 1])
  /\ UNCHANGED <<net, store, todo, nincr, incr, rem, stamps, dropped, before>>

StoreDeletion(t) ==
  /\ Runs(t, "delete", "store") /\ rem' = [rem EXCEPT ![th[t].k] = <<th[t].u, th[t].v>>]
  /\ Move(t, At(t, "idle"))
  /\ UNCHANGED <<net, store, todo, nincr, incr, nrem, stamps, dropped, before>>

EndDeletions ==
  /\ Barrier("delete") /\ pc' = "stamps"
  /\ UNCHANGED <<session, conn, cur, nfail, sent, got, handled, short, rest>>

(* The critical section that folds the thread's own stamps in.             *)
MergeStamps(t) ==
  /\ Runs(t, "stamps", "idle")
  /\ maxts' = (IF th[t].mx > maxts THEN th[t].mx ELSE maxts)
  /\ mints' = (IF th[t].mn < mints THEN th[t].mn ELSE mints)
  /\ Move(t, At(t, "merged"))
  /\ UNCHANGED <<net, store, todo, accum, dropped, before>>

EndRegion ==
  /\ pc = "stamps" /\ \A t \in Threads : th[t].pc = "merged"
  /\ th' = [t \in Threads |-> Idle] /\ pc' = "finish"
  /\ UNCHANGED <<session, conn, cur, nfail, sent, got, handled, short,
                 store, todo, accum, stamps, dropped, before>>

(* One batch for each connection.                                          *)
Finish_Leaves ==
  /\ pc = "finish" /\ pc' = "accept"
  /\ UNCHANGED <<session, conn, cur, nfail, sent, got, handled, short, rest>>

(* After the analyses the connection is kept or left for the next one.  It *)
(* is never closed.                                                        *)
Finish ==
  /\ pc = "finish" /\ pc' = IF Batch.keep_alive THEN "prefix" ELSE "accept"
  /\ UNCHANGED <<session, conn, cur, nfail, sent, got, handled, short, rest>>

Worker(t) ==
  \/ TakeInsertion(t) \/ InsertSource(t) \/ InsertDestination(t) \/ Forward(t) \/ Back(t)
  \/ CountInsertion(t) \/ StoreInsertion(t)
  \/ TakeDeletion(t) \/ RemoveForward(t) \/ RemoveBack(t) \/ CountDeletion(t) \/ StoreDeletion(t)
  \/ MergeStamps(t)

MainThread ==
  \/ Accept \/ ReadPrefix \/ ShortPrefix \/ ReadJunk \/ ReadClosed
  \/ Receive \/ Refuse \/ ShortBody
  \/ EndInsertions \/ EndDeletions \/ EndRegion \/ Finish

(* main has returned, or waits for a client that says nothing more.        *)
Over ==
  /\ \/ pc = "exited"
     \/ pc = "accept" /\ conn = Len(session)
     \/ pc \in {"prefix", "body", "junk"} /\ got = End /\ ~Here.hangup
  /\ UNCHANGED vars

Next == MainThread \/ Arrive \/ (\E t \in Threads : Worker(t)) \/ Over

Spec == Init /\ [][Next]_vars
FairSpec ==
  /\ Spec /\ WF_vars(MainThread) /\ WF_vars(Arrive)
  /\ \A t \in Threads : WF_vars(Worker(t))

------------------------------------------------------------------------------
(* Properties.                                                             *)

Edge == (0..LV - 1) \X (0..LV - 1)
Labels == {"accept", "prefix", "body", "junk", "insert", "delete", "stamps", "finish", "exited"}
Locals ==
  [pc : {"idle", "source", "destination", "forward", "back", "count", "store", "merged"},
   k : Nat, u : Nat \cup {-1}, v : Nat \cup {-1}, mx : Nat, mn : Nat]

(* Types, and that the map has given out the numbers below next_type only. *)
TypeOK ==
  /\ session \in Sessions /\ conn \in 0..Len(session) /\ pc \in Labels /\ cur \in Nat
  /\ nfail \in 0..3 /\ {sent, got} \subseteq [msg : Nat \ {0}, part : Nat]
  /\ next_type \in Nat /\ vertex \in [Names -> {-1} \cup 0..next_type - 1]
  /\ graph \subseteq Edge /\ todo \subseteq Nat
  /\ th \in [Threads -> Locals] /\ DOMAIN incr \subseteq Nat /\ DOMAIN rem \subseteq Nat
  /\ nincr \in 0..Len(incr) /\ nrem \in 0..Len(rem)
  /\ dropped \in BOOLEAN /\ short \in BOOLEAN

(* What the batch asks for, by the numbers its strings have in the end.    *)
Ends(x) == <<Found(Source(x)), Found(Destination(x))>>
Accepted(list) == {k \in DOMAIN list : Ends(list[k]) \in Edge}
Pairs(list) == {Ends(list[k]) : k \in Accepted(list)}
BothWays(pairs) == {e \in pairs \cup {<<e[2], e[1]>> : e \in pairs} : e[1] # e[2]}

(* "Inserts and removes the edges contained in a batch. Maps new vertices  *)
(* as needed for insertions. Deletions with non-existant vertices are      *)
(* ignored." (server.cpp:116-119): whatever the threads do at once, the    *)
(* batch adds all its edges in both directions and then removes those it   *)
(* deletes, those apart that have a number from LV on.                     *)
BatchOutcome ==
  pc = "finish" =>
    graph = (before \cup BothWays(Pairs(Batch.ins))) \ BothWays(Pairs(Batch.del))

(* The arrays handed to the community update hold every change that was    *)
(* made, without a gap and without one written over another                *)
(* (server.cpp:101-104); what is dropped or ignored has no entry.          *)
AccumulatedAll ==
  pc = "finish" =>
    /\ nincr = Cardinality(Accepted(Batch.ins)) /\ nrem = Cardinality(Accepted(Batch.del))
    /\ {incr[w] : w \in 1..nincr} = Pairs(Batch.ins)
    /\ {rem[w] : w \in 1..nrem} = Pairs(Batch.del)

(* The server loses its place in the stream only after a read that ended   *)
(* within a message; until then it takes the messages of a connection in   *)
(* the order they were sent, none twice and none left out but those that   *)
(* do not parse.                                                           *)
KeepsStep ==
  /\ pc = "junk" => short
  /\ ~short => \A x \in DOMAIN handled :
       LET c == handled[x][1]
           m == handled[x][2]
       IN  /\ session[c].messages[m].parses
           /\ \A y \in 1..x - 1 : handled[y][1] = c => handled[y][2] < m
           /\ \A l \in 1..m - 1 : session[c].messages[l].parses =>
                \E y \in 1..x - 1 : handled[y] = <<c, l>>

(* Clients that end each connection with a message that says so are all    *)
(* served, up to the message that says so, unless a message arrives in     *)
(* pieces.  No client sends three messages in a row that do not parse.     *)
Wanted ==
  UNION {LET ms == session[c].messages IN
         {<<c, m>> : m \in {x \in DOMAIN ms : /\ ms[x].parses
                            /\ \A l \in 1..x - 1 : ms[l].parses => ms[l].keep_alive}} :
         c \in DOMAIN session}
Polite ==
  \A c \in DOMAIN session :
    LET ms == session[c].messages IN
    /\ \E m \in DOMAIN ms : ms[m].parses /\ ~ms[m].keep_alive /\ m < session[c].stop.msg
    /\ \A m \in DOMAIN ms : \E l \in m..m + 2 : l \in DOMAIN ms => ms[l].parses
Served == Polite ~> (short \/ Wanted \subseteq {handled[x] : x \in DOMAIN handled})

------------------------------------------------------------------------------
(* What an assertion claims and the code does not do.                      *)

(* "assert (dropped_vertices || nrem == batch.deletions_size ());"         *)
(* (server.cpp:228, 295), behind the loop over deletions, which ignores    *)
(* those of strings that are not mapped.                                   *)
AssertedDeletions == pc = "stamps" => dropped \/ nrem = Len(Batch.del)
==============================================================================

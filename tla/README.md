# STINGER in TLA+

STINGER keeps a large graph that many threads update at once: a vertex array
whose entries head linked lists of *edge blocks*, a pool those blocks come from,
an array of blocks per edge type, and a string map that turns the outside
world's identifiers into vertex numbers. A batch server and a workflow library
feed it batches of insertions and removals from OpenMP loops and run analyses in
between. This directory models the parts of it where threads meet, checks the
models with TLC and proves the most important facts with TLAPS.

## 1. Inventory

| Component | State | Operations | Talks to |
| --- | --- | --- | --- |
| full/empty words (`src/util/x86-full-empty.c`, `inc/core/stinger-atomics.h`) | one 64-bit word; `MARKER` (`UINT64_MAX`) is "empty" | `readfe`, `readff`, `writeef`, `writeff`, `writexf`, fetch-and-add | everything below locks with it |
| edge store, update (`src/core/stinger.c` 660-1260) | blocks, block pool, edge type arrays, degrees, total weight, `max_active_vertex` | `stinger_insert_edge`, `stinger_incr_edge`, `stinger_remove_edge` and the pair forms | full/empty words; called from every batch loop |
| edge store, bulk (`stinger_set_initial_edges`, `stinger_remove_all_edges_of_type`) | the same | load a CSR graph, empty a type | edge store |
| edge store, readers (`stinger-traversal.h`, `stinger-iterator.c`, gather functions) | an iterator's position | traversals by vertex, by type, filtered | read the edge store without locks |
| checkpoint (`stinger_save_to_file`, `stinger_open_from_file`) | a file | save, open | edge store, physical map |
| consistency check (`stinger_consistency_check`) | none | one pass | edge store at rest |
| vertex array (`stinger-vertex.c`) | type, weight, degrees, list head | accessors, atomic increments | edge store |
| names (`stinger-names.c`) | open-addressing table, string storage, inverse map, two counters | create, look up by string, look up by number | full/empty words |
| physical vertex map (`stinger-physmap.c`) | a names table | create, look up, remove (not provided) | names |
| workflow (`stinger-workflow.c`) | registered streams, algorithms and named results | register, unregister, run, query | callbacks; edge store |
| batch server (`server.cpp`, `src/proto`) | the graph, component labels, a socket | accept, receive, `process_batch`, `components_batch` | client; physical map; edge store |
| batch client (`client_demo.cpp`) | a file, a socket | read lines, send batches | server |
| algorithms (`src/alg`) | per-vertex arrays | `init`, `before_batch`, `after_batch` | workflow, readers |
| streams (`src/stream`), web pages (`src/util/web.c`), demos (`src-demo`) | files, sockets | batches, HTTP answers | workflow, readers |
| containers (`lib/kv_store`, `lib/int-ht-seq`, ...) | sequential tables | get, set, delete | workflow, configuration |

What makes the system hard, component by component:

* **Full/empty words.** A load, then a compare-and-swap: another thread may empty
  and refill the word in between (ABA). Correct when the word acts as an atomic
  full/empty cell and a thread that emptied it owns what it guards.
* **Edge store.** An insertion looks for its edge twice without locks, locks the
  timestamp of one slot (or the link at the end of the list), looks again, and
  fills the slot field by field while others scan it. Correct when no edge is
  stored twice, no block is lost or shared, counters agree with the slots when
  nobody is updating, every call returns what a sequential set would, and every
  call returns at all.
* **Names.** The bucket of a new string is locked the same way and filled in
  four steps. Correct when one string has one number and a search from its hash
  finds it again.
* **Readers.** They follow `next` fields that may hold `MARKER`, and a type array
  whose places are claimed before they are filled, while slots are emptied and
  used again. Correct when they make nothing up, miss nothing that stays, and end.
* **Workflow.** Callbacks remove themselves from the arrays being iterated, and
  all streams write into one array of actions that each reallocates by the count
  the stream before it left. Correct when calls come in the order the header
  gives, whoever asks to be removed is, each algorithm hears of each batch, every
  batch is applied once, and the run ends when its streams do. The code keeps
  some of this and not the rest (section 3).
* **Server.** A stream of framed messages read with plain `read` calls, which may
  end short, within a prefix too, and bodies that may not parse; insertion
  and deletion loops that map strings, apply pairs of edges and append to shared
  arrays from all threads, with barriers between. Correct when a batch has its
  sequential outcome and the server keeps its place in the stream.
* **Labels.** Label propagation loads, compares and stores from all threads
  without synchronisation. Correct when it ends, and ends at the components.
* **Checkpoint.** Several writes without an atomic switch.

`PROJECT.json` lists each hazard at its line with the properties that cover it.

## 2. Modules

| Module | What it is |
| --- | --- |
| `FullEmpty` | the abstract word: each primitive is one atomic step that waits for its turn |
| `FullEmptyX86` | the emulation of `x86-full-empty.c`, loads and swaps as separate steps; refines `FullEmpty` |
| `FullEmptyProofs` | theorems about `FullEmptyX86` |
| `StingerReaders` | `StingerEdges` with a traversal beside its threads |
| `EdgeSet` | the abstract edge store: a set of typed, directed edges and what the three calls may return |
| `StingerEdges` | the edge store under concurrent updates; refines `EdgeSet` |
| `StingerEdgesProofs` | theorems about `StingerEdges`: types and slot locks; that edges are not overwritten, the lists, the block pool and the edge type arrays |
| `StingerEdgeSetProofs` | ... that no edge is stored twice, that the store implements `EdgeSet`, and that its counts and, with a proviso, its stamps are right (extends `StingerEdgesProofs`) |
| `StingerReadersProofs` | theorems about `StingerReaders` (extends `StingerEdgeSetProofs`) |
| `StingerNames` | the string-to-integer map under concurrent calls |
| `StingerNamesProofs` | theorems about `StingerNames` |
| `Lifecycle` | the order in which a workflow calls its streams and algorithms, as its header gives it |
| `Workflow` | registration, command line, run loop and streams; refines `Lifecycle` |
| `WorkflowProofs` | theorems about `Workflow` |
| `BatchServer` | the accept loop, the framing and `process_batch` with its team of threads |
| `BatchServerProofs` | theorems about `BatchServer` |
| `Labels` | `components_batch` of the server and the one of `static_components.c` |
| `LabelsProofs` | theorems about `Labels` |
| `MC*` | instances for TLC: workloads, strings, symmetry |

`StingerEdges` and `StingerNames` use the primitives as the atomic steps of
`FullEmpty`, which is what the refinement of `FullEmptyX86` entitles them to.
`BatchServer` uses the calls of the edge store as the atomic steps of `EdgeSet`,
which `StingerEdges` refines, and those of the map as atomic; the caveats are in
its section.

### FullEmptyX86

`cell` is `*v`, `val[t]` the local `val` of the loop `t` is in; `Call`/`Refill`
enter a primitive, `Load` is the spin on the word, `Cas` the
`stinger_int64_cas`, `StoreXF` the unconditional store of `writexf`, `Return`
the `return`. The file is compiled with `-O0` (see the Makefile), so every
iteration of the spin is a real load. `holder[t]` records that `t` emptied the
word and has not refilled it. STINGER only ever refills a word it has emptied:
that is the client the two modules describe.

### StingerEdges

`eb[b]` is a `stinger_eb` without its `next` field; heads and `next` fields are
the cells of `link`, because both are locked the same way. `eta`, `tail`,
`deg`, `total`, `active` are `ETA`, `ebpool_tail`, the degrees, `total_weight`,
`max_active_vertex`. `th[t]` holds the program counter and the C locals of
`stinger_insert_edge_`, `stinger_incr_edge_` or `stinger_remove_edge`: `tmp` is
`tmp`, `ptr` is `block_ptr`, `loc` is `curs.loc`, `k` and `endk` are the loop
variables, `sv` is `timefirst`, `old_eb` or `weight`, whichever readfe was last.

Every access another thread can tell apart is a step: reading a link, reading
`high`, looking at one slot, `readfe` of a slot, the second look, the fields a
new edge writes, the two counters, the high-water mark, the release. The stamps of
a block are compared and widened in steps of their own: the `readff` of
`smallStamp` (`CheckSmall`) and the plain load of `largeStamp` behind it
(`CheckLarge`), the `readfe` (`LockStamp`), the load and the store of `largeStamp`
under the lock (`CompareLarge`, `StoreLarge`) and the `writeef` (`UnlockStamp`), and
so are the two stores that reset them (`ResetSmall`, `ResetLarge`). So one thread
may compare `largeStamp` while another holds the lock, has stored it, or resets it.

Merged into one step are

* accesses to data no other thread reads before the next step: a block taken from
  the pool is filled privately by `NewBlock`;
* an atomic increment together with an adjacent one of a counter that nobody reads
  before a barrier: in- and out-degree, total weight;
* the load, the comparison and the store of `high` in `RaiseHigh` (804-805), and the
  loads of `neighbor` and `high` in `Recheck` (908-911). Both happen under the lock of the
  slot. A mark only changes from the slot's own index to the next, by the thread
  that holds that slot's lock, so the mark another thread may raise in between does
  not change what either concludes of this slot.

The places of an edge type array start out `Unwritten`: `ETA` comes from `xmalloc`
(594), which does not clear it. The pool is from `xmalloc` as well (595), but
`new_eb` clears a block before anybody is led to it, so zeroing the pool in `Init` makes
a difference for the null block 0 only, which a reader that meets an unwritten place
may look at (`ReadUnwritten`, below). Steps happen in program order; the build targets x86, which keeps the order of stores.

Operations arrive in *phases*: `work[p]` are the operations of one `omp for`,
which idle threads `Take` in any order, and `Barrier` is the implicit barrier
that ends the loop. Insert-and-remove mixes within a loop are left out by the
assumption `WorkloadsOK`, as `process_batch` and `stinger_workflow_run` run the
two kinds in separate loops. The pair operations are two single ones; a workload
that wants one lists both.

The property `ImplementsEdgeSet` is the refinement of `EdgeSet`. `present` is
the set of edges a scan would find. An insertion takes effect at the step that
makes its slot visible (`SetNeighbor` below the high-water mark, `RaiseHigh`
above it, `LinkBlock` for a new block's publication as seen from its creator's
list), a removal at `ClearSlot`; a call that finds its edge takes effect where
it sees it. `ResultOf` says which result is already decided at which step. What a
removal returns for an edge that is not there `EdgeSet` leaves open between -1 and
0: the comment of `stinger_remove_edge` says 0, the code answers -1 when its search
meets no such edge and 0 when the edge is gone once its weight is locked. The
comment itself is `RemovalAnswers` (section 3).

### StingerNames

`word` is the storage of the three `int64_t` arrays of `MAP_SN`, one after the
other, so that an index past the end of `to_name` lands in `from_name` as it
does in memory. Strings are members of `Names`; their hash, length and prefix
relation are constants, because that is all the code can tell of them
(`strncmp` over the length of the query). `Again` is the branch of a creation
that finds its bucket filled after locking it: when the string there is another
one the code calls `writeef(&from_name + index, ...)`, an address on its own
stack, and waits there for a word that nobody will ever set to `MARKER`; the
model sends the thread to `"hung"` with the bucket locked. (Which word of the
stack that is, is undefined; that it holds `UINT64_MAX` by accident is not
modelled.)

`CreatedIsFound` is about the way to a string, not only about the table: from its
hash to its bucket every bucket in between must be filled or being filled, and with a
string that the search does not take for its own. A thread that is `Caught` with a
bucket locked stops searches that come to it; that there is none is `NobodyHangs`.

### StingerReaders

Extends `StingerEdges` by one thread that only reads. `rd` holds the locals of a
traversal: `b` is `ebp_k__` or `current_eb__`, `i` is `i__`, `p` is `p__`. Four
kinds share the actions: along the list of a vertex
(`STINGER_READ_ONLY_FORALL_EDGES_OF_VTX`), along it by type
(`STINGER_READ_ONLY_FORALL_EDGES_OF_TYPE_OF_VTX`, which skips to the first block of
the type and stops at the next of another), along the type array
(`STINGER_READ_ONLY_FORALL_EDGES`), and `"modify"`, the macro
`STINGER_FORALL_EDGES_OF_VTX`. `stinger.h` calls the last unsafe beside updates;
`json-support.c` runs it from the web pages all the same. It takes the head through
`stinger_vertex_edges_get`, whose `readff` waits while the head is locked, and its
body looks at the slot itself; the others copy the slot and look at the copy again.

Each load is a step: the head, the type of a block, `high`, the test of a slot
(`ReadSlot`), the copy of its edge (`CopySlot`), the link. Between the test and the
copy the edge may be removed and another put in its place: then `"modify"` runs its
body on a slot that is empty, which is why `ReadsStored` is stated of the others.
The copy itself is one step: of its fields only `neighbor` is modelled. A link
that an appending thread holds locked is `MARKER`; the reader takes it for the
index of a block (`"wild"`), and the model stops it there, since what it reads next
is outside the program. A place of the array that is claimed and not yet filled
(`ReadUnwritten`) may lead there too, or, if its memory happens to be zero, to
the null block, whose mark is 0.

What the body does with an edge is left out; `seen` is what it was run on. Two
histories make the properties statable: `stable`, the edges in the lists since the
traversal began, and `ever`, every edge that was stored in a block at any time
since. The traversal may begin whenever the last loop of the workload runs.

### Workflow and Lifecycle

One thread; the state is what `stinger_workflow_run` keeps: the two arrays (as
far as they are counted), the loop indices `i` and `j` (the inner `i` of the C
code), `batch_num`, the shared array `actions` and `actions_len`. An action is
represented by who wrote it and whether it has been applied; a cell `xrealloc`
added by `Garbage`. Streams are the three of `src/stream` with their parameters
(`setup`), algorithms are any: their two batch callbacks may return
`STINGER_REMOVE` whenever they are called, and the removal from the array is a step
of its own (`Removing`). The command line is a choice of
`Configure`, `DropStream` and `DropAlg`. `EndAfter` caps `batch_num` at
`MaxBatch`, beyond every stream's limit, so that larger numbers are all alike.
`FileBatch` is the CSV stream, which counts a full batch and writes as many actions
as its file has lines left (`rows`).

`Lifecycle` is the order of calls that `stinger-workflow.h` describes: settings, one
init, all streams' before any algorithm's, batches, one cleanup, at once for who
returned `STINGER_REMOVE` from a batch callback, and for everybody else before the
run returns. `ImplementsLifecycle` is the refinement with the history variables
`life` and `call`. The header promises two things more that the loop does not keep,
and `Lifecycle` leaves both out: that `STINGER_REMOVE` is heeded when settings or init
return it (81-82, 124-125, 135-136, 169-170), and that the workflow notifies each
algorithm of each batch (24-26). The model has both behaviours: settings and init of
an algorithm may ask for removal (the streams of `src/stream` do not), and the loop
ignores it. Both promises are stated: `RemovalHeeded` and `EachNotified` (section
3).

`AppliedOnce` is stated of runs whose streams all write when they are asked, or of
which none does (`Uniform`): a CSV stream without a file, or a binary one with
nothing to read, leaves the shared array as the stream before it filled it; and as
long as every file has lines left (`LongEnough`), since one that ends within a batch
leaves cells unwritten.

### BatchServer

`session` is what clients send, one connection after another: `main` serves one
at a time. A message is two units of prefix and `size` units of body, and a `read`
may end between any two units: `sent` and `got` are the unit that arrives and that is
read next, as the number of the message and of the unit in it (`Position`; `After` is
the one behind it). `End` is where the client stops, at the end of its messages or
within one, and `hangup` says whether it then closes the connection or stays.
`ReadPrefix` finds the whole prefix, `ShortPrefix` half of it; `Waiting` is how much of
the body a `read` finds, all of it (`Receive`, or `Refuse` where the parser fails),
part of it (`ShortBody`) or, after a hang-up, nothing (`ReadClosed`); `Arrive` lets any
number of units be there. `ReadJunk` is what follows a prefix read from what a failed
read left behind: an enormous length throws in `new[]`, any other is found too short or
does not parse. (That bytes out of step happen to parse is left out.) `Fail` counts
`nfail`.

`process_batch` is a team of threads (`th`) over the iterations `todo` of one loop
after the other: `TakeInsertion` (with `TS`), `InsertSource`, `InsertDestination`,
the two halves of `stinger_incr_edge_pair` (`Forward`, `Back`), the fetch-and-add
and the stores of `ACCUM_INCR`, and the same for deletions; `EndInsertions` and
`EndDeletions` are the barriers, `MergeStamps` the critical section. The type of
the batch decides which fields are read (`Decoded`): an end given in the other field
reads as that field's default. A string is mapped by its lower-case form.
`DestinationOf` is what line 247 does: in a MIXED batch the string that is mapped is
always the empty one.

The map gives out `STINGER_MAX_LVERTICES * 128` numbers (`stinger.c:589`); those from
`LV` on are given out and then dropped, with the edges that name them.
`ServerOK` assumes that no session has more strings than that, so
`stinger_mapping_create` never fails here. `MapCreate` is one atomic step, as
`StingerNames` shows for strings of different buckets; that one string keeps one
number when creations race is a property of that module, and none is stated here.

Strings of one bucket created at once, and an edge deleted twice in one batch,
never return (`NamesColliding`, section 4); the sessions have neither.

### Labels

`keeps` chooses the version: the server's, which keeps `cm` (`component_map`) from
batch to batch and counts sizes, or the one of `static_components.c`, which starts
afresh and counts labels. The graph of each computation is given by `history`;
nothing changes it meanwhile, since the server runs `components_batch` between
batches. `TakeEdge` loads the label of the destination, `Compare` the one of the
source, `Store` writes. The C code names the destination's label twice, in the comparison
and in the store (540, 541); built with `-O3`, as `make.inc` has it, the loop loads it
once, and once is what the model has. In the climb the
label of `i` is written by one thread only, so `LoadRoot` is one load that others
can tell apart. `vtype` is the type of each vertex, which nobody changes meanwhile:
the static version counts the labels whose vertex has one (`CountRoots`,
static_components.c:51), so it reports the number of components only where every
least vertex has a type. `Claim` is the fetch-and-add on `mark`, `List` the next place in
`vlist`, `Tally` the reset.

## 3. Runs

Deadlock is checked in every run; `Over` lets a finished or aborted instance
stutter.

| Run | Bounds | Shows |
| --- | --- | --- |
| `FullEmptyX86` | 3 threads, 2 values, 1 waiting call each plus its refill | the word is a lock (`Exclusion`), acts atomically (`ImplementsFullEmpty`), and no call spins for ever (`AllReturn`) |
| `EdgesTogether` | 3 threads, 4 vertices, 2 edge types, blocks of 2 slots, 3 usable blocks, 20 workloads of up to four loops | `SlotLockExclusive`, `NoDuplicateEdge`, `NoBlockLost`, `ListedIsPublished`, `CountsWhenIdle`, `StampsWhenIdle`, `SlotsAreNotOverwritten` and the refinement `ImplementsEdgeSet`: from an empty list, with holes that several insertions race for, with blocks emptied by removals that run together, with two types in one list, with two lists that race for the last block |
| `ReadersRun` | 2 threads and a reader, 2 usable blocks of 2 slots, stamps from 1 to 3, 8 workloads, a traversal of each kind | `ReadsStored`, `SeesStable`, `TraversalEnds` beside lists that begin, grow and shrink and slots used again; `PoolHandedOut` and `Termination` of the threads, also when they wait for one slot, one link or the stamps of one block, and when the blocks run out |
| `NamesRacing` | 3 threads, 4 strings, 6 buckets, 3 loops | `AnswersAgree`, `CreatedIsFound`, `Termination` |
| `WorkflowRun` | 2 streams set up in 6 ways, 3 algorithms | `ImplementsLifecycle`, `AppliedOnce`, `EndsAlone`, for every choice of what is registered and dropped and of who asks to be removed when |
| `ServerTraffic` | 2 threads, 3 vertices, 6 strings (two spellings of one, and the empty one), up to 2 connections of up to 5 messages of up to 3 changes | `BatchOutcome`, `AccumulatedAll`, `KeepsStep`, `Served` |
| `LabelsRun` | 2 threads, 4 vertices, 2 edge types, vertices with and without a type, histories of 1 or 2 graphs, both versions | `EndsAgree`, `LabelsConnected`, `Components`, `SizesCounted`, `Termination` |

Each also checks the module's `TypeOK`, where it has one of its own.

Why the bounds are enough to be interesting. Three operations on two threads
suffice for the races on one slot or one link (a taker, a waiter); the third
thread gives the waiter a rival that has already passed. Two slots per block give
both "room in this block" and "append", and a block with one live edge and one
hole. Two types give a list whose first block is not the first of its type. A
reader needs a list that grows by a block behind it, one that shrinks in front of
it and a slot that changes its edge; two threads make these at once. Three
algorithms are one that removes itself, one that is skipped for it and one that
is not. A path of four vertices whose labels have two steps to go makes two
threads overwrite each other's labels, stale ones included; a second graph with
more edges and one with fewer show what keeping labels does. The server's
sessions have every type of batch, ends in the field that the type does not read,
endpoints out of range, a string only a deletion knows, more strings than vertices,
messages in pieces, one or more in a row that do not parse, and clients that hang up or
stop at every place within a message. In `ReadersRun` three loops begin, besides, with
stamps below and above those of a block and edges that want one slot, so that each lock
a thread can wait for is waited for.

Fairness. Threads of a team are kernel threads and each is scheduled again and
again: weak fairness of each thread's step, and of the barrier or the main thread
that waits for them. A thread that waits for a lock is a step that is not
enabled, so weak fairness does not promise it the lock; `Termination` holds all
the same because every workload is finite. The reader of `StingerReaders` is a
thread as well. `Workflow` is one thread that keeps going; only the settings
calls of the command line are left out of what must happen, as they could repeat
for ever in the model. In `BatchServer` what was sent arrives (`Arrive` is fair),
but nothing makes a client send or close: `Served` is stated of clients that end
each connection with a message that says so (`Polite`), as `client_demo.cpp` does, and
not of those that hang up.

Five runs end in a violation, each of something a comment of the code states:

| Run | Statement | What happens |
| --- | --- | --- |
| `EdgesStampLock` | `StampLockKept` | two insertions into an emptied block: one resets the stamps the other holds locked, and the other never returns |
| `ReadersSafe` | `StaysInPool` | a traversal takes the `MARKER` of a locked link for the index of a block, though `stinger.h` calls the macros safe while the graph is modified |
| `NamesColliding` | `NobodyHangs` | two strings of one bucket created together; the loser waits on its own stack |
| `WorkflowEnds` | `Termination` | two random streams; the first never sees the batch number it would end at |
| `ServerMixed` | `BatchOutcome` | the destination of a MIXED insertion is decoded into the wrong buffer |

Four more configurations, which are not among the runs of `PROJECT.json`, each check
one statement of a comment or an assertion, and TLC reports each violated:

| Configuration | Module | Statement | What happens |
| --- | --- | --- | --- |
| `EdgesRemoval.cfg` | `MCStingerEdges` | `RemovalAnswers`: "@return 1 on success, 0 if the edge is not found." (stinger.c:1196) | the removal of an edge that is not there returns -1 |
| `WorkflowNotifies.cfg` | `MCWorkflow` | `EachNotified`: the workflow "notifies each algorithm of the batch" (stinger-workflow.h:25) | an algorithm removed by `before_batch` shifts the next one below the loop's index, which hears nothing of the batch |
| `WorkflowLeaving.cfg` | `MCWorkflow` | `RemovalHeeded`: who returns `STINGER_REMOVE` is cleaned up, also from settings and init (stinger-workflow.h:81-82, 124-125) | an algorithm whose settings or init asks to be removed is called with the first batch |
| `ServerAsserts.cfg` | `MCBatchServer` | `AssertedDeletions`: `assert (dropped_vertices || nrem == batch.deletions_size ())` (server.cpp:228, 295) | a deletion of a string that is not mapped is ignored and counted nowhere; builds with `-DNDEBUG`, as `make.inc` has it, do not test it |

The properties of the passing runs do not contradict these: `ImplementsEdgeSet` leaves
the answer open, `ImplementsLifecycle` is about the order of calls, and
`AccumulatedAll` is about the changes that are accepted, which is what the readers of
the arrays need.

The passing runs avoid all of this on purpose: their workloads never have two
insertions meet in an emptied block or two strings of one bucket created at once,
`StaysInPool` is not among what `ReadersRun` checks, `EndsAlone` is stated of
runs with one stream or with streams that count their own batches, `Components` of
graphs that only grow where labels are kept, and the MIXED batch of `ServerTraffic` gives destinations by number.

## 4. Read from the code, without a run

In the model as written, and kept out of the workloads of passing runs:

* `stinger_activate_up_to_vertex_` gives up after a swap that failed, so
  `max_active_vertex` may stay too low (`CasActive`, stinger.c:956).
* Two increments of an edge may read the same weight (`ReadWeight`, 1047).
* A second removal of one edge waits for the weight the first left at `MARKER`
  (`LockWeight`, 1222). Comments forbid removals with one source vertex at once
  (1189), but the server's loop makes them: a batch that deletes an edge twice, or in
  both directions, does this (server.cpp:172).
* The removal itself then subtracts that `MARKER` from `total_weight`
  (`ClearSlot`, 832), and answers -1 where its comment says 0 (`FindEnd`, 1235;
  `EdgesRemoval.cfg`).
* A creation that fails for want of string storage keeps its bucket locked
  (`Reserve`, stinger-names.c:138); `stinger_names_create_type` gives out
  `max_types+1` numbers (`Room`); a string that is a prefix of a stored one is
  taken for it (`Matches`).
* `n_components` counts every vertex, not every component (`EndSweep`,
  server.cpp:563).
* What settings and `init` return is ignored (`Configure`, `InitAlg`;
  `WorkflowLeaving.cfg`), and a workflow whose streams have
  no `stream_batch` loops for ever (`SkipSilent`, `EndRound`).
* The handle of `accept` is never closed (`Finish`), and a client that closes
  after a message with `keep_alive` ends the server, not the connection (`Fail`).

* `STINGER_READ_ONLY_FORALL_EDGES_OF_TYPE_OF_VTX` ends at the first block of
  another type behind one of its own (`EnterBlock`, stinger-traversal.h:212):
  `SeesStable` leaves it out.
* The body of `STINGER_FORALL_EDGES_OF_VTX` may run on a slot that was emptied after it
  was tested (`CopySlot`): `ReadsStored` leaves it out.
* The number of static components leaves out those whose least vertex has no type
  (`CountRoots`, static_components.c:51), which is every one of a graph whose vertices
  were never given any.

Outside the model:

* `update_edge_data` stores the neighbor of a new edge before its weight
  (stinger.c:781): a reader may copy the weight of an earlier edge.
* A batch of deletions only reports `INT64_MAX` as its first time, and printing
  that indexes outside `month_name`, which has ten names (server.cpp:340, 484).
* Vertices are tested against the upper bound only (server.cpp:153).
* The client never clears its batch and leaves `keep_alive` unset
  (client_demo.cpp:284); `batch_num >= num_batches` is combined with `== -1` (345).
* `streaming_components.c` decodes deletions with `-` instead of `~` (820), and
  `streaming_clustering_coefficients.c` adds to `global_ntri` from all threads (274).

## 5. Proofs

`FullEmptyProofs` proves of `FullEmptyX86`, for every set of threads, every set
of values that does not contain `MARKER` and every bound on calls:

* `TypeCorrect`: the types;
* `MutualExclusion`: at most one thread is between its `readfe` and its refill,
  and the word reads `MARKER` exactly then;
* `Refinement`: every step is a step of `FullEmpty` or leaves its variables alone.

`Exclusion` is not inductive. A successful swap needs to know what the thread
saw: `SawItsTurn` says that a thread about to swap saw a full word, or
`MARKER` if it is in `writeef`, and `RefillsHold` that exactly the calls that
refill belong to a thread that holds the word. With both, a swap that succeeds
is in one of two cases (`SwapCases`): an emptying one by a thread that saw the
word full, so that by `Exclusion` nobody held it, or a filling one by the
holder. `StepIInv` goes through the actions; `StepRefines` maps each successful
swap, each `readff` load and each store of `writexf` to the atomic step and the
rest to stuttering.

`StingerEdgesProofs` proves of `StingerEdges`, for every number of threads,
vertices, types, blocks and slots and every set of workloads that meets
`SizesPositive` and `WorkloadsOK`:

* `TypeCorrect`: the types, and with them that no thread follows an index outside
  the pool or outside a block;
* `SlotExclusion`: at most one thread holds the `timeFirst` of a slot, and the
  word reads `MARKER` while one does.

`TypeOK` is not inductive: that a slot index stays inside its block depends on the
mark the scan read, on the block having been handed out, and on where in its
program the thread is. The inductive invariant `IInv` adds

* `Assigned`: busy threads have different operations of the current loop;
* `LinksInPool`: a link that is not locked leads below the pool's tail;
* `SlotLockExclusive` itself;
* `LocalOK` of each thread: `Fits` says, by program counter, that the thread is at
  a block that was handed out, at a slot inside it, below a mark the block still
  has, at an edge that is still there when it updates one without the lock, and
  of which kind its operation is.

The last part is where the phases matter: an update of an existing edge
trusts a slot it has not locked, and only `WorkloadsOK` (no removal in a loop of
insertions) keeps the edge there. The proof of a step has two halves. `Frame` is
what a step does to the store that other threads rely on: high-water marks rise,
an occupied slot stays so unless the step removes, and the only `timeFirst` it
changes is one that its thread holds, or finds unlocked and takes. `Moves` is
where the step leaves its own thread. `OthersStay` shows that a thread that does
not move survives any `Frame`; `StoreStep` and `FinishStep` combine the halves
once, and each action then needs only its own `Frame`, `Moves` and `Fits`.

Three parts build on `IInv` and prove, for the same constants, what the store
promises: the second part of `StingerEdgesProofs` of edges, lists and type arrays,
`StingerEdgeSetProofs` of one list as a set and of the store as an object whose
operations are atomic, and `StingerReadersProofs` of a traversal beside them.

The second part of `StingerEdgesProofs` begins with `EdgesKept`: an edge that a scan can see is never
overwritten (`SlotsAreNotOverwritten`). A slot is filled only by the thread that
holds its lock and finds it free (`Places`). That it stays free until it is filled
is the point: another thread could make an old entry of the slot visible by
raising the high-water mark past it, but a mark only rises to include the very
next slot, and the thread that raises it has that slot's lock. `Edit` says what a
step does to the blocks, and everything below reuses it.

It goes on with `ListsWellFormed` (`NoBlockLost`: each listed block has
one link to it, from an older block of the same vertex, so there is no fork and no
cycle) and `PoolFullyUsed` (`PoolHandedOut`: no two threads are given one block, and
the process aborts only when the pool is used up). The invariant is `Lists`:
a link at `MARKER` belongs to one thread and a block being created to one creator
(`LinkHeld`); the shape of the lists (`Chained`), with the links of blocks not yet
in a list at 0; and that every thread is in the list of its own vertex (`InList`).
The last one is what makes an append end up in the right list, since the thread
remembers only the address of a link.

Its last theorem is `Published` (`ListedIsPublished`): a block that a list
leads to is in the array of its type exactly once. A place is claimed by a
fetch-and-add and filled later, so `Owners` speaks of the block that is in a
claimed place or that its claimer is about to put there: every place has one and
no block has two. `Claims` says that a claimed place stays free until it is
filled, and that it lies inside the array, by counting: places of an array have
different blocks, and a block is given out once.

`StingerEdgeSetProofs` first proves `NoDuplicates` (`NoDuplicateEdge`), the property the
design of `stinger_insert_edge_` is about. The function looks for its edge without
locks, looks again for a free slot, and only then locks one; another thread with
the same edge may be anywhere in the same program. The argument is that an
insertion puts its edge in the *first* free slot of its type. An edge is `Tight`
when no slot before it is free. Whatever the first scan has passed over holds the
thread's edge only if it is tight (`Finds`), for it was put there meanwhile; in
the second scan every slot that holds the edge is tight, and every slot passed is
taken by other edges (`Chooses`). So when the thread locks a free slot, no other
slot can hold its edge: one behind it would not be tight, one before it has been
passed. `Begins` says that the scan starts before all blocks of its type, `Ordered`
that a list is in the order of the blocks' numbers, so that "before" is a
comparison, and `Fills` that what a thread puts in its slot stays there until it is
visible. A removal frees slots and would falsify all of this; it runs in another
loop (`WorkloadsOK`), where no thread inserts.

Its second theorem is `EdgeSetImplemented` (`ImplementsEdgeSet`): under the
mapping of `StingerEdges`, from what a scan sees to `present` and from where the
threads are to `results`, every step is one operation of the set `EdgeSet` or
leaves it alone. Three things have to be known of a state beyond the invariants above
(`Results`). An operation that is taken has a thread that is at it (`TakenBy`). A
thread returns 1 only once it has locked a free slot for its edge, and that slot
is below the mark when its lock is given back (`Returns`); from `NoDuplicates` the
edge is new to the set. A removal that has come past
a slot does not find its edge there later, since in its loop nobody inserts, and
two removals never empty one slot (`Removes`, `EmptiedOnce`): the second waits for
a weight that stays `MARKER`. Each step of a thread is then put in one of
six courses. It `Walks` to the next slot, block or link, which changes no answer; it
`Meets` its edge and answers 0 from then on; it `Takes` a slot; it `Stores` a
field of a new edge, of an edge that is there or of one it empties; it
`Ends`; or it takes a new operation. For each course a lemma says what it does
to the set and another what it does to the results (`Answers`). The steps that take effect are the
store of the neighbor into a slot below the mark, the raising of the mark, the
linking of a block, the meeting of an edge, the clearing of a slot and the end of
a removal's search; for each the step of `EdgeSet` is named and its guard shown.

Its third is `CountedRight` (`CountsWhenIdle`): whenever no update is running, the
number of edges of each block, the in- and out-degrees, the zeroed slots above each
mark and the absence of self-loops are what `stinger_consistency_check` looks for. Each
of these is kept by a step of its own, some before and some after the step in
which the edge comes into sight, so between the steps none of them agrees with the
edges that a scan sees. The invariant `Sums` therefore says of every slot when it
`Counts` (is in `numEdges` of its block) and when it `Weighs` (is in the degrees): what
a scan sees, plus the slots of the threads that are past the step, less those
of the threads that are before it. `Totals` equates the counters with the numbers
of such slots, `Bare` and `Below` are about the marks: above one there are zeroes
but for the slot a thread is filling. That a slot is in the hands of one thread
(`SlotLockExclusive` for those that fill it, `EmptiedOnce` for those that empty it)
makes a step change each set by that one slot (`SlotCounts`, `PairCounts`).

Its last two are about the stamps, which `stinger_consistency_check` wants to bound
the times of the edges of each block. `StampsWhenIdle` is not true of every workload: when
an insertion has counted the only edge of an emptied block it resets the stamps with
two plain stores, "assuming we have block effectively locked", and another insertion
may have widened them, or locked them, by then (the violation of `EdgesStampLock`).
`BlockEffectivelyLocked` states that assumption: nobody else is storing into the block
when its stamps are reset. `StampsRight` is that nothing more is needed: where it always
holds, so does `StampsWhenIdle`, however many threads widen a block together.
`StampsApart` shows workloads for which the assumption is right: those in which no loop
after a removal inserts two edges of one type from one vertex (`Apart`), so in
particular those that remove nothing. Until the first removal no block is ever
empty once it is handed out (`Unemptied`). `Apart` is sufficient and not necessary: the
workloads `Refill` of `EdgesTogether` insert together after a removal, but not into a block
that was emptied, and there only `StampsRight` applies.

The inductive invariant is `Stamping`. A block `Spans` a time when its stamps cover it and
will still do so when each thread that is widening them has stored the smaller stamp it
saved: `smallStamp` reads `MARKER`, below every time, meanwhile. A time is `Settled` when
the block spans it or the thread that brings it has yet to look at the
stamps. `EdgesSpanned` says so of both times of every edge in sight, but for `first` while
its slot is locked (it reads `MARKER`) and `recent` while the thread that puts the edge
there has not stored it (it is left over from an earlier edge). `Covers` says the same of
the saved `first` that a thread is to put back, that a thread past the stamps has its time
spanned, and that one about to reset them has the only edge of the block; the last
follows from `Sums`. `Widening` makes `smallStamp` a lock: one thread at a time
widens a block, and finds `MARKER` when it is done. It is here that the assumption is
needed, since a reset stores over it. `Compared` is what a thread knows from its plain
loads of `largeStamp`: one that has passed `smallStamp` without the lock still finds it
no later than its time (`Under`), one that found its own time later under the lock will
still be the one to raise the stamp, and one that found it covered leaves it so. That
`largeStamp` is compared while another thread holds the lock, before or after that thread
has stored it, does no harm: it only rises but for a reset.

`StingerReadersProofs` proves of `StingerReaders`, for the same constants and every
type and vertex a traversal may be asked for, what a caller without locks can rely
on: `OnlyStoredRead` (`ReadsStored`: what the body of a read-only traversal is run on
was an edge of the store at some time since the traversal began, though the slot is
tested in one step and copied in another) and `StableSeen` (`SeesStable`: an edge that
is there from beginning to end is met exactly once by a traversal of a vertex's list,
read-only or not, or of a type's array). Neither is claimed of traversals that leave
the pool (`"wild"`). The invariants of the store hold beside a reader, which
writes nothing (`Store`); `Filled` adds that what is in a place of an array is a
block of its type. `Reading` is about the traversal:

* `Whereabouts`: it is in a listed block of its vertex, or in the one at its place
  of the array, of the type it asked for, below the mark.
* `Histories`: what is stable is still stored.
* `Accounts`: a stable edge has been met once if its slot is `Behind` the
  traversal, and not yet if it is not.

A reader shares no lock with the updates, so `Behind` is a matter of position
alone: earlier blocks of the list, or earlier places of the array, and earlier
slots of the block at hand. It keeps its meaning because a block that is added goes
behind all others of its list and in a place that was empty (`PlacesStay`), a mark
never falls, and an edge never changes its slot.

`WorkflowProofs` proves of `Workflow`, for every finite or infinite set of streams
and of algorithms, every `setup` that meets `SetupsOK` and every `MaxBatch`:

* `TypeCorrect`: the types, and that an entry is only taken out of the place of an
  array that is counted;
* `BatchesAppliedOnce` (`AppliedOnce`);
* `LifecycleImplemented` (`ImplementsLifecycle`): the order of calls and the cleanup, not
  the two promises of the header that `Lifecycle` leaves out.

The arrays shift while loops run over them, and that is what the invariant `WInv`
is about. `Staged` says which stage of its life the entry in every place has
reached, by the loop in progress and its index, that no entry is listed twice, and
that those who are in neither array never began or are cleaned up. `Positioned`
keeps a binary stream that is still listed before the end of its file, so that it
writes when asked; `Buffered` says that from the call of a stream to the end of
`apply` what the shared array counts is one stream's and fresh. `Asked` says that
whoever returned `STINGER_REMOVE` from a batch callback stands at the place of the array
that the next step takes out, so that no other call comes before its cleanup, and
`CleanedAtEnd`, that nobody who was initialized is left when the run is over, is what
lets the abstract run return.

`BatchServerProofs` proves of `BatchServer`, for every number of threads, vertices
and strings and every set of sessions that meets `ServerOK`:

* `TypeCorrect`: the types;
* `StepKept` (`KeepsStep`), wherever reads end within a prefix or a body, clients stop
  or hang up, and messages do not parse;
* `StampsRight` (`StampsCover`, of the module itself: the range of dates is that of the
  insertions);
* `ChangesAccumulated` (`AccumulatedAll`) and `BatchApplied` (`BatchOutcome`), of
  sessions in which no insertion of a MIXED batch names its destination by a string
  (`PlainDestinations`). Of the others the run `ServerMixed` shows the second
  to be false.

The inductive invariant is `SInv`, that is `Work /\ InStep`. `InStep` is the framing: as
long as no read has ended within a message, the messages handled are in order
(`Order`) and complete but for those that do not parse (`Complete`), and the stream
stands at the beginning of the message behind those that are `Behind` it. `Work` is the
batch, in parts:

* `Framed`: what was read has arrived, and the message at hand exists.
* `Numbered`: the numbers given out are below the next one.
* `Threaded`: the labels a thread may be at in each phase, and its two vertices.
* `Shared`: each iteration of the loop in progress is still to be taken, with
  exactly one thread, or done (`Sharing`); no more places of the array have been
  claimed than iterations are done, so a place lies inside it; and two threads
  that store have different places.
* `Covered`: every date of a taken insertion is in the range of the process or in
  that of a thread which has not merged its own.
* `Outcome`: in the middle of a loop the graph is the one before it with the edges
  of the iterations that are done, in both directions, and those that threads
  which are half through have touched already (`Touched`, `Touching`); and the
  array has the done iterations' changes, each in its place or with the thread
  that is about to store it there (`Accounted`). At the barrier no thread holds
  anything, and what remains is the batch's outcome.

A thread's step either takes an iteration, skips one, goes on with it, drops it,
counts it or stores it. A lemma for each says what it does to the sharing, the
array and the touched edges, whichever loop it is in; the actions of the
two loops cite them, and the main thread's actions need only the barriers.

`LabelsProofs` proves of `Labels`, for every number of threads, vertices and edge
types and every sequence of graphs that meets `LabelsOK`:

* `TypeCorrect`: the types;
* `Descent`: no label is greater than its vertex (`LabelsDescend`), which is what makes
  the climb end and is part of the invariant below;
* `Agreement`: when a round of sweeps stored nothing, the two ends of every edge
  have one label and every label is its own (`EndsAgree`).

`Agreement` is what a reviewer of unsynchronised propagation would doubt: a
sweep compares labels that other threads may be writing, and a stale label may
be stored over a lower one. The inductive invariant `IInv` is the argument that
it does not matter. As long as `changed` is false no label has been written
since the climb, so `Swept` holds: labels are their own labels, and every edge of
this sweep is in order, not yet taken, or in the hands of a thread whose loaded
label is still the current one. An edge is in order when the label of its
destination is not less than that of its source; edges come in both directions,
so when all are in order both ends have one label. A store falsifies `~changed`
and with it the claim; the next climb must re-establish it. `Climbed` says that
at its barrier every vertex whose turn has passed has a label that is its own,
which stays so because a label that is its own is never written again in a climb,
and that needs `LabelsDescend` and `Alone` (one thread for each vertex).

From these follow the three theorems a user of the components would ask for.

* `NeverAnothers` (`LabelsConnected`): a label is at every moment a vertex that the
  known edges lead to, whatever stale value a thread stores. `Connected` says it
  of the labels and of each value that a thread has loaded and may yet store.
* `ComponentsFound` (`Components`): at the end each label is the least vertex of its
  component, and the number that `static_components` returns is that of the components
whose least vertex has a type. `Reach` is
  the least set that edges do not leave, so that it needs no induction: the
  vertices of one label are such a set (`Agreement`), hence hold the whole
  component, and by `NeverAnothers` no more. The vertices with a type that are
  their own label are in bijection with those components (`RootsAreComponents`). `Numbered` adds that
  with growing graphs the edges of earlier ones are among those of this one.
* `SizesReported` (`SizesCounted`): the server's counts are those of the labels, and
  every mark is back at -1. In `Counting`, `Marks` says that a mark is how many
  vertices of its label were claimed, `Listing` that one thread only, the one that
  found the mark unused, lists a label; and `Tallied` that there is a function from
  the places of the list that were tallied to the threads, such that each thread's
  sums are those of its own places and the totals those of the threads that have
  added theirs (`Shares`).

`StingerNamesProofs` proves, for every number of threads, strings and buckets, every
hash and every workload, `TypeCorrect` (`TypeOK`) and two theorems about what
`stinger_names_create_type` and the lookups answer:

* `CreatedStays` (`CreatedIsFound`): a string that has been created is found from then
  on by its number and by its name: the buckets from its hash to its own hold strings
  that a search does not take for it, unless some thread is caught in the table.
* `AnswersRight` (`AnswersAgree`): one string has one number and one number one string,
  and of all who race to create a string one is told that it did.

They assume of the workloads only what the code needs and does not check.
`RoomForAll`: no more strings are created than there are numbers. The test in the
code is `next_type > max_types`, so one number too many is given out, and its entry
of the inverse map is the first word of the buckets' array. `NoPrefixes` (for
`AnswersRight`): no string asked for is a proper prefix of one created, since
`strncmp` over the query's length takes the one for the other. Nothing is assumed of
hashes or of string storage: that two new strings of one bucket may hang a thread
with the bucket locked, and that a creation out of storage leaves its bucket locked
for ever, stops those that wait for it and makes no answer wrong.

The map has no lock of its own, and a creation decides from buckets it read
earlier that its string is new. `Passing` says that a search has passed only buckets
that hold strings it does not take for its own, and `Ordered` that between the hash of a
stored string and its place there is no empty bucket, and none with a string that a
search for it would take. A creation that has locked a bucket and finds it
still empty has therefore looked everywhere (`EmptyShows`): before it are other
strings, behind it the string cannot be. So a string is in one bucket only
(`Single`). A bucket that a thread has locked counts for what it held or will
hold (`Owns`, `Has`); otherwise another thread's locking and unlocking of an old
bucket would make its string disappear. `Numbers` equates `next_type` with the
number of strings stored and keeps the numbers apart, `Inverses` says that each leads
back, by way of the three arrays being disjoint for numbers below `MaxTypes`.
`Grows` is what every step guarantees, that no bucket loses its string or its
number; it keeps an answer right that was right when it was given (`Answers`).

Only model-checked, and why:

* `StampsWhenIdle` of `StingerEdges` for every workload of `EdgesTogether`: without a
  proviso it is not a theorem. Two insertions that meet in an emptied block may leave an
  edge outside the stamps (the same race as in `EdgesStampLock`). The proofs state the
  proviso; the run checks the stamps themselves, of workloads where none meet so.
* `Termination` of `StingerNames`: liveness, and false once two new strings of one
  bucket race (the violation of `NamesColliding`).
* All liveness: TLAPS does not reason about fairness.

## 6. Not modelled

* Checkpoint and bulk loading: one thread copying arrays; nothing interleaves.
* Action sorting: used by the deprecated interface only.
* What the streaming and static algorithms compute, apart from components; they
  are participants of `Workflow`. Betweenness, PageRank and clustering
  coefficients are floating-point kernels over a graph at rest.
* The named results of the workflow, the parsing of settings and files, the
  formatting of web pages.
* The community detection of `src-demo`, the demonstration clients, and the
  sequential containers under `lib`.
* Vendored libraries: Protocol Buffers with its tests, Google Test, Mongoose,
  RapidJSON, TinyXML, jsmn. They are nearly all of the repository's lines, so
  the share of the lines that the modules cover is small by nature.

Within what is modelled: vertex and edge numbers beyond the bounds, `INT64_MAX`
and `INT64_MIN` (stood for by 99 and -99), weights or stamps of -1 (which read as
`MARKER`), negative vertices on the wire, and the overflow of counters.

## 7. What could come next

The named results of the workflow; the hash tables as pure algorithms against a map.

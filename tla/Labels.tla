------------------------------- MODULE Labels --------------------------------
(***************************************************************************)
(* Connected components by label propagation: components_batch of          *)
(* server.cpp, which keeps its labels from batch to batch, and             *)
(* parallel_shiloach_vishkin_components of src/alg/static_components.c,    *)
(* which starts afresh.  All threads of a team read and write              *)
(* component_map without synchronisation.                                  *)
(*                                                                         *)
(* The graph does not change while labels are computed.  Each shared load  *)
(* and store is a step; a label compared and then stored is loaded once,   *)
(* as the compiler does with the options of make.inc (-O3).                *)
(***************************************************************************)
EXTENDS Integers, Sequences, FiniteSets

CONSTANTS
  Threads,
  nv,         \* the number of vertices
  NumTypes,   \* STINGER_NUMETYPES
  vtype,      \* vtype[v]: stinger_vtype_get, 0 if nothing has set it
  Histories   \* sequences of graphs, one for each computation

V     == 0..nv - 1
Types == 0..NumTypes - 1

(* Edges are stored in both directions, as the pair operations do.         *)
Graphs == {g \in [Types -> SUBSET (V \X V)] : \A t \in Types : \A e \in g[t] : <<e[2], e[1]>> \in g[t]}

ASSUME LabelsOK ==
  /\ nv \in Nat \ {0} /\ NumTypes \in Nat \ {0} /\ vtype \in [V -> Nat]
  /\ Histories \subseteq Seq(Graphs)

VARIABLES
  keeps,         \* the server's version, which keeps labels
  history, run,  \* the graphs, and the number of computations begun
  pc, t,         \* the loop all threads are in, and the type of its edges
  cm,            \* component_map
  changed,
  todo,          \* the iterations of the loop that nobody has taken
  th,            \* th[p]: program counter and locals of a thread
  mark, vlist,   \* comp_mark, comp_vlist up to nvlist
  sizes,         \* nnsc and mxcsz
  found          \* n_components, n_nonsingleton_components, max_compsize

loop == <<pc, t, changed, todo>>
count == <<mark, vlist, sizes, found>>
vars == <<keeps, history, run, loop, cm, th, count>>

Idle  == [pc |-> "idle", i |-> 0, j |-> 0, d |-> 0, nn |-> 0, mx |-> -1]
Graph == history[run]
Edges == UNION {Graph[x] : x \in Types}

Init ==
  /\ keeps \in BOOLEAN /\ history \in Histories /\ run = 0
  /\ pc = "done" /\ t = 0 /\ changed = FALSE /\ todo = {}
  /\ cm = [v \in V |-> v] /\ th = [p \in Threads |-> Idle]
  /\ mark = [v \in V |-> -1] /\ vlist = <<>> /\ sizes = [nnsc |-> 0, mxcsz |-> 0]
  /\ found = [n |-> nv, nonsingleton |-> 0, max |-> 0]

(* The labels are zeroed instead of numbered.                              *)
Begin_Zeroed ==
  /\ pc = "done" /\ run < Len(history) /\ run' = run + 1
  /\ cm' = IF keeps THEN cm ELSE [v \in V |-> 0]
  /\ pc' = "sweep" /\ t' = 0 /\ changed' = FALSE /\ todo' = history[run'][0]
  /\ UNCHANGED <<keeps, history, th, count>>

Begin ==
  /\ pc = "done" /\ run < Len(history) /\ run' = run + 1
  /\ cm' = IF keeps THEN cm ELSE [v \in V |-> v]
  /\ pc' = "sweep" /\ t' = 0 /\ changed' = FALSE /\ todo' = history[run'][0]
  /\ UNCHANGED <<keeps, history, th, count>>

Runs(p, where, label) == pc = where /\ th[p].pc = label
Move(p, to) == th' = [th EXCEPT ![p] = to]
At(p, label) == [th[p] EXCEPT !.pc = label]
Barrier(where) == pc = where /\ todo = {} /\ \A p \in Threads : th[p].pc = "idle"

------------------------------------------------------------------------------
(* One edge of a sweep: load the label of its destination, compare it with *)
(* the label of its source, and store it there if it is less.              *)

TakeEdge(p) ==
  /\ Runs(p, "sweep", "idle")
  /\ \E e \in todo :
       /\ todo' = todo \ {e}
       /\ Move(p, [At(p, "compare") EXCEPT !.i = e[1], !.j = e[2], !.d = cm[e[2]]])
  /\ UNCHANGED <<keeps, history, run, pc, t, changed, cm, count>>

(* Mutant of Compare: an equal label is stored too.                        *)
Compare_Equal(p) ==
  /\ Runs(p, "sweep", "compare")
  /\ Move(p, At(p, IF th[p].d <= cm[th[p].i] THEN "store" ELSE "idle"))
  /\ UNCHANGED <<keeps, history, run, loop, cm, count>>

Compare(p) ==
  /\ Runs(p, "sweep", "compare")
  /\ Move(p, At(p, IF th[p].d < cm[th[p].i] THEN "store" ELSE "idle"))
  /\ UNCHANGED <<keeps, history, run, loop, cm, count>>

Store(p) ==
  /\ Runs(p, "sweep", "store")
  /\ cm' = [cm EXCEPT ![th[p].i] = th[p].d] /\ changed' = TRUE
  /\ Move(p, At(p, "idle"))
  /\ UNCHANGED <<keeps, history, run, pc, t, todo, count>>

(* The flag is local to the loop over the edges of one type.               *)
NextType_Forgets ==
  /\ Barrier("sweep") /\ t < NumTypes - 1
  /\ t' = t + 1 /\ todo' = Graph[t'] /\ changed' = FALSE
  /\ UNCHANGED <<keeps, history, run, pc, cm, th, count>>

NextType ==
  /\ Barrier("sweep") /\ t < NumTypes - 1
  /\ t' = t + 1 /\ todo' = Graph[t']
  /\ UNCHANGED <<keeps, history, run, pc, changed, cm, th, count>>

(* The sweeps end with one that stores nothing.  The server then counts    *)
(* the vertices whose label is its own label, which by now is all of them. *)
EndSweep ==
  /\ Barrier("sweep") /\ t = NumTypes - 1
  /\ IF changed THEN pc' = "climb" /\ todo' = V /\ UNCHANGED count
     ELSE /\ sizes' = [nnsc |-> 0, mxcsz |-> 0] /\ vlist' = <<>> /\ UNCHANGED mark
          /\ \/ /\ keeps /\ pc' = "claim" /\ todo' = V
                /\ found' = [n |-> Cardinality({v \in V : cm[v] = cm[cm[v]]}),
                             nonsingleton |-> 0, max |-> 0]
             \/ ~keeps /\ pc' = "count" /\ UNCHANGED <<todo, found>>
  /\ UNCHANGED <<keeps, history, run, t, changed, cm, th>>

------------------------------------------------------------------------------
(* Tree climbing: every vertex takes the label of its label until that is  *)
(* its own.                                                                *)

TakeVertex(p) ==
  /\ Runs(p, "climb", "idle")
  /\ \E v \in todo : todo' = todo \ {v} /\ Move(p, [At(p, "load") EXCEPT !.i = v])
  /\ UNCHANGED <<keeps, history, run, pc, t, changed, cm, count>>

LoadRoot(p) ==
  /\ Runs(p, "climb", "load")
  /\ LET i == th[p].i
     IN  Move(p, [At(p, IF cm[cm[i]] = cm[i] THEN "idle" ELSE "climb") EXCEPT !.d = cm[cm[i]]])
  /\ UNCHANGED <<keeps, history, run, loop, cm, count>>

Climb(p) ==
  /\ Runs(p, "climb", "climb")
  /\ cm' = [cm EXCEPT ![th[p].i] = th[p].d] /\ Move(p, At(p, "load"))
  /\ UNCHANGED <<keeps, history, run, loop, count>>

EndClimb ==
  /\ Barrier("climb") /\ pc' = "sweep" /\ t' = 0 /\ changed' = FALSE /\ todo' = Graph[0]
  /\ UNCHANGED <<keeps, history, run, cm, th, count>>

------------------------------------------------------------------------------
(* The sizes: the first vertex of a label lists it, the list is walked to  *)
(* sum the sizes up and to set the marks back.                             *)

(* Counts the vertices that have a type.                                   *)
CountRoots_Typed ==
  /\ pc = "count" /\ pc' = "done"
  /\ found' = [found EXCEPT !.n = Cardinality({v \in V : vtype[v] # 0})]
  /\ UNCHANGED <<keeps, history, run, t, changed, todo, cm, th, mark, vlist, sizes>>

(* static_components counts the labels that are their own, of vertices     *)
(* that have a type.                                                       *)
CountRoots ==
  /\ pc = "count" /\ pc' = "done"
  /\ found' = [found EXCEPT !.n = Cardinality({v \in V : cm[v] = v /\ vtype[v] # 0})]
  /\ UNCHANGED <<keeps, history, run, t, changed, todo, cm, th, mark, vlist, sizes>>

Claim(p) ==
  /\ Runs(p, "claim", "idle")
  /\ \E v \in todo :
       /\ todo' = todo \ {v} /\ mark' = [mark EXCEPT ![cm[v]] = @ + 1]
       /\ Move(p, IF mark[cm[v]] = -1 THEN [At(p, "list") EXCEPT !.i = cm[v]] ELSE th[p])
  /\ UNCHANGED <<keeps, history, run, pc, t, changed, cm, vlist, sizes, found>>

List(p) ==
  /\ Runs(p, "claim", "list") /\ vlist' = Append(vlist, th[p].i) /\ Move(p, At(p, "idle"))
  /\ UNCHANGED <<keeps, history, run, loop, cm, mark, sizes, found>>

EndClaim ==
  /\ Barrier("claim") /\ pc' = "tally" /\ todo' = DOMAIN vlist
  /\ UNCHANGED <<keeps, history, run, t, changed, cm, th, count>>

(* Marks are set back one too far, or not at all.                          *)
Tally_TooFar(p) ==
  /\ Runs(p, "tally", "idle")
  /\ \E k \in todo :
       LET csz == mark[vlist[k]] + 1
       IN  /\ todo' = todo \ {k} /\ mark' = [mark EXCEPT ![vlist[k]] = @ - csz - 1]
           /\ Move(p, [th[p] EXCEPT !.nn = IF csz > 1 THEN @ + 1 ELSE @,
                                    !.mx = IF csz > @ THEN csz ELSE @])
  /\ UNCHANGED <<keeps, history, run, pc, t, changed, cm, vlist, sizes, found>>
Tally_Keeps(p) ==
  /\ Runs(p, "tally", "idle")
  /\ \E k \in todo :
       LET csz == mark[vlist[k]] + 1
       IN  /\ todo' = todo \ {k}
           /\ Move(p, [th[p] EXCEPT !.nn = IF csz > 1 THEN @ + 1 ELSE @,
                                    !.mx = IF csz > @ THEN csz ELSE @])
  /\ UNCHANGED <<keeps, history, run, pc, t, changed, cm, mark, vlist, sizes, found>>

Tally(p) ==
  /\ Runs(p, "tally", "idle")
  /\ \E k \in todo :
       LET c == vlist[k]
           csz == mark[c] + 1
       IN  /\ todo' = todo \ {k} /\ mark' = [mark EXCEPT ![c] = -1]
           /\ Move(p, [th[p] EXCEPT !.nn = IF csz > 1 THEN @ + 1 ELSE @,
                                    !.mx = IF csz > @ THEN csz ELSE @])
  /\ UNCHANGED <<keeps, history, run, pc, t, changed, cm, vlist, sizes, found>>

EndTally ==
  /\ Barrier("tally") /\ pc' = "sum"
  /\ UNCHANGED <<keeps, history, run, t, changed, todo, cm, th, count>>

(* The reduction of nnsc and the critical section for mxcsz.               *)
Sum(p) ==
  /\ Runs(p, "sum", "idle")
  /\ sizes' = [nnsc |-> sizes.nnsc + th[p].nn,
               mxcsz |-> IF th[p].mx > sizes.mxcsz THEN th[p].mx ELSE sizes.mxcsz]
  /\ Move(p, At(p, "summed"))
  /\ UNCHANGED <<keeps, history, run, loop, cm, mark, vlist, found>>

EndSum ==
  /\ pc = "sum" /\ \A p \in Threads : th[p].pc = "summed"
  /\ found' = [found EXCEPT !.nonsingleton = sizes.nnsc, !.max = sizes.mxcsz]
  /\ pc' = "done" /\ th' = [p \in Threads |-> Idle]
  /\ UNCHANGED <<keeps, history, run, t, changed, todo, cm, mark, vlist, sizes>>

------------------------------------------------------------------------------
Worker(p) ==
  \/ TakeEdge(p) \/ Compare(p) \/ Store(p)
  \/ TakeVertex(p) \/ LoadRoot(p) \/ Climb(p)
  \/ Claim(p) \/ List(p) \/ Tally(p) \/ Sum(p)

Team ==
  \/ Begin \/ NextType \/ EndSweep \/ EndClimb
  \/ CountRoots \/ EndClaim \/ EndTally \/ EndSum

Over == pc = "done" /\ run = Len(history) /\ UNCHANGED vars

Next == Team \/ (\E p \in Threads : Worker(p)) \/ Over

Spec == Init /\ [][Next]_vars
FairSpec == Spec /\ WF_vars(Team) /\ \A p \in Threads : WF_vars(Worker(p))

------------------------------------------------------------------------------
(* Properties.                                                             *)

Locals == [pc : {"idle", "compare", "store", "load", "climb", "list", "summed"},
           i : V, j : V, d : V, nn : Nat, mx : Nat \cup {-1}]

TypeOK ==
  /\ keeps \in BOOLEAN /\ history \in Histories /\ run \in 0..Len(history)
  /\ pc \in {"sweep", "climb", "count", "claim", "tally", "sum", "done"} /\ t \in Types
  /\ (pc # "done" => run > 0)
  /\ cm \in [V -> V] /\ changed \in BOOLEAN /\ th \in [Threads -> Locals]
  /\ mark \in [V -> Nat \cup {-1}] /\ vlist \in Seq(V)
  /\ sizes \in [nnsc : Nat, mxcsz : Nat]
  /\ found \in [n : Nat, nonsingleton : Nat, max : Nat]

(* No label is greater than its vertex, whatever labels threads overwrite: *)
(* this is what makes the climb (server.cpp:552-558) end.                  *)
LabelsDescend == \A v \in V : cm[v] <= v

(* When a computation ends, the two ends of every edge have one label, and *)
(* a label is its own: a sweep that finds nothing to store has compared    *)
(* labels that nobody was writing (server.cpp:533-550).                    *)
EndsAgree ==
  pc \in {"done", "count", "claim", "tally", "sum"} /\ run > 0 =>
    /\ \A e \in Edges : cm[e[1]] = cm[e[2]]
    /\ \A v \in V : cm[cm[v]] = cm[v]

(* What reaches what: the vertices in every set that holds v and that no   *)
(* edge leaves.                                                            *)
Closed(edges, s) == \A e \in edges : e[1] \in s => e[2] \in s
Reach(edges, v) == {w \in V : \A s \in SUBSET V : v \in s /\ Closed(edges, s) => w \in s}
Past(n) == UNION {UNION {history[r][x] : x \in Types} : r \in 1..n}
Least(s) == CHOOSE x \in s : \A y \in s : x <= y

(* The edges that labels may have come along.                              *)
Known == IF keeps THEN Past(run) ELSE IF run = 0 THEN {} ELSE Edges

(* A label names a vertex that can be reached by edges of this graph or,   *)
(* if labels are kept, of an earlier one: never another component's.       *)
LabelsConnected == \A v \in V : cm[v] \in Reach(Known, v)

(* The labels are those of the components, each the least of its vertices, *)
(* unless labels are kept and an edge has gone since; and static_          *)
(* components returns the number of components whose least vertex has a    *)
(* type, whatever types the others have (static_components.c:45-55).       *)
Growing == \A x \in Types : \A r \in 1..run - 1 : history[r][x] \subseteq history[r + 1][x]
Components ==
  pc = "done" /\ run > 0 /\ (keeps => Growing) =>
    /\ \A v \in V : cm[v] = Least(Reach(Edges, v))
    /\ ~keeps => found.n = Cardinality({c \in {Reach(Edges, v) : v \in V} : vtype[Least(c)] # 0})

(* The vertices of a label, and the labels there are.                      *)
Class(c) == {v \in V : cm[v] = c}
Names == {cm[v] : v \in V}

(* The counts the server reports are those of the labels, whichever thread *)
(* claimed and summed which, and every mark is back at -1 for the next     *)
(* batch (server.cpp:569-612).                                             *)
SizesCounted ==
  pc = "done" /\ run > 0 /\ keeps =>
    /\ found.nonsingleton = Cardinality({c \in Names : Cardinality(Class(c)) > 1})
    /\ \A c \in Names : Cardinality(Class(c)) <= found.max
    /\ \E c \in Names : Cardinality(Class(c)) = found.max
    /\ \A v \in V : mark[v] = -1

(* "Iterate until no changes occur" (server.cpp:531): every computation    *)
(* ends, although a store may raise a label that was lowered in between.   *)
Termination == <>(pc = "done" /\ run = Len(history))
==============================================================================

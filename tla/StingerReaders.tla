--------------------------- MODULE StingerReaders ----------------------------
(***************************************************************************)
(* A reader beside the threads of StingerEdges: the traversals of          *)
(* inc/core/stinger-traversal.h, which the web pages run while batches are *)
(* applied.  A reader takes no lock and follows links with plain loads.    *)
(*                                                                         *)
(* The kinds of traversal that only read are "vertex", along the list of a *)
(* vertex, "typed", along the blocks of one type in it, and "array", along *)
(* the edge type array.  "modify" is the traversal along the list of a     *)
(* vertex whose body may change edges, which stinger.h calls unsafe beside *)
(* updates and json-support.c runs all the same.  The reader's body only   *)
(* looks at type, source and destination.                                  *)
(***************************************************************************)
EXTENDS StingerEdges

CONSTANT Traversals   \* those that may be asked for; v and e are 0 where unused

ASSUME TraversalsOK ==
  Traversals \subseteq [kind : {"vertex", "typed", "array", "modify"}, v : Vertices, e : Types]

VARIABLES
  rd,      \* the reader: program counter and locals
  seen,    \* what the body was run on, in order
  stable,  \* history: the edges present ever since the traversal began
  ever     \* history: the edges stored at any time since then

reader == <<rd, seen, stable, ever>>
allVars == <<vars, reader>>

(* rd.v   the vertex, rd.e the type       rd.p   position in the array     *)
(* rd.b   the block, rd.i position in it  rd.in  a block of the type is met*)
NoReader ==
  [pc |-> "none", kind |-> "vertex", v |-> 0, e |-> 0, p |-> 0, b |-> 0, i |-> 0, in |-> FALSE]

(* An edge is stored from the moment its block is allocated; a traversal   *)
(* by type may find it there before a list leads to it.                    *)
Stored == {EdgeIn(p[1], p[2]) : p \in {q \in {b \in Blocks : b < tail} \X Slots : Occupied(q[1], q[2])}}
Wanted(edges) == {x \in edges : rd.kind \in {"vertex", "modify"} \/ x[1] = rd.e} \cap
                 {x \in edges : rd.kind = "array" \/ x[2] = rd.v}

ReaderInit == rd = NoReader /\ seen = <<>> /\ stable = {} /\ ever = {}

(* A traversal may begin at any time in the last phase; those before set   *)
(* the graph up.                                                           *)
Begin ==
  /\ rd.pc = "none" /\ phase >= Len(work) /\ ~aborted
  /\ \E q \in Traversals :
       rd' = [NoReader EXCEPT !.kind = q.kind, !.v = q.v, !.e = q.e,
                              !.pc = IF q.kind = "array" THEN "place" ELSE "head"]
  /\ stable' = Edges /\ ever' = Stored /\ UNCHANGED <<seen, vars>>

Go(upd) == rd' = upd /\ UNCHANGED <<seen, stable, ever, vars>>
Reads(label) == rd.pc = label /\ ~aborted

(* The plain load of a list's head or of next.  MARKER, which a thread     *)
(* that appends leaves there, is taken for the index of a block.           *)
Follow(c) ==
  Go([rd EXCEPT !.b = link[c], !.i = 0,
                !.pc = CASE link[c] = 0 -> "done" [] link[c] = MARKER -> "wild" [] OTHER -> "block"])

(* "modify" takes the head of the list through stinger_vertex_edges_get,   *)
(* whose readff waits while it is locked; what follows are plain loads.    *)
ReadHead ==
  /\ Reads("head")
  /\ rd.kind = "modify" => link[HeadOf(rd.v)] # MARKER
  /\ Follow(HeadOf(rd.v))

(* "typed" skips to the first block of its type, and stops at the next one *)
(* of another type.                                                        *)
EnterBlock ==
  /\ Reads("block")
  /\ Go(CASE rd.kind # "typed" -> [rd EXCEPT !.pc = "high"]
          [] rd.kind = "typed" /\ eb[rd.b].type = rd.e -> [rd EXCEPT !.pc = "high", !.in = TRUE]
          [] OTHER -> [rd EXCEPT !.pc = IF rd.in THEN "done" ELSE "next"])

(* Mutant of CheckHigh: one slot short.                                    *)
CheckHigh_Short ==
  /\ Reads("high") /\ Go([rd EXCEPT !.pc = IF rd.i < eb[rd.b].high - 1 THEN "slot" ELSE "next"])

CheckHigh ==
  /\ Reads("high") /\ Go([rd EXCEPT !.pc = IF rd.i < eb[rd.b].high THEN "slot" ELSE "next"])

(* Slots that hold no edge are skipped ...                                 *)
ReadSlot ==
  /\ Reads("slot")
  /\ Go(IF eb[rd.b].edges[rd.i].nbr < 0 THEN [rd EXCEPT !.i = @ + 1, !.pc = "high"]
        ELSE [rd EXCEPT !.pc = "copy"])

(* Mutant of CopySlot: the copy is not looked at again.                    *)
CopySlot_Once ==
  /\ Reads("copy")
  /\ seen' = Append(seen, <<eb[rd.b].type, eb[rd.b].vertex, eb[rd.b].edges[rd.i].nbr>>)
  /\ rd' = [rd EXCEPT !.i = @ + 1, !.pc = "high"]
  /\ UNCHANGED <<stable, ever, vars>>

(* ... and the edge, which may have been removed by then, is loaded again: *)
(* "modify" runs its body on it come what may, the others on a copy that   *)
(* still is an edge.                                                       *)
CopySlot ==
  /\ Reads("copy")
  /\ LET n == eb[rd.b].edges[rd.i].nbr
     IN  seen' = IF n < 0 /\ rd.kind # "modify" THEN seen
                 ELSE Append(seen, <<eb[rd.b].type, eb[rd.b].vertex, n>>)
  /\ rd' = [rd EXCEPT !.i = @ + 1, !.pc = "high"]
  /\ UNCHANGED <<stable, ever, vars>>

(* Mutant of ReadNext: from the head again.                                *)
ReadNext_Head ==
  /\ Reads("next")
  /\ IF rd.kind = "array" THEN Go([rd EXCEPT !.p = @ + 1, !.pc = "place"]) ELSE Follow(HeadOf(rd.v))

ReadNext ==
  /\ Reads("next")
  /\ IF rd.kind = "array" THEN Go([rd EXCEPT !.p = @ + 1, !.pc = "place"]) ELSE Follow(NextOf(rd.b))

(* The array: high is read each time round.                                *)
EndOfArray == Reads("place") /\ rd.p >= eta[rd.e].high /\ Go([rd EXCEPT !.pc = "done"])

ReadPlace ==
  /\ Reads("place") /\ rd.p < eta[rd.e].high /\ eta[rd.e].blocks[rd.p] # Unwritten
  /\ Go([rd EXCEPT !.b = eta[rd.e].blocks[rd.p], !.i = 0, !.pc = "block"])

(* A place that is claimed and not yet filled holds whatever the memory    *)
(* held: in pages fresh from the system the null block, whose high is 0,   *)
(* in others any index.                                                    *)
ReadUnwritten ==
  /\ Reads("place") /\ rd.p < eta[rd.e].high /\ eta[rd.e].blocks[rd.p] = Unwritten
  /\ \E to \in {"next", "wild"} : Go([rd EXCEPT !.b = 0, !.i = 0, !.pc = to])

Read ==
  \/ ReadHead \/ EnterBlock \/ CheckHigh \/ ReadSlot \/ CopySlot \/ ReadNext
  \/ EndOfArray \/ ReadPlace \/ ReadUnwritten

(* What a step of a thread adds to the reader's history.                   *)
Observe ==
  IF rd.pc \in {"none", "done", "wild"} THEN UNCHANGED reader
  ELSE stable' = stable \cap Edges' /\ ever' = ever \cup Stored' /\ UNCHANGED <<rd, seen>>

Write(t) == Step(t) /\ Observe
Join == Barrier /\ Observe
Rest == Over /\ UNCHANGED reader

ReadersInit == Init /\ ReaderInit
ReadersNext == Join \/ (\E t \in Threads : Write(t)) \/ Begin \/ Read \/ Rest

(* The reader's own thread is scheduled, and so are the others.            *)
ReadersSpec ==
  /\ ReadersInit /\ [][ReadersNext]_allVars
  /\ WF_allVars(Read) /\ WF_allVars(Join)
  /\ \A t \in Threads : WF_allVars(Write(t))

------------------------------------------------------------------------------
(* Properties.                                                             *)

(* Nothing is made up: whatever the body of a traversal that only reads is *)
(* run on was stored at some time since the traversal began, of the type   *)
(* and the source asked for.                                               *)
ReadsStored == rd.kind # "modify" => \A n \in DOMAIN seen : seen[n] \in Wanted(ever)

(* Nothing is missed by a traversal of all edges of a vertex or of a type: *)
(* an edge that is there from the beginning to the end of it is met once,  *)
(* whatever is inserted and removed around it.                             *)
SeesStable ==
  rd.pc = "done" /\ rd.kind # "typed" =>
    \A x \in Wanted(stable) : \E n \in DOMAIN seen : \A m \in DOMAIN seen : seen[m] = x <=> m = n

(* A traversal that has begun ends: lists grow while it runs, but not for  *)
(* ever.                                                                   *)
TraversalEnds == rd.pc \in {"head", "place"} ~> (aborted \/ rd.pc \in {"done", "wild"})

(* "These should be safe even when the graph is being modified elsewhere"  *)
(* (stinger.h:304): a reader never leaves the pool of blocks.              *)
StaysInPool == rd.pc # "wild"
==============================================================================

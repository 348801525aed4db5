---------------------------- MODULE StingerNames -----------------------------
(***************************************************************************)
(* The string-to-integer map of src/core/stinger-names.c, on which the     *)
(* physical vertex map and the type names are built: an open-addressing    *)
(* hash table whose buckets are locked with full/empty bits, in one        *)
(* allocation that also holds the strings and the inverse map.             *)
(*                                                                         *)
(* A string is a member of Names.  What the code does with its bytes is    *)
(* given by constants: its bucket, its length, and which strings it is a   *)
(* prefix of, all that strncmp over the length of the query can tell.      *)
(* As in StingerEdges, the calls come in phases ended by a barrier.        *)
(***************************************************************************)
EXTENDS Integers, Sequences

CONSTANTS
  Threads,    \* the threads that share the map
  Names,      \* the strings
  Hash,       \* Hash[n]: xor_hash(n, length) modulo the number of buckets
  Length,     \* Length[n]: strlen, cut to NAME_STR_MAX
  PrefixOf,   \* <<q, s>>: q is a prefix of s
  MaxTypes,   \* max_types
  MaxNames,   \* max_names: bytes of string storage, less one
  Workloads   \* the sequences of phases; a phase is a sequence of calls

Buckets == 0..2 * MaxTypes - 1
Calls   == [kind : {"create", "lookup", "name"}, name : Names, type : Nat]

ASSUME NamesOK ==
  /\ MaxTypes \in Nat \ {0} /\ MaxNames \in Nat
  /\ Hash \in [Names -> Buckets]
  /\ Length \in [Names -> Nat]
  /\ \A n \in Names : <<n, n>> \in PrefixOf
  /\ Workloads \subseteq Seq(Seq(Calls))

MARKER    == -1
INT64_MAX == 999

VARIABLES
  work, phase,  \* the workload and the phase in progress
  res,          \* res[i]: "todo", "taken" or "done", call i of the phase
  word,         \* the three int64 arrays of the storage, one after the other
  text,         \* text[p]: the string stored at p
  next_string,
  next_type,
  th,           \* th[t]: program counter and locals of thread t
  answers       \* history: every answer given, [call, rtn, out]

vars == <<work, phase, res, word, text, next_string, next_type, th, answers>>

(* MAP_SN: to_name has MaxTypes entries, and from_name starts where it     *)
(* ends.                                                                   *)
ToName(i)   == i
FromName(i) == MaxTypes + i
ToInt(i)    == 3 * MaxTypes + i

Idle    == [pc |-> "idle", op |-> 0, index |-> 0, place |-> 0]
Call(t) == work[phase][th[t].op]
Query(t) == Call(t).name

Begun(w, p) == [i \in IF p \in DOMAIN w THEN DOMAIN w[p] ELSE {} |-> "todo"]

(* stinger_names_new: everything zeroed, string 0 reserved for "no entry". *)
Init ==
  /\ work \in Workloads
  /\ phase = 1
  /\ res = Begun(work, 1)
  /\ word = [i \in 0..5 * MaxTypes - 1 |-> 0]
  /\ text = <<>>
  /\ next_string = 1
  /\ next_type = 0
  /\ th = [t \in Threads |-> Idle]
  /\ answers = {}

At(t, from)  == th[t].pc = from
Move(t, to)  == th' = [th EXCEPT ![t].pc = to]

callVars  == <<work, phase, res, answers>>
storeVars == <<text, next_string, next_type>>

Answer(t, rtn, out) ==
  /\ answers' = answers \cup {[call |-> Call(t), rtn |-> rtn, out |-> out]}
  /\ res' = [res EXCEPT ![th[t].op] = "done"]
  /\ th' = [th EXCEPT ![t] = Idle]
  /\ UNCHANGED <<work, phase>>

(* A call, and the test for room that stinger_names_create_type begins     *)
(* with.                                                                   *)
Take(t, i) ==
  /\ At(t, "idle") /\ i \in DOMAIN res /\ res[i] = "todo"
  /\ res' = [res EXCEPT ![i] = "taken"]
  /\ LET c == work[phase][i]
     IN  th' = [th EXCEPT ![t] =
                  [Idle EXCEPT !.op = i, !.index = Hash[c.name],
                     !.pc = CASE c.kind = "create" -> "room"
                              [] c.kind = "lookup" -> "probe"
                              [] c.kind = "name"   -> "inverse"]]
  /\ UNCHANGED <<work, phase, answers, word, storeVars>>

Room(t) ==
  /\ At(t, "room")
  /\ IF next_type > MaxTypes
     THEN Answer(t, -1, 0)
     ELSE Move(t, "probe") /\ UNCHANGED callVars
  /\ UNCHANGED <<word, storeVars>>

Stored(t) == word[FromName(th[t].index)]

(* strncmp(name, names + place, length) == 0                               *)
Matches(n, place) == place \in DOMAIN text /\ <<n, text[place]>> \in PrefixOf

(* readff of the bucket: it is empty, or it holds a string to compare.     *)
Probe(t) ==
  /\ At(t, "probe") /\ Stored(t) # MARKER
  /\ IF Stored(t) # 0 THEN Move(t, "compare") /\ UNCHANGED callVars
     ELSE IF Call(t).kind = "lookup" THEN Answer(t, -1, 0)
     ELSE Move(t, "claim") /\ UNCHANGED callVars
  /\ UNCHANGED <<word, storeVars>>

(* Mutant of NextBucket: the search does not wrap round.                   *)
NextBucket_NoWrap(t) ==
  th' = [th EXCEPT ![t].index = @ + 1, ![t].pc = "probe"] /\ UNCHANGED callVars

(* The bucket after this one, until the search is back where it began.     *)
NextBucket(t) ==
  LET next == (th[t].index + 1) % (2 * MaxTypes)
  IN  IF next = Hash[Query(t)]
      THEN Answer(t, -1, 0)
      ELSE th' = [th EXCEPT ![t].index = next, ![t].pc = "probe"] /\ UNCHANGED callVars

Compare(t) ==
  /\ At(t, "compare") /\ Stored(t) # MARKER
  /\ IF Matches(Query(t), Stored(t))
     THEN Move(t, "found") /\ UNCHANGED callVars
     ELSE NextBucket(t)
  /\ UNCHANGED <<word, storeVars>>

Found(t) ==
  /\ At(t, "found")
  /\ Answer(t, 0, word[ToInt(th[t].index)])
  /\ UNCHANGED <<word, storeVars>>

(* Mutant of Claim: the bucket is not looked at again once it is locked.   *)
Claim_NoRecheck(t) ==
  /\ At(t, "claim") /\ Stored(t) # MARKER
  /\ word' = [word EXCEPT ![FromName(th[t].index)] = MARKER]
  /\ th' = [th EXCEPT ![t].place = Stored(t), ![t].pc = "reserve"]
  /\ UNCHANGED <<callVars, storeVars>>

(* readfe: lock the bucket that was empty when it was probed.              *)
Claim(t) ==
  /\ At(t, "claim") /\ Stored(t) # MARKER
  /\ word' = [word EXCEPT ![FromName(th[t].index)] = MARKER]
  /\ th' = [th EXCEPT ![t].place = Stored(t),
                      ![t].pc = IF Stored(t) = 0 THEN "reserve" ELSE "again"]
  /\ UNCHANGED <<callVars, storeVars>>

(* Mutant of Again: the bucket of the string that was found stays locked.  *)
Again_Locked(t) ==
  /\ At(t, "again")
  /\ Move(t, IF Matches(Query(t), th[t].place) THEN "found" ELSE "hung")
  /\ UNCHANGED <<callVars, word, storeVars>>

(* Another thread has filled it since.  When the string is another one,    *)
(* the writeef that should give the bucket back is aimed at a word of the  *)
(* thread's own stack (&from_name + index), which does not hold MARKER:    *)
(* the thread spins there, the bucket stays locked.                        *)
Again(t) ==
  /\ At(t, "again")
  /\ IF Matches(Query(t), th[t].place)
     THEN /\ Stored(t) = MARKER
          /\ word' = [word EXCEPT ![FromName(th[t].index)] = th[t].place]
          /\ Move(t, "found")
     ELSE Move(t, "hung") /\ UNCHANGED word
  /\ UNCHANGED <<callVars, storeVars>>

(* fetch_add of next_string.  Without room for the string the call returns *)
(* and leaves the bucket locked.                                           *)
Reserve(t) ==
  /\ At(t, "reserve")
  /\ next_string' = next_string + Length[Query(t)] + 1
  /\ IF next_string + Length[Query(t)] >= MaxNames
     THEN Answer(t, -1, INT64_MAX)
     ELSE /\ th' = [th EXCEPT ![t].place = next_string, ![t].pc = "number"]
          /\ UNCHANGED callVars
  /\ UNCHANGED <<word, text, next_type>>

(* strncpy into the reserved bytes, and fetch_add of next_type.            *)
Number(t) ==
  /\ At(t, "number")
  /\ text' = [p \in DOMAIN text \cup {th[t].place} |->
                IF p = th[t].place THEN Query(t) ELSE text[p]]
  /\ word' = [word EXCEPT ![ToInt(th[t].index)] = next_type]
  /\ next_type' = next_type + 1
  /\ Move(t, "invert")
  /\ UNCHANGED <<callVars, next_string>>

(* Mutant of Invert: the inverse map is indexed by bucket.                 *)
Invert_ByBucket(t) ==
  /\ At(t, "invert")
  /\ word' = [word EXCEPT ![ToName(th[t].index)] = th[t].place]
  /\ Move(t, "publish")
  /\ UNCHANGED <<callVars, storeVars>>

Invert(t) ==
  /\ At(t, "invert")
  /\ word' = [word EXCEPT ![ToName(word[ToInt(th[t].index)])] = th[t].place]
  /\ Move(t, "publish")
  /\ UNCHANGED <<callVars, storeVars>>

(* writeef of the bucket: from here on the string is found.                *)
Publish(t) ==
  /\ At(t, "publish") /\ Stored(t) = MARKER
  /\ word' = [word EXCEPT ![FromName(th[t].index)] = th[t].place]
  /\ Move(t, "created")
  /\ UNCHANGED <<callVars, storeVars>>

Created(t) ==
  /\ At(t, "created")
  /\ Answer(t, 1, word[ToInt(th[t].index)])
  /\ UNCHANGED <<word, storeVars>>

(* stinger_names_lookup_name answers the place of the string, -1 for NULL. *)
LookupName(t) ==
  /\ At(t, "inverse")
  /\ Answer(t, 0, IF Call(t).type < MaxTypes THEN word[ToName(Call(t).type)] ELSE -1)
  /\ UNCHANGED <<word, storeVars>>

Barrier ==
  /\ phase \in DOMAIN work
  /\ \A i \in DOMAIN res : res[i] = "done"
  /\ phase' = phase + 1
  /\ res' = Begun(work, phase + 1)
  /\ UNCHANGED <<work, word, storeVars, th, answers>>

Step(t) ==
  \/ \E i \in DOMAIN res : Take(t, i)
  \/ Room(t) \/ Probe(t) \/ Compare(t) \/ Found(t)
  \/ Claim(t) \/ Again(t) \/ Reserve(t) \/ Number(t) \/ Invert(t)
  \/ Publish(t) \/ Created(t) \/ LookupName(t)

Over == phase \notin DOMAIN work /\ UNCHANGED vars

Next == Barrier \/ Over \/ \E t \in Threads : Step(t)

Spec == Init /\ [][Next]_vars

(* Every thread of the team is scheduled, and so is the barrier.           *)
FairSpec ==
  /\ Spec
  /\ WF_vars(Barrier)
  /\ \A t \in Threads : WF_vars(Step(t))

------------------------------------------------------------------------------
ProgramCounters ==
  {"idle", "room", "probe", "compare", "found", "claim", "again", "hung",
   "reserve", "number", "invert", "publish", "created", "inverse"}

(* Type invariant: buckets and counters stay in range.                     *)
TypeOK ==
  /\ work \in Workloads /\ phase \in Nat
  /\ res \in [DOMAIN Begun(work, phase) -> {"todo", "taken", "done"}]
  /\ word \in [0..5 * MaxTypes - 1 -> Int]
  /\ DOMAIN text \subseteq Nat /\ \A p \in DOMAIN text : text[p] \in Names
  /\ next_string \in Nat /\ next_type \in Nat
  /\ th \in [Threads -> [pc : ProgramCounters, op : Nat, index : Buckets, place : Int]]
  /\ answers \subseteq [call : Calls, rtn : {-1, 0, 1}, out : Int]

(* Whatever races, one string has one number and one number one string:    *)
(* every create and every lookup of a string that succeeds answers the     *)
(* number that its only successful creation answered.                      *)
AnswersAgree ==
  \A a, b \in {x \in answers : x.call.kind # "name" /\ x.rtn # -1} :
    /\ a.call.name = b.call.name <=> a.out = b.out
    /\ a.rtn = 1 /\ b.rtn = 1 /\ a.call.name = b.call.name => a = b

(* Bucket i has the string stored at p: in its word or, while the bucket   *)
(* is locked, in the hands of the thread that found it there.              *)
Owns(i, p) ==
  /\ p \in DOMAIN text
  /\ \/ word[FromName(i)] = p
     \/ \E t \in Threads : th[t].pc \in {"again", "hung"} /\ th[t].index = i /\ th[t].place = p

(* Bucket j is one that a search from h passes before it comes to i.       *)
Between(h, i, j) == IF h <= i THEN h <= j /\ j < i ELSE h <= j \/ j < i

(* The thread does not give back the bucket it has locked and found filled.*)
Caught(t) == th[t].pc \in {"again", "hung"} /\ ~Matches(Query(t), th[t].place)

(* A string that has been created is found from then on, by its number and *)
(* by its name: a search that begins at its hash comes to its bucket, past *)
(* buckets that are neither empty nor have a string it would take for its  *)
(* own, unless some thread is caught in the table.                         *)
CreatedIsFound ==
  \A a \in answers : a.rtn = 1 =>
    \/ \E t \in Threads : Caught(t)
    \/ \E i \in Buckets, p \in DOMAIN text :
         /\ text[p] = a.call.name /\ Owns(i, p)
         /\ word[ToInt(i)] = a.out /\ word[ToName(a.out)] = p
         /\ \A j \in Buckets : Between(Hash[a.call.name], i, j) =>
              \E q \in DOMAIN text : Owns(j, q) /\ ~Matches(a.call.name, q)

(* Every call returns.                                                     *)
Termination == <>(phase \notin DOMAIN work)

------------------------------------------------------------------------------
(* What a comment of the file says and the code does not do.               *)

(* "Parallel safe": no thread is caught in the table for ever.             *)
NobodyHangs == \A t \in Threads : th[t].pc # "hung"
==============================================================================

--------------------------- MODULE MCStingerNames ----------------------------
(* Instances of StingerNames for TLC: strings and the workloads of the     *)
(* runs.  "an" is a prefix of "ann"; "bob" shares their bucket, the last    *)
(* one, and "cy" has the first.                                            *)
EXTENDS StingerNames, TLC

Strings == {"an", "ann", "bob", "cy"}
Bucket  == ("an" :> 5) @@ ("ann" :> 5) @@ ("bob" :> 5) @@ ("cy" :> 0)
Bytes   == ("an" :> 2) @@ ("ann" :> 3) @@ ("bob" :> 3) @@ ("cy" :> 2)
Prefix  == {<<s, s>> : s \in Strings} \cup {<<"an", "ann">>}

Create(n) == [kind |-> "create", name |-> n, type |-> 0]
Lookup(n) == [kind |-> "lookup", name |-> n, type |-> 0]
Name(i)   == [kind |-> "name", name |-> "cy", type |-> i]

(* Calls race for the same string and for strings in other buckets; a      *)
(* string whose bucket is taken comes later and probes past it.            *)
Racing ==
  { << <<Create("ann"), Create(a), Lookup("ann"), Create("cy")>>,
       <<Create("bob"), Lookup(IF a = "cy" THEN "cy" ELSE "bob"), Create("bob"), Name(0)>>,
       <<Lookup("bob"), Create("ann"), Name(3)>> >> :
      a \in {"ann", "cy"} }

(* Two strings of one bucket created together.                             *)
Colliding == { << <<Create("ann"), Create("bob")>> >> }

Symmetry == Permutations(Threads)
==============================================================================

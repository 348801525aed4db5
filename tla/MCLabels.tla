------------------------------ MODULE MCLabels -------------------------------
(* Instances of Labels for TLC: the graphs it is run on, one after the     *)
(* other.                                                                  *)
EXTENDS Labels

Both(pairs) == pairs \cup {<<e[2], e[1]>> : e \in pairs}
Typed(a, b) == [x \in Types |-> IF x = 0 THEN Both(a) ELSE Both(b)]

(* Vertices 1 and 2 have a type, 0 and 3 none.                             *)
SomeTyped == [v \in V |-> IF v \in {1, 2} THEN 1 ELSE 0]

(* A path whose labels have far to go, with edges of both types; a graph   *)
(* that grows; one that loses an edge.                                     *)
Small ==
  { <<Typed({<<0, 3>>, <<3, 1>>}, {<<1, 2>>})>>,
    <<Typed({<<2, 3>>}, {}), Typed({<<2, 3>>}, {<<0, 3>>})>>,
    <<Typed({<<0, 2>>}, {<<1, 2>>}), Typed({}, {<<1, 2>>})>> }

==============================================================================

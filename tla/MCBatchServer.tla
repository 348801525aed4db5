--------------------------- MODULE MCBatchServer -----------------------------
(* Instances of BatchServer for TLC: what the clients send.                *)
EXTENDS BatchServer, TLC

CONSTANTS A, a, B, C, D, empty

Strings  == {A, a, B, C, D, empty}
Lowered  == [n \in Strings |-> IF n = A THEN a ELSE n]

Ins(u, v, ts) == [source |-> u, destination |-> v, time |-> ts]
Del(u, v) == [source |-> u, destination |-> v]
Msg(type, keep, size, ins, del) ==
  [type |-> type, keep_alive |-> keep, size |-> size, parses |-> TRUE, ins |-> ins, del |-> del]
All(messages, hangup) ==
  [messages |-> messages, stop |-> Position(Len(messages) + 1, 0), hangup |-> hangup]
One(messages) == <<All(messages, TRUE)>>

(* Numbers: the same edge inserted and deleted, both directions inserted,  *)
(* a self-loop, a number out of range.                                     *)
Numbers ==
  { One(<<Msg("NUMBERS_ONLY", TRUE, 1, <<Ins(0, 1, 3), Ins(x, 0, 2), Ins(1, 1, 5)>>, <<>>),
          Msg("NUMBERS_ONLY", FALSE, 1, <<Ins(2, y, 4)>>, <<Del(0, 1), Del(y, 2)>>)>>) :
      x \in {1, 2}, y \in {1, 3} }

(* Strings: new ones, one in two spellings, one that only a deletion has,  *)
(* and more than there are vertices.                                       *)
Texts ==
  { One(<<Msg("STRINGS_ONLY", TRUE, 1, <<Ins(A, B, 3), Ins(x, a, 2)>>, <<>>),
          Msg("STRINGS_ONLY", TRUE, 1, <<Ins(B, empty, 1), Ins(D, A, 1)>>, <<Del(a, C), Del(D, a)>>),
          Msg("STRINGS_ONLY", FALSE, 1, <<Ins(A, B, 7)>>, <<>>)>>) :
      x \in {B, C} }

(* Both kinds in a batch, the destinations of insertions by number.        *)
Both ==
  { One(<<Msg("MIXED", FALSE, 1, <<Ins(A, 1, 2), Ins(0, 1, 2)>>, <<Del(a, B), Del(1, a)>>)>>) }

(* Ends given in the field that the type does not read.                    *)
Strange ==
  { One(<<Msg("NUMBERS_ONLY", TRUE, 1, <<Ins(A, B, 3), Ins(1, 0, 2)>>, <<>>),
          Msg("STRINGS_ONLY", FALSE, 1, <<Ins(0, B, 1)>>, <<Del(1, 1)>>)>>) }

(* Two connections, messages in pieces, an empty one, one or two that do   *)
(* not parse, and clients that leave without saying so, within a message   *)
(* or behind it, or stay.                                                  *)
Small(keep, size) == Msg("NUMBERS_ONLY", keep, size, <<Ins(0, 1, 1)>>, <<>>)
Idling == Msg("NUMBERS_ONLY", TRUE, 1, <<>>, <<>>)
Garbled == [Idling EXCEPT !.parses = FALSE]
Blank == Msg("NUMBERS_ONLY", FALSE, 0, <<>>, <<>>)
Goodbye == All(<<Small(FALSE, 1)>>, TRUE)
Pieces ==
  { << All(<<Small(TRUE, 1), Idling, Small(k, 2), Small(FALSE, 1)>>, h), Goodbye >> :
      k \in BOOLEAN, h \in BOOLEAN }
Refused ==
  { << All(<<Garbled, Garbled, m, Garbled, Blank>>, FALSE), Goodbye >> :
      m \in {Small(TRUE, 1), Garbled} }
Leaving ==
  { << [All(<<Small(TRUE, 2)>>, h) EXCEPT !.stop = p], Goodbye >> :
      h \in BOOLEAN, p \in {Position(1, 1), Position(1, 2), Position(1, 3), Position(2, 0)} }

Traffic == Numbers \cup Texts \cup Both \cup Strange \cup Pieces \cup Refused \cup Leaving

(* A deletion of a string that was never mapped.                           *)
Absent == { One(<<Msg("STRINGS_ONLY", FALSE, 1, <<Ins(A, B, 1)>>, <<Del(B, C)>>)>>) }

(* A MIXED insertion whose destination is a string.                        *)
Mixed == { One(<<Msg("MIXED", FALSE, 1, <<Ins(A, B, 1)>>, <<>>)>>) }

Symmetry == Permutations(Threads)
==============================================================================

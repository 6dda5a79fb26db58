--------------------------- MODULE MCConsolidation ---------------------------
(***************************************************************************)
(* Names 1 and 2 have one stem, 3 and 4 others, 5 none; the second entity    *)
(* has names of two stems and so joins what is otherwise apart.             *)
(***************************************************************************)
EXTENDS Consolidation

MCKeyOf == <<"a", "a", "b", "c", "">>

MCEntities ==
  << [canon |-> 2, aliases |-> {}], [canon |-> 1, aliases |-> {3, 5}], [canon |-> 3, aliases |-> {}],
     [canon |-> 1, aliases |-> {}], [canon |-> 4, aliases |-> {}] >>

MCNoSlot == [canon |-> 0, attr |-> ""]
Slot(canon) == [canon |-> canon, attr |-> "x"]
Raw(text, turn, quote, entities, slot) ==
  [text |-> text, turn |-> turn, quote |-> quote, entities |-> entities, slot |-> slot, stems |-> {"s"}]

\* White space in a row, markdown, and turns that take up to three vertices.
MCTexts ==
  << << <<"a", " ", " ", "b", "c">>, <<"d">> >>,
     << <<"a">>, <<"*", "b", "*", " ", "c", "d", "e", "f", "g">> >>,
     << <<"b", " ", "a">>, <<"e", "d">> >> >>

OfTwo == Raw(1, 0, <<"a", " ", "b">>, <<1>>, Slot(2))     \* a claim on what is called 2
OfThree == Raw(2, 0, <<"b", "c">>, <<3>>, Slot(3))        \* one on what is called 3
Joining == Raw(3, 1, <<"b", " ", "c">>, <<2>>, MCNoSlot)  \* both names are of one thing
OfFour(quote) == Raw(4, 1, quote, <<>>, Slot(4))          \* a slot no entity of the source has
OfOne == Raw(5, 0, <<"b", " ", "a">>, <<2, 4>>, Slot(1))

\* Quotes that are nowhere, and one of a turn there is not.
Unfounded ==
  << Raw(6, 2, <<"a">>, <<1>>, MCNoSlot), Raw(6, 0, <<" ">>, <<1>>, MCNoSlot),
     Raw(6, 0, <<"c", " ">>, <<1>>, MCNoSlot) >>

MCRawExtractions ==
  << {<<OfTwo, OfThree>>, <<OfThree>> \o Unfounded},
     {<<Joining, OfFour(<<"d", "e", "f">>), OfFour(<<"d", "e", "f">>)>>},
     {<<OfOne, OfFour(<<"d">>)>>} >>

MCReplies == {{}, {<<1, 2>>, <<2, 3>>, <<2, 1>>, <<1, 4>>}}
MCOrdinal == <<1, 2, 2>>
OneGeneration == <<"current", "current", "current">>
MCStranger == <<"Stranger">>
=============================================================================

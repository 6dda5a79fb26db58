------------------------------ MODULE Extraction ------------------------------
(***************************************************************************)
(* From what a model says of a session to claims with spans (Extract.ts,    *)
(* Chunk.ts, ClaimGraph.ts): a quote is looked for in the turn it is said   *)
(* to come from, as it stands, then with runs of white space taken as one,  *)
(* then without markdown, and its place is given in the turn's own text.    *)
(*                                                                         *)
(* A text is a sequence of characters.  As in the code turns and offsets    *)
(* count from 0, and a span excludes its end.  A claim as the model gives   *)
(* it is its text, turn, quote, entities, slot, and the stems of its own    *)
(* words; keywords, kinds and dates are left out.                           *)
(***************************************************************************)
EXTENDS Naturals, Sequences, FiniteSets, SequencesExt, FiniteSetsExt

CONSTANTS
  Whitespace, Noise,   \* characters: white space, and markdown's
  ChunkBytes           \* the largest text on one vertex

ASSUME ChunkBytesAssumption == ChunkBytes \in Nat \ {0}

Nowhere == [cs |-> 0, ce |-> 0, located |-> "nowhere"]

\* Blank: the text trimmed is empty.
Blank(text) == Range(text) \subseteq Whitespace

\* Some positions of a sequence, in order.
InOrder(positions) ==
  [k \in 1..Cardinality(positions) |->
     CHOOSE i \in positions : Cardinality({j \in positions : j <= i}) = k]

\* The positions a normalised text keeps: of white space the first of a run, and none
\* at the start.
Origins(text, strip) ==
  LET skipped == {i \in DOMAIN text : strip /\ text[i] \in Noise}
      before(i) == {j \in DOMAIN text \ skipped : j < i}
      kept(i) == \/ text[i] \notin Whitespace
                 \/ before(i) # {} /\ text[Max(before(i))] \notin Whitespace
  IN  InOrder({i \in DOMAIN text \ skipped : kept(i)})

\* Every white space of a normalised text is the same one.
Normalised(text, origins) ==
  LET space == CHOOSE s \in Whitespace : TRUE
  IN  [k \in DOMAIN origins |-> IF text[origins[k]] \in Whitespace THEN space ELSE text[origins[k]]]

\* The offsets at which a text holds another.
indexesOf(text, part) ==
  {at \in 0..Len(text) : at + Len(part) <= Len(text) /\ SubSeq(text, at + 1, at + Len(part)) = part}

\* Fault: the span is where the quote is in the normalised text.
InNormalised(origins, at, length) == [cs |-> at, ce |-> at + length]

\* The span of the turn that the normalised text came from.
FromOrigins(origins, at, length) == [cs |-> origins[at + 1] - 1, ce |-> origins[at + length]]

Loosely(turn, quote, strip) ==
  LET origins == Origins(turn, strip)
      needle == Normalised(quote, Origins(quote, strip))
      found == indexesOf(Normalised(turn, origins), needle)
      span == FromOrigins(origins, Min(found), Len(needle))
  IN  IF needle = <<>> \/ found = {} THEN Nowhere
      ELSE [cs |-> span.cs, ce |-> span.ce, located |-> IF strip THEN "markdown" ELSE "normalised"]

locateSpan(turn, quote) ==
  LET exact == indexesOf(turn, quote)
  IN  IF Blank(quote) THEN Nowhere
      ELSE IF exact # {} THEN [cs |-> Min(exact), ce |-> Min(exact) + Len(quote), located |-> "exact"]
      ELSE IF Loosely(turn, quote, FALSE) # Nowhere THEN Loosely(turn, quote, FALSE)
      ELSE Loosely(turn, quote, TRUE)

\* Why a claim is dropped; "" when it is not.
DropReason(turns, raw) ==
  CASE raw.turn \notin 0..(Len(turns) - 1) -> "bad_turn_idx"
    [] Blank(raw.quote) -> "empty_quote"
    [] locateSpan(turns[raw.turn + 1], raw.quote) = Nowhere -> "span_not_found"
    [] OTHER -> ""

\* A claim's identity is its text and its span; texts are shorter than 100 characters.
claimDigest(text, turn, cs, ce) == 100 * (100 * (100 * text + turn) + cs) + ce

\* The claims of a reply that are not dropped, with their spans.
extractSession(turns, reply) ==
  LET located == InOrder({j \in DOMAIN reply : DropReason(turns, reply[j]) = ""})
  IN  [k \in DOMAIN located |->
        LET raw == reply[located[k]]
            span == locateSpan(turns[raw.turn + 1], raw.quote)
        IN  [digest |-> claimDigest(raw.text, raw.turn, span.cs, span.ce),
             text |-> raw.text, turn |-> raw.turn, cs |-> span.cs, ce |-> span.ce,
             entities |-> raw.entities, slot |-> raw.slot, stems |-> raw.stems]]

\* A text in parts that fit a vertex: at least one, and all but the last full.
chunkText(text) ==
  LET n == IF Len(text) <= ChunkBytes THEN 1 ELSE (Len(text) + ChunkBytes - 1) \div ChunkBytes
      end(k) == IF k = n THEN Len(text) ELSE k * ChunkBytes
  IN  [k \in 1..n |-> SubSeq(text, (k - 1) * ChunkBytes + 1, end(k))]
=============================================================================

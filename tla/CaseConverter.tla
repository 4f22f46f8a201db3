--------------------------- MODULE CaseConverter ---------------------------
(***************************************************************************)
(* CaseConverter of core/ayuna_core/utils/strconv.py: eight styles of      *)
(* writing words, each a list of markers that a loop over the prepared     *)
(* text asks in turn.  The characters stand for their kinds: a letter in   *)
(* both cases, a digit, the default delimiters and one more punctuation    *)
(* mark.  A text is converted, and what comes out is converted again.      *)
(***************************************************************************)
EXTENDS Naturals, SequencesExt

CONSTANT MaxLength  \* bound: the characters of a text

VARIABLES
  request,  \* the style, the delimiters and whether to clear punctuation
  texts,    \* the text, and what each conversion has made of the one before
  refused   \* a conversion has raised AyunaError

caseVars == <<request, texts, refused>>

-----------------------------------------------------------------------------
(* Characters and texts                                                     *)

Lowers == {"x"}
Uppers == {"X"}
Punctuation == {"-", "_", "."}
DEFAULT_WORD_DELIMITERS == <<" ", "-", "_">>
Characters == Lowers \cup Uppers \cup {"1", " "} \cup Punctuation

Lower(ch) == IF ch \in Uppers THEN "x" ELSE ch
Upper(ch) == IF ch \in Lowers THEN "X" ELSE ch
Cased(ch, case) == IF case = "upper" THEN Upper(ch) ELSE Lower(ch)

IsUpper(text) == ToSet(text) \cap Uppers # {} /\ ToSet(text) \cap Lowers = {}

\* What str.strip leaves of a text.
Strip(text, delimiters) ==
  LET kept == {i \in DOMAIN text : text[i] \notin ToSet(delimiters)}
  IN  IF kept = {} THEN <<>> ELSE SubSeq(text, Min(kept), Max(kept))

\* Each run of delimiters becomes one character.
Collapse(text, delimiters, ch) ==
  LET Delimits(i) == text[i] \in ToSet(delimiters)
      heads == SelectSeq([i \in DOMAIN text |-> i],
                         LAMBDA i : ~(Delimits(i) /\ i > 1 /\ Delimits(i - 1)))
  IN  [k \in DOMAIN heads |-> IF Delimits(heads[k]) THEN ch ELSE text[heads[k]]]

Prepared(text, r) ==
  LET stripped == Strip(text, r.delimiters)
      cleared == IF ~r.clear THEN stripped
                 ELSE SelectSeq(stripped,
                        LAMBDA ch : ch \notin Punctuation \ ToSet(r.delimiters))
      single == Collapse(cleared, r.delimiters, r.delimiters[1])
  IN  IF IsUpper(single) THEN [i \in DOMAIN single |-> Lower(single[i])] ELSE single

-----------------------------------------------------------------------------
(* Markers                                                                  *)

\* What a marker answers to, whether it writes the join character, and the case of
\* the character that it writes: the next one for a delimiter, which it reads itself.
OnDelimiterNextUpper == [on |-> "delimiter", joins |-> TRUE, case |-> "upper"]
OnDelimiterNextLower == [on |-> "delimiter", joins |-> TRUE, case |-> "lower"]
OnLowerUpperAppendUpper == [on |-> "lower", joins |-> TRUE, case |-> "upper"]
OnLowerUpperAppendLower == [on |-> "lower", joins |-> TRUE, case |-> "lower"]
OnUpperUpperAppendJoin == [on |-> "upper", joins |-> TRUE, case |-> "upper"]
OnUpperUpperAppendCurrent == [on |-> "upper", joins |-> FALSE, case |-> "upper"]

Marks(marker, curr, prev, delimiters) ==
  CASE marker.on = "delimiter" -> curr \in ToSet(delimiters)
    [] marker.on = "lower" -> prev \in Lowers /\ curr \in Uppers
    [] marker.on = "upper" -> prev \in Uppers /\ curr \in Uppers

\* The loop over the characters: the last one that the loop has read, the text
\* written, and the case in which a delimiter's marker writes the next character, if
\* it does.
LoopStart(out) == [prev |-> "", out |-> out, next |-> "none"]

\* A character is written by the first marker that answers to it, or as it is.
MarkCharacter(markers, join, unmarked, delimiters, loop, curr) ==
  LET marking == SelectSeq(markers, LAMBDA m : Marks(m, curr, loop.prev, delimiters))
      joined(m) == IF m.joins THEN loop.out \o join ELSE loop.out
  IN  IF marking = <<>>
      THEN [prev |-> curr, out |-> Append(loop.out, Cased(curr, unmarked)), next |-> "none"]
      ELSE IF marking[1].on = "delimiter"
      THEN [prev |-> curr, out |-> joined(marking[1]), next |-> marking[1].case]
      ELSE [prev |-> curr, next |-> "none",
            out |-> Append(joined(marking[1]), Cased(curr, marking[1].case))]

\* The marker of a delimiter looks at the next character without taking it.
ReadCharacterPeeks(markers, join, unmarked, delimiters, loop, curr) ==
  LET peeked == IF loop.next = "none" THEN loop.out
                ELSE Append(loop.out, Cased(curr, loop.next))
  IN  MarkCharacter(markers, join, unmarked, delimiters, [loop EXCEPT !.out = peeked], curr)

\* One character of the text.  The one after a delimiter was read by the delimiter's
\* marker: no marker is asked about it, and prev stays at the delimiter.
ReadCharacter(markers, join, unmarked, delimiters, loop, curr) ==
  IF loop.next = "none" THEN MarkCharacter(markers, join, unmarked, delimiters, loop, curr)
  ELSE [loop EXCEPT !.out = Append(@, Cased(curr, loop.next)), !.next = "none"]

ProcessMarkers(markers, join, unmarked, delimiters, text, out) ==
  FoldLeft(LAMBDA loop, curr : ReadCharacter(markers, join, unmarked, delimiters, loop, curr),
           LoopStart(out), text).out

-----------------------------------------------------------------------------
(* Styles                                                                   *)

Words(markers, join, unmarked, r, text) ==
  ProcessMarkers(markers, join, unmarked, r.delimiters, Prepared(text, r), <<>>)

KebabCase(r, text) ==
  Words(<<OnDelimiterNextLower, OnLowerUpperAppendLower>>, <<"-">>, "lower", r, text)

CamelCase(r, text) ==
  Words(<<OnDelimiterNextUpper, OnLowerUpperAppendUpper>>, <<>>, "lower", r, text)

\* The first character is written before the loop, which does not know it.
PascalCase(r, text) ==
  LET prepared == Prepared(text, r) IN
    IF prepared = <<>> THEN <<>>
    ELSE ProcessMarkers(
           <<OnDelimiterNextUpper, OnLowerUpperAppendUpper, OnUpperUpperAppendCurrent>>,
           <<>>, "lower", r.delimiters, Tail(prepared), <<Upper(Head(prepared))>>)

SnakeCase(r, text) ==
  Words(<<OnDelimiterNextLower, OnLowerUpperAppendLower>>, <<"_">>, "lower", r, text)

\* A text in upper case only has its delimiters replaced, at its ends as well.
CobolCase(r, text) ==
  IF IsUpper(text) THEN Collapse(text, r.delimiters, "-")
  ELSE Words(<<OnDelimiterNextUpper, OnLowerUpperAppendUpper>>, <<"-">>, "upper", r, text)

MacroCase(r, text) ==
  IF IsUpper(text) THEN Collapse(text, r.delimiters, "_")
  ELSE Words(<<OnDelimiterNextUpper, OnLowerUpperAppendUpper, OnUpperUpperAppendJoin>>,
             <<"_">>, "upper", r, text)

FlatLower(r, text) ==
  Words(<<OnDelimiterNextLower, OnLowerUpperAppendLower>>, <<>>, "lower", r, text)

FlatUpper(r, text) ==
  Words(<<OnDelimiterNextUpper, OnLowerUpperAppendUpper>>, <<>>, "upper", r, text)

Styles == {"kebab", "camel", "pascal", "snake", "cobol", "macro", "flatlower", "flatupper"}

Styled(r, text) ==
  CASE r.style = "kebab" -> KebabCase(r, text)
    [] r.style = "camel" -> CamelCase(r, text)
    [] r.style = "pascal" -> PascalCase(r, text)
    [] r.style = "snake" -> SnakeCase(r, text)
    [] r.style = "cobol" -> CobolCase(r, text)
    [] r.style = "macro" -> MacroCase(r, text)
    [] r.style = "flatlower" -> FlatLower(r, text)
    [] r.style = "flatupper" -> FlatUpper(r, text)

-----------------------------------------------------------------------------
(* Conversions                                                              *)

CaseInit ==
  /\ request \in [style : Styles, clear : BOOLEAN,
                  delimiters : {DEFAULT_WORD_DELIMITERS, <<"_">>}]
  /\ texts \in {<<text>> : text \in BoundedSeq(Characters, MaxLength)}
  /\ refused = FALSE

\* Bound: a text is converted twice.
Convert ==
  /\ Len(texts) < 3 /\ Last(texts) # <<>>
  /\ texts' = Append(texts, Styled(request, Last(texts)))
  /\ UNCHANGED <<request, refused>>

\* _prepared_string raises for an empty text, also one that a conversion has emptied.
ConvertNothing ==
  /\ Last(texts) = <<>> /\ ~refused
  /\ refused' = TRUE
  /\ UNCHANGED <<request, texts>>

CaseNext == Convert \/ ConvertNothing

-----------------------------------------------------------------------------
(* Properties                                                               *)

\* The letters and digits of a text, in one case.
Content(text) ==
  LET kept == SelectSeq(text, LAMBDA ch : ch \in Lowers \cup Uppers \cup {"1"})
  IN  [i \in DOMAIN kept |-> Lower(kept[i])]

WordStyles == {"kebab", "snake", "cobol", "macro", "flatlower", "flatupper"}

\* No conversion loses, repeats or moves a letter, although markers read characters
\* on their own; and, but for the styles that mark words by their case alone, a text
\* that has been converted is left as it is when it is converted again, unless
\* punctuation stood between the delimiters at its ends and its words.
Converted ==
  /\ \A i \in 2..Len(texts) : Content(texts[i]) = Content(texts[1])
  /\ Len(texts) = 3 /\ request.style \in WordStyles
     /\ request.delimiters = DEFAULT_WORD_DELIMITERS /\ "." \notin ToSet(texts[1]) =>
       texts[3] = texts[2]
=============================================================================

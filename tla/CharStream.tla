----------------------------- MODULE CharStream -----------------------------
(***************************************************************************)
(* The characters a lexer reads: InputStream and the 8 bit IntStream of the *)
(* parser runtime (opt_grammar/antlr/antlr3input.inl, antlr3intstream.inl)  *)
(* and the stack of streams of the Lexer (antlr3lexer.inl:121-180).         *)
(*                                                                         *)
(* A pointer into the buffer is the number of characters before it.  A      *)
(* character is what the operations tell apart: a line end, the bytes of a  *)
(* byte order mark, anything else.                                          *)
(***************************************************************************)
EXTENDS Integers, FiniteSets, SequencesExt

CONSTANTS
  Streams,    \* the input streams
  Texts,      \* what is read: sequences of characters
  Encodings,  \* encodings a stream is opened with
  MaxMarks    \* bound on the marks of a stream that are held at a time

CharStreamAssumption == (\A t \in Texts : t \in Seq(STRING)) /\ MaxMarks \in Nat

VARIABLES
  inputs,     \* for each stream, the members of InputStream and IntStream
  input,      \* the stream the lexer reads
  streams     \* and those it will return to, the latest last

chars == <<inputs, input, streams>>

NL == "\n"

LexState == [nextChar : Nat, line : Nat, charPositionInLine : Int, currentLine : Nat]

InputStream ==
  [data : Texts, nextChar : Nat, line : Nat, charPositionInLine : Int, currentLine : Nat,
   markDepth : Nat, markers : Seq(LexState), lastMarker : Nat]

\* The first line is counted from -1, later ones from 0; lastMarker stays.
reset(s) ==
  [s EXCEPT !.nextChar = 0, !.line = 1, !.charPositionInLine = -1, !.currentLine = 0,
            !.markDepth = 0, !.markers = <<>>]

\* A UTF-8 mark is passed over; of the others, one byte only, and the little
\* endian one of UTF-32 is not recognized.
BomSkip(encoding, data) ==
  CASE encoding = "UTF8"  /\ IsPrefix(<<"EF", "BB", "BF">>, data) -> 3
    [] encoding = "UTF16" /\ IsPrefix(<<"FE", "FF">>, data) -> 1
    [] encoding = "UTF16" /\ IsPrefix(<<"FF", "FE">>, data) -> 1
    [] encoding = "UTF32" /\ IsPrefix(<<"00", "00", "FE", "FF">>, data) -> 1
    [] OTHER -> 0

setupInputStream(s, encoding) == [s EXCEPT !.nextChar = @ + BomSkip(encoding, s.data)]

Constructed(data, encoding) ==
  LET s == [data |-> data, nextChar |-> 0, line |-> 1, charPositionInLine |-> -1, currentLine |-> 0,
            markDepth |-> 0, markers |-> <<>>, lastMarker |-> 0]
  IN  setupInputStream(reset(s), encoding)

consumed(s) ==
  IF s.nextChar < Len(s.data)
    THEN IF s.data[s.nextChar + 1] = NL
      THEN [s EXCEPT !.nextChar = @ + 1, !.line = @ + 1, !.charPositionInLine = 0,
                     !.currentLine = s.nextChar + 1]
      ELSE [s EXCEPT !.nextChar = @ + 1, !.charPositionInLine = @ + 1]
    ELSE s

Saved(s) ==
  [nextChar |-> s.nextChar, line |-> s.line, charPositionInLine |-> s.charPositionInLine,
   currentLine |-> s.currentLine]

\* A slot of an earlier mark is used again.
marked(s) ==
  LET depth == s.markDepth + 1
  IN  [s EXCEPT !.markDepth = depth,
                !.markers = IF depth > Len(@) THEN Append(@, Saved(s))
                                              ELSE [@ EXCEPT ![depth] = Saved(s)],
                !.lastMarker = depth]

released(s, mark) == [s EXCEPT !.markDepth = mark - 1]

\* Backwards only the pointer is set; forwards every character is consumed.
seek(s, point) ==
  LET after[k \in 0 .. point - s.nextChar] == IF k = 0 THEN s ELSE consumed(after[k - 1])
  IN  IF point <= s.nextChar THEN [s EXCEPT !.nextChar = point] ELSE after[point - s.nextChar]

\* Mutant: the marks made since are not forgotten.
RewoundUnreleased(s, mark) ==
  LET state == s.markers[mark]
  IN  [seek(s, state.nextChar) EXCEPT
         !.line = state.line, !.charPositionInLine = state.charPositionInLine,
         !.currentLine = state.currentLine, !.nextChar = state.nextChar]

rewound(s, mark) ==
  LET state == s.markers[mark]
  IN  [seek(released(s, mark), state.nextChar) EXCEPT
         !.line = state.line, !.charPositionInLine = state.charPositionInLine,
         !.currentLine = state.currentLine, !.nextChar = state.nextChar]

CharsInit ==
  /\ \E t \in Texts, e \in Encodings : inputs = [s \in Streams |-> Constructed(t, e)]
  /\ input \in Streams
  /\ streams = <<>>

\* The program reads each line of a file through the same stream.
Reuse(data) ==
  /\ streams = <<>>
  /\ inputs' = [inputs EXCEPT ![input] = reset([@ EXCEPT !.data = data])]
  /\ UNCHANGED <<input, streams>>

Consume ==
  /\ inputs' = [inputs EXCEPT ![input] = consumed(@)]
  /\ UNCHANGED <<input, streams>>

Mark ==
  /\ inputs[input].markDepth < MaxMarks
  /\ inputs' = [inputs EXCEPT ![input] = marked(@)]
  /\ UNCHANGED <<input, streams>>

\* A prediction goes back to its own mark, which no later one outlives.
Rewind(mark) ==
  /\ mark \in 1 .. inputs[input].markDepth
  /\ inputs' = [inputs EXCEPT ![input] = rewound(@, mark)]
  /\ UNCHANGED <<input, streams>>

\* Only a rule that was parsed before is skipped by a seek, forwards.
SkipParsedRule(stopIndex) ==
  /\ stopIndex \in inputs[input].nextChar .. Len(inputs[input].data) - 1
  /\ inputs' = [inputs EXCEPT ![input] = seek(@, stopIndex + 1)]
  /\ UNCHANGED <<input, streams>>

\* An included text is read through a stream of its own.
PushCharStream(s, data, encoding) ==
  /\ s # input /\ ~ Contains(streams, s)
  /\ inputs[input].markDepth < MaxMarks
  /\ inputs' = [inputs EXCEPT ![input] = marked(@), ![s] = Constructed(data, encoding)]
  /\ streams' = Append(streams, input)
  /\ input' = s

\* rewindLast() on the stream below.
PopCharStream ==
  /\ streams # <<>>
  /\ input' = Last(streams)
  /\ streams' = Front(streams)
  /\ inputs' = [inputs EXCEPT ![Last(streams)] = rewound(@, @.lastMarker)]

CharsNext ==
  \/ Consume \/ Mark \/ PopCharStream
  \/ \E data \in Texts : Reuse(data)
  \/ \E mark \in 1 .. MaxMarks : Rewind(mark)
  \/ \E stopIndex \in 0 .. Len(inputs[input].data) : SkipParsedRule(stopIndex)
  \/ \E s \in Streams, data \in Texts, e \in Encodings : PushCharStream(s, data, e)

CharsSpec == CharsInit /\ [][CharsNext]_chars
----------------------------------------------------------------------------
\* The line, the column and the start of the line are those of the cursor,
\* after any seeks, marks and returns (antlr3intstream.inl:43-70, 148-175,
\* 199-226); on the first line the column is one less, and a byte order mark
\* that was passed over does not count.
Ends(data, n) == {k \in 1 .. n : data[k] = NL}

Latest(ends) == IF ends = {} THEN 0 ELSE CHOOSE k \in ends : \A j \in ends : j <= k

LineStart(data, n) == Latest(Ends(data, n))

Skipped(data) == {0} \cup {BomSkip(e, data) : e \in Encodings}

OfText(data, at) ==
  /\ at.nextChar <= Len(data)
  /\ at.line = 1 + Cardinality(Ends(data, at.nextChar))
  /\ at.currentLine = LineStart(data, at.nextChar)
  /\ IF Ends(data, at.nextChar) = {}
       THEN \E b \in Skipped(data) : at.charPositionInLine = at.nextChar - b - 1
       ELSE at.charPositionInLine = at.nextChar - LineStart(data, at.nextChar)

LinesFollowCursor ==
  /\ inputs \in [Streams -> InputStream]
  /\ \A s \in Streams : OfText(inputs[s].data, inputs[s])

\* The invariant behind it: the same holds of every place that is marked, no stream
\* is read from within itself, and one that waits was marked where it is left.
PlacesMarked ==
  \A s \in Streams :
    /\ inputs[s].markDepth <= Len(inputs[s].markers)
    /\ \A k \in 1 .. inputs[s].markDepth : OfText(inputs[s].data, inputs[s].markers[k])

Nested ==
  /\ input \in Streams /\ streams \in Seq(Streams)
  /\ \A k \in 1 .. Len(streams) :
       /\ streams[k] # input /\ \A j \in 1 .. Len(streams) : streams[j] = streams[k] => j = k
       /\ inputs[streams[k]].markDepth > 0
       /\ inputs[streams[k]].lastMarker = inputs[streams[k]].markDepth

CharInvariant == LinesFollowCursor /\ PlacesMarked /\ Nested

\* However often the slots of the markers are used again, a stream is a cursor
\* with a stack of marked places, and an inclusion returns to where it was made
\* (antlr3lexer.inl:140-180).
C == INSTANCE Cursor WITH
       text <- [s \in Streams |-> inputs[s].data],
       pos <- [s \in Streams |-> inputs[s].nextChar],
       marks <- [s \in Streams |->
                   [k \in 1 .. inputs[s].markDepth |-> inputs[s].markers[k].nextChar]],
       included <- Append(streams, input)

CharsAreCursor == C!Spec /\ []LinesFollowCursor
=============================================================================

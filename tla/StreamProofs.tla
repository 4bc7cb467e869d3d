---------------------------- MODULE StreamProofs ----------------------------
(***************************************************************************)
(* Proofs about the streams of the parser runtime: for texts of any length, *)
(* any number of character streams and marks, that lines and columns follow *)
(* the cursor and that the streams implement Cursor; and for any tokens,    *)
(* filters and distances, that a lookahead gives the token that the visible *)
(* tokens would give, when the buffer is filled at once, as the program has *)
(* it.                                                                      *)
(***************************************************************************)
EXTENDS CharStream, TokenStream, Induction, FiniteSetTheorems, SequenceTheorems
----------------------------------------------------------------------------
(***************************************************************************)
(* Lines.                                                                  *)
(***************************************************************************)
LEMMA EndsAreFinite ==
  ASSUME NEW data, NEW n \in Nat
  PROVE  /\ IsFiniteSet(Ends(data, n)) /\ Cardinality(Ends(data, n)) \in Nat
         /\ Ends(data, n) \subseteq 1 .. n /\ LineStart(data, n) \in 0 .. n
<1>1. Ends(data, n) \in SUBSET (1 .. n)
  BY DEF Ends
<1>2. IsFiniteSet(1 .. n)
  BY FS_Interval
<1>3. LineStart(data, n) \in 0 .. n
  <2>1. CASE Ends(data, n) = {}
    BY <2>1 DEF LineStart, Latest
  <2>2. CASE Ends(data, n) # {}
    <3>1. \E k \in Ends(data, n) : \A j \in Ends(data, n) : j <= k
      BY <1>1, <2>2, GreatestNumber
    <3>2. LineStart(data, n) \in Ends(data, n)
      BY <2>2, <3>1 DEF LineStart, Latest
    <3> QED BY <1>1, <3>2
  <2> QED BY <2>1, <2>2
<1> QED
  BY <1>1, <1>2, <1>3, FS_Subset, FS_CardinalityType

\* A line end starts a line; any other character changes nothing about lines.
LEMMA NextEnd ==
  ASSUME NEW data, NEW n \in Nat
  PROVE  IF data[n + 1] = NL
           THEN /\ Ends(data, n + 1) # {} /\ LineStart(data, n + 1) = n + 1
                /\ Cardinality(Ends(data, n + 1)) = Cardinality(Ends(data, n)) + 1
           ELSE Ends(data, n + 1) = Ends(data, n) /\ LineStart(data, n + 1) = LineStart(data, n)
<1>1. CASE data[n + 1] = NL
  <2> DEFINE E == Ends(data, n)
             F == Ends(data, n + 1)
  <2>1. F = E \cup {n + 1} /\ n + 1 \notin E
    BY <1>1 DEF Ends
  <2>2. E \subseteq 1 .. n /\ IsFiniteSet(E)
    BY EndsAreFinite
  <2> HIDE DEF E, F
  <2>3. Cardinality(F) = Cardinality(E) + 1
    BY <2>1, <2>2, FS_AddElement
  <2>4. n + 1 \in F /\ \A j \in F : j <= n + 1 /\ j \in Int
    BY <2>1, <2>2
  <2>5. \A k \in F : (\A j \in F : j <= k) => k = n + 1
    <3> SUFFICES ASSUME NEW k \in F, \A j \in F : j <= k PROVE k = n + 1
      OBVIOUS
    <3>1. k \in Int /\ n + 1 <= k /\ k <= n + 1
      BY <2>4
    <3> QED BY <3>1
  <2>6. (CHOOSE k \in F : \A j \in F : j <= k) = n + 1
    BY <2>4, <2>5
  <2>7. LineStart(data, n + 1) = n + 1
    BY <2>4, <2>6 DEF LineStart, Latest, F
  <2> QED BY <1>1, <2>3, <2>4, <2>7 DEF E, F
<1>2. CASE data[n + 1] # NL
  <2>1. Ends(data, n + 1) = Ends(data, n)
    BY <1>2 DEF Ends
  <2>2. LineStart(data, n + 1) = LineStart(data, n)
    BY <2>1 DEF LineStart
  <2> QED BY <1>2, <2>1, <2>2
<1> QED
  BY <1>1, <1>2

\* A byte order mark has no line end in it.
LEMMA SkippedHaveNoEnd ==
  ASSUME NEW data \in Seq(STRING), NEW e
  PROVE  /\ BomSkip(e, data) \in 0 .. Len(data)
         /\ Ends(data, BomSkip(e, data)) = {}
<1>1. ASSUME NEW S, NEW mark \in Seq(S), NEW b \in 0 .. Len(mark), IsPrefix(mark, data),
             \A k \in 1 .. b : mark[k] # NL
      PROVE  b \in 0 .. Len(data) /\ Ends(data, b) = {}
  <2>1. Len(mark) <= Len(data) /\ SubSeq(mark, 1, Len(mark)) = SubSeq(data, 1, Len(mark))
    BY <1>1 DEF IsPrefix
  <2>2. Len(data) \in Nat /\ Len(mark) \in Nat
    OBVIOUS
  <2>3. \A k \in 1 .. b : data[k] = mark[k]
    <3> TAKE k \in 1 .. b
    <3>1. k \in 1 .. Len(mark) /\ k \in 1 .. Len(data)
      BY <2>1, <2>2
    <3>2. SubSeq(mark, 1, Len(mark))[k] = mark[k] /\ SubSeq(data, 1, Len(mark))[k] = data[k]
      BY <2>1, <2>2, <3>1
    <3> QED BY <2>1, <3>2
  <2> QED BY <1>1, <2>1, <2>2, <2>3 DEF Ends
<1>2. ASSUME NEW x, NEW y, x # NL, IsPrefix(<<x, y>>, data)
      PROVE  1 \in 0 .. Len(data) /\ Ends(data, 1) = {}
  <2>1. <<x, y>> \in Seq({x, y})
    OBVIOUS
  <2>2. 1 \in 0 .. Len(<<x, y>>) /\ \A k \in 1 .. 1 : <<x, y>>[k] # NL
    BY <1>2
  <2> QED BY <1>1, <1>2, <2>1, <2>2
<1>3. ASSUME NEW x, NEW y, NEW z, x # NL, y # NL, z # NL, IsPrefix(<<x, y, z>>, data)
      PROVE  3 \in 0 .. Len(data) /\ Ends(data, 3) = {}
  <2>1. <<x, y, z>> \in Seq({x, y, z})
    OBVIOUS
  <2>2. 3 \in 0 .. Len(<<x, y, z>>) /\ \A k \in 1 .. 3 : <<x, y, z>>[k] # NL
    BY <1>3
  <2> QED BY <1>1, <1>3, <2>1, <2>2
<1>4. ASSUME NEW x, NEW y, NEW z, NEW w, x # NL, IsPrefix(<<x, y, z, w>>, data)
      PROVE  1 \in 0 .. Len(data) /\ Ends(data, 1) = {}
  <2>1. <<x, y, z, w>> \in Seq({x, y, z, w})
    OBVIOUS
  <2>2. 1 \in 0 .. Len(<<x, y, z, w>>) /\ \A k \in 1 .. 1 : <<x, y, z, w>>[k] # NL
    BY <1>4
  <2> QED BY <1>1, <1>4, <2>1, <2>2
<1>5. /\ "EF" # NL /\ "BB" # NL /\ "BF" # NL
      /\ "FE" # NL /\ "FF" # NL /\ "00" # NL
  BY DEF NL
<1> DEFINE b == BomSkip(e, data)
<1>6. \/ b = 0
      \/ b = 3 /\ IsPrefix(<<"EF", "BB", "BF">>, data)
      \/ b = 1 /\ IsPrefix(<<"FE", "FF">>, data)
      \/ b = 1 /\ IsPrefix(<<"FF", "FE">>, data)
      \/ b = 1 /\ IsPrefix(<<"00", "00", "FE", "FF">>, data)
  BY DEF BomSkip
<1> HIDE DEF b
<1>7. b = 0 => b \in 0 .. Len(data) /\ Ends(data, b) = {}
  BY DEF Ends
<1>8. b \in 0 .. Len(data) /\ Ends(data, b) = {}
  <2>1. IsPrefix(<<"EF", "BB", "BF">>, data) => 3 \in 0 .. Len(data) /\ Ends(data, 3) = {}
    BY <1>3, <1>5
  <2>2. IsPrefix(<<"FE", "FF">>, data) \/ IsPrefix(<<"FF", "FE">>, data)
          => 1 \in 0 .. Len(data) /\ Ends(data, 1) = {}
    BY <1>2, <1>5
  <2>3. IsPrefix(<<"00", "00", "FE", "FF">>, data) => 1 \in 0 .. Len(data) /\ Ends(data, 1) = {}
    BY <1>4, <1>5
  <2> QED BY <1>6, <1>7, <2>1, <2>2, <2>3
<1> QED
  BY <1>8 DEF b

\* What no operation but a mark changes.
Kept(s, r) == /\ r.data = s.data /\ r.markDepth = s.markDepth /\ r.markers = s.markers
              /\ r.lastMarker = s.lastMarker

\* A stream at another place.
Moved(s, m, l, c, w) ==
  [s EXCEPT !.nextChar = m, !.line = l, !.charPositionInLine = c, !.currentLine = w]

LEMMA MovedType ==
  ASSUME NEW s \in InputStream, NEW m \in Nat, NEW l \in Nat, NEW c \in Int, NEW w \in Nat
  PROVE  /\ Moved(s, m, l, c, w) \in InputStream /\ Kept(s, Moved(s, m, l, c, w))
         /\ Moved(s, m, l, c, w).nextChar = m /\ Moved(s, m, l, c, w).line = l
         /\ Moved(s, m, l, c, w).charPositionInLine = c /\ Moved(s, m, l, c, w).currentLine = w
<1> DEFINE r == Moved(s, m, l, c, w)
<1>1. r \in InputStream
  BY DEF Moved, InputStream
<1>2. r.nextChar = m /\ r.line = l /\ r.charPositionInLine = c /\ r.currentLine = w
  BY DEF Moved, InputStream
<1>3. r.data = s.data /\ r.markDepth = s.markDepth
  BY DEF Moved, InputStream
<1>4. r.markers = s.markers /\ r.lastMarker = s.lastMarker
  BY DEF Moved, InputStream
<1> HIDE DEF r
<1> QED
  BY <1>1, <1>2, <1>3, <1>4 DEF Kept, r

LEMMA ConsumedType ==
  ASSUME NEW s \in InputStream
  PROVE  consumed(s) \in InputStream
<1>1. /\ s.nextChar + 1 \in Nat /\ s.line + 1 \in Nat /\ s.charPositionInLine + 1 \in Int
  BY DEF InputStream
<1>2. [s EXCEPT !.nextChar = @ + 1, !.line = @ + 1, !.charPositionInLine = 0,
                !.currentLine = s.nextChar + 1] \in InputStream
  <2>1. Moved(s, s.nextChar + 1, s.line + 1, 0, s.nextChar + 1) \in InputStream
    BY <1>1, MovedType
  <2> QED BY <2>1 DEF Moved
<1>3. [s EXCEPT !.nextChar = @ + 1, !.charPositionInLine = @ + 1] \in InputStream
  BY <1>1 DEF InputStream
<1> QED
  BY <1>2, <1>3 DEF consumed

\* A character that is consumed is counted.
LEMMA ConsumedPlace ==
  ASSUME CharStreamAssumption, NEW s \in InputStream, OfText(s.data, s)
  PROVE  /\ consumed(s) \in InputStream /\ OfText(s.data, consumed(s)) /\ Kept(s, consumed(s))
         /\ consumed(s).nextChar = IF s.nextChar < Len(s.data) THEN s.nextChar + 1 ELSE s.nextChar
<1> DEFINE n == s.nextChar
           d == s.data
           c == consumed(s)
<1>1. /\ n \in Nat /\ d \in Seq(STRING) /\ Len(d) \in Nat /\ s.line \in Nat
      /\ s.charPositionInLine \in Int /\ s.currentLine \in Nat
  BY DEF CharStreamAssumption, InputStream
<1>2. CASE ~ (n < Len(d))
  BY <1>2 DEF consumed, Kept
<1>3. ASSUME n < Len(d), d[n + 1] = NL
      PROVE  c \in InputStream /\ OfText(d, c) /\ Kept(s, c) /\ c.nextChar = n + 1
  <2>1. c = Moved(s, n + 1, s.line + 1, 0, n + 1)
    BY <1>3 DEF consumed, Moved
  <2>2. c \in InputStream /\ Kept(s, c) /\ c.nextChar = n + 1 /\ c.line = s.line + 1
        /\ c.charPositionInLine = 0 /\ c.currentLine = n + 1
    BY <1>1, <2>1, MovedType
  <2> HIDE DEF c, n, d
  <2>3. /\ Ends(d, n + 1) # {} /\ LineStart(d, n + 1) = n + 1
        /\ Cardinality(Ends(d, n + 1)) = Cardinality(Ends(d, n)) + 1
    BY <1>1, <1>3, NextEnd
  <2>4. s.line = 1 + Cardinality(Ends(d, n)) /\ Cardinality(Ends(d, n)) \in Nat
    BY <1>1, EndsAreFinite DEF OfText, n, d
  <2>5. n + 1 <= Len(d) /\ c.line = 1 + Cardinality(Ends(d, n + 1)) /\ 0 = n + 1 - (n + 1)
    BY <1>1, <1>3, <2>2, <2>3, <2>4
  <2>6. c.nextChar <= Len(d) /\ c.line = 1 + Cardinality(Ends(d, c.nextChar))
        /\ c.currentLine = LineStart(d, c.nextChar) /\ Ends(d, c.nextChar) # {}
        /\ c.charPositionInLine = c.nextChar - LineStart(d, c.nextChar)
    BY <1>1, <2>2, <2>3, <2>5
  <2>7. OfText(d, c)
    BY <2>6 DEF OfText
  <2> QED BY <2>2, <2>7
<1>4. ASSUME n < Len(d), d[n + 1] # NL
      PROVE  c \in InputStream /\ OfText(d, c) /\ Kept(s, c) /\ c.nextChar = n + 1
  <2>1. c = Moved(s, n + 1, s.line, s.charPositionInLine + 1, s.currentLine)
    BY <1>1, <1>4 DEF consumed, Moved, InputStream
  <2>2. c \in InputStream /\ Kept(s, c) /\ c.nextChar = n + 1 /\ c.line = s.line
        /\ c.charPositionInLine = s.charPositionInLine + 1 /\ c.currentLine = s.currentLine
    BY <1>1, <2>1, MovedType
  <2>3. Ends(d, n + 1) = Ends(d, n) /\ LineStart(d, n + 1) = LineStart(d, n)
    BY <1>1, <1>4, NextEnd
  <2>4. /\ s.line = 1 + Cardinality(Ends(d, n)) /\ s.currentLine = LineStart(d, n)
        /\ IF Ends(d, n) = {} THEN \E b \in Skipped(d) : s.charPositionInLine = n - b - 1
                              ELSE s.charPositionInLine = n - LineStart(d, n)
    BY DEF OfText
  <2>5. n + 1 <= Len(d)
    BY <1>1, <1>4
  <2>6. Skipped(d) \subseteq Int /\ LineStart(d, n) \in Int
    <3>1. \A e : BomSkip(e, d) \in Int
      BY <1>1, SkippedHaveNoEnd
    <3> QED BY <1>1, <3>1, EndsAreFinite DEF Skipped
  <2> HIDE DEF c, n, d
  <2>7. IF Ends(d, n) = {} THEN \E b \in Skipped(d) : c.charPositionInLine = n + 1 - b - 1
                           ELSE c.charPositionInLine = n + 1 - LineStart(d, n)
    <3>1. \A b \in Skipped(d) : s.charPositionInLine = n - b - 1 => c.charPositionInLine = n + 1 - b - 1
      BY <1>1, <2>2, <2>6
    <3>2. s.charPositionInLine = n - LineStart(d, n) => c.charPositionInLine = n + 1 - LineStart(d, n)
      BY <1>1, <2>2, <2>6
    <3> QED BY <2>4, <3>1, <3>2
  <2>8. c.nextChar <= Len(d) /\ c.line = 1 + Cardinality(Ends(d, c.nextChar))
        /\ c.currentLine = LineStart(d, c.nextChar)
    BY <1>1, <2>2, <2>3, <2>4, <2>5
  <2>9. IF Ends(d, c.nextChar) = {} THEN \E b \in Skipped(d) : c.charPositionInLine = c.nextChar - b - 1
                                    ELSE c.charPositionInLine = c.nextChar - LineStart(d, c.nextChar)
    <3>1. Ends(d, c.nextChar) = Ends(d, n) /\ LineStart(d, c.nextChar) = LineStart(d, n)
      BY <2>2, <2>3
    <3>2. c.nextChar = n + 1
      BY <2>2
    <3>3. IF Ends(d, n) = {} THEN \E b \in Skipped(d) : c.charPositionInLine = c.nextChar - b - 1
                             ELSE c.charPositionInLine = c.nextChar - LineStart(d, n)
      BY <1>1, <2>6, <2>7, <3>2
    <3> QED BY <3>1, <3>3
  <2>10. OfText(d, c)
    BY <2>8, <2>9 DEF OfText
  <2> QED BY <2>2, <2>10
<1> QED
  BY <1>2, <1>3, <1>4
----------------------------------------------------------------------------
(***************************************************************************)
(* The operations of one stream.                                           *)
(***************************************************************************)
\* What the invariant says of a stream.
Sound(s) ==
  /\ s \in InputStream /\ OfText(s.data, s) /\ s.markDepth <= Len(s.markers)
  /\ \A k \in 1 .. s.markDepth : OfText(s.data, s.markers[k])

\* The places of its marks: what Cursor knows of them.
Places(s) == [k \in 1 .. s.markDepth |-> s.markers[k].nextChar]

\* A stream that is opened, and one that is given another line, start at the start.
LEMMA StartOfText ==
  ASSUME CharStreamAssumption, NEW data \in Texts, NEW b \in Skipped(data), NEW at,
         at.nextChar = b, at.line = 1, at.charPositionInLine = -1, at.currentLine = 0
  PROVE  b \in Nat /\ OfText(data, at)
<1>1. b \in 0 .. Len(data) /\ Ends(data, b) = {} /\ Len(data) \in Nat
  <2>1. data \in Seq(STRING) /\ Len(data) \in Nat
    BY DEF CharStreamAssumption
  <2>2. 0 \in 0 .. Len(data) /\ Ends(data, 0) = {}
    BY <2>1 DEF Ends
  <2>3. \A e : BomSkip(e, data) \in 0 .. Len(data) /\ Ends(data, BomSkip(e, data)) = {}
    BY <2>1, SkippedHaveNoEnd
  <2> QED BY <2>1, <2>2, <2>3 DEF Skipped
<1>2. LineStart(data, b) = 0
  BY <1>1 DEF LineStart, Latest
<1>3. 1 = 1 + Cardinality(Ends(data, b))
  BY <1>1, FS_EmptySet
<1>4. -1 = b - b - 1 /\ b <= Len(data)
  BY <1>1
<1> QED
  BY <1>1, <1>2, <1>3, <1>4 DEF OfText

LEMMA ConstructedIsSound ==
  ASSUME CharStreamAssumption, NEW data \in Texts, NEW e \in Encodings
  PROVE  /\ Sound(Constructed(data, e)) /\ Constructed(data, e).data = data
         /\ Constructed(data, e).markDepth = 0
<1> DEFINE b == BomSkip(e, data)
           r == [data |-> data, nextChar |-> b, line |-> 1, charPositionInLine |-> -1, currentLine |-> 0,
                 markDepth |-> 0, markers |-> <<>>, lastMarker |-> 0]
<1>1. b \in Skipped(data)
  BY DEF Skipped
<1>2. b \in Nat /\ OfText(data, r)
  <2> HIDE DEF b
  <2>1. r.nextChar = b /\ r.line = 1 /\ r.charPositionInLine = -1 /\ r.currentLine = 0
    OBVIOUS
  <2> HIDE DEF r
  <2> QED BY <1>1, <2>1, StartOfText
<1>3. Constructed(data, e) = r
  <2>1. 0 + b = b
    BY <1>2
  <2> DEFINE q == [data |-> data, nextChar |-> 0, line |-> 1, charPositionInLine |-> -1, currentLine |-> 0,
                   markDepth |-> 0, markers |-> <<>>, lastMarker |-> 0]
  <2>2. reset(q) = q
    <3>1. [q EXCEPT !.nextChar = 0] = q /\ [q EXCEPT !.line = 1] = q
      OBVIOUS
    <3>2. [q EXCEPT !.charPositionInLine = -1] = q /\ [q EXCEPT !.currentLine = 0] = q
      OBVIOUS
    <3>3. [q EXCEPT !.markDepth = 0] = q /\ [q EXCEPT !.markers = <<>>] = q
      OBVIOUS
    <3>4. [[[[[[q EXCEPT !.nextChar = 0] EXCEPT !.line = 1] EXCEPT !.charPositionInLine = -1]
             EXCEPT !.currentLine = 0] EXCEPT !.markDepth = 0] EXCEPT !.markers = <<>>] = q
      <4> HIDE DEF q
      <4> QED BY <3>1, <3>2, <3>3
    <3> HIDE DEF q
    <3> QED BY <3>4 DEF reset
  <2>3. [q EXCEPT !.nextChar = @ + BomSkip(e, q.data)] = [r EXCEPT !.nextChar = 0 + b]
    OBVIOUS
  <2>4. [r EXCEPT !.nextChar = 0 + b] = r
    BY <2>1
  <2> QED BY <2>2, <2>3, <2>4 DEF Constructed, setupInputStream
<1> HIDE DEF b
<1>4. r \in InputStream
  <2>1. <<>> \in Seq(LexState)
    OBVIOUS
  <2> QED BY <1>2, <2>1 DEF InputStream
<1>5. r.data = data /\ r.markDepth = 0 /\ r.markers = <<>>
  OBVIOUS
<1> HIDE DEF r
<1>6. Sound(r)
  BY <1>2, <1>4, <1>5 DEF Sound
<1> QED
  BY <1>3, <1>5, <1>6

LEMMA ReusedIsSound ==
  ASSUME CharStreamAssumption, NEW s \in InputStream, NEW data \in Texts
  PROVE  LET r == reset([s EXCEPT !.data = data])
         IN  Sound(r) /\ r.data = data /\ r.markDepth = 0
<1> DEFINE r == reset([s EXCEPT !.data = data])
<1>1. r \in InputStream
  <2>1. <<>> \in Seq(LexState)
    OBVIOUS
  <2>2. [s EXCEPT !.data = data] \in InputStream
    BY DEF InputStream
  <2> DEFINE m == <<>>
             x == Moved([s EXCEPT !.data = data], 0, 1, -1, 0)
  <2>3. r = [x EXCEPT !.markDepth = 0, !.markers = m]
    BY DEF reset, Moved
  <2>4. x \in InputStream
    <3>1. 0 \in Nat /\ 1 \in Nat /\ -1 \in Int
      OBVIOUS
    <3> QED BY <2>2, <3>1, MovedType
  <2> HIDE DEF x, m, r
  <2>5. [x EXCEPT !.markDepth = 0, !.markers = m] \in InputStream
    BY <2>1, <2>4 DEF InputStream, m
  <2> QED BY <2>3, <2>5
<1>2. r.nextChar = 0 /\ r.line = 1 /\ r.charPositionInLine = -1 /\ r.currentLine = 0
  BY DEF reset, InputStream
<1>3. r.data = data /\ r.markDepth = 0 /\ r.markers = <<>>
  BY DEF reset, InputStream
<1> HIDE DEF r
<1>4. 0 \in Skipped(data)
  BY DEF Skipped
<1>5. OfText(data, r)
  BY <1>2, <1>4, StartOfText
<1>6. Sound(r)
  BY <1>1, <1>3, <1>5 DEF Sound
<1> QED
  BY <1>3, <1>6 DEF r

\* Whatever keeps the marks and is in the right place is sound.
LEMMA KeptIsSound ==
  ASSUME NEW s, Sound(s), NEW r \in InputStream, Kept(s, r), OfText(s.data, r)
  PROVE  Sound(r) /\ Places(r) = Places(s)
BY DEF Sound, Kept, Places

LEMMA ConsumedIsSound ==
  ASSUME CharStreamAssumption, NEW s, Sound(s)
  PROVE  /\ Sound(consumed(s)) /\ Kept(s, consumed(s)) /\ Places(consumed(s)) = Places(s)
         /\ consumed(s).nextChar \in s.nextChar .. Len(s.data)
<1>1. s \in InputStream /\ OfText(s.data, s)
  BY DEF Sound
<1>2. /\ consumed(s) \in InputStream /\ OfText(s.data, consumed(s)) /\ Kept(s, consumed(s))
      /\ consumed(s).nextChar = IF s.nextChar < Len(s.data) THEN s.nextChar + 1 ELSE s.nextChar
  BY <1>1, ConsumedPlace
<1>3. s.nextChar \in Nat /\ Len(s.data) \in Nat /\ s.nextChar <= Len(s.data)
  BY <1>1 DEF CharStreamAssumption, InputStream, OfText
<1>4. consumed(s).nextChar \in s.nextChar .. Len(s.data)
  BY <1>2, <1>3
<1> QED
  BY <1>2, <1>4, KeptIsSound

\* Forwards, a seek consumes as many characters as it is told to.
LEMMA SeekIsSound ==
  ASSUME CharStreamAssumption, NEW s, Sound(s), NEW point \in s.nextChar .. Len(s.data)
  PROVE  /\ Sound(seek(s, point)) /\ Kept(s, seek(s, point)) /\ Places(seek(s, point)) = Places(s)
         /\ seek(s, point).nextChar = point
<1>1. s \in InputStream /\ s.nextChar \in Nat /\ Len(s.data) \in Nat
  BY DEF Sound, CharStreamAssumption, InputStream
<1> DEFINE n == point - s.nextChar
           next == [k \in 1 .. n |-> [x \in InputStream |-> consumed(x)]]
           after == CHOOSE f : f = [k \in 0 .. n |-> IF k = 0 THEN s ELSE consumed(f[k - 1])]
           Right(r, k) == Sound(r) /\ Kept(s, r) /\ r.nextChar = s.nextChar + k
           Good == {k \in 0 .. n : Right(after[k], k)}
<1>2. n \in Nat
  BY <1>1
<1>3. seek(s, point) = IF point <= s.nextChar THEN [s EXCEPT !.nextChar = point] ELSE after[n]
  BY DEF seek
<1>4. Right(s, 0)
  BY <1>1 DEF Kept
<1>5. ASSUME NEW r, NEW k \in 1 .. n, Right(r, k - 1) PROVE Right(consumed(r), k)
  <2>1. /\ Sound(consumed(r)) /\ Kept(r, consumed(r))
    BY <1>5, ConsumedIsSound
  <2>2. r \in InputStream /\ OfText(r.data, r) /\ r.data = s.data /\ r.nextChar = s.nextChar + (k - 1)
    BY <1>5 DEF Sound, Kept
  <2>3. consumed(r).nextChar = IF r.nextChar < Len(r.data) THEN r.nextChar + 1 ELSE r.nextChar
    BY <2>2, ConsumedPlace
  <2>4. r.nextChar < Len(r.data) /\ r.nextChar + 1 = s.nextChar + k
    BY <1>1, <2>2
  <2>5. Kept(s, consumed(r))
    BY <1>5, <2>1 DEF Kept
  <2> QED BY <2>1, <2>3, <2>4, <2>5
<1>6. next \in [1 .. n -> [InputStream -> InputStream]]
  BY ConsumedType
<1>7. \E f : f = [k \in 0 .. n |-> IF k = 0 THEN s ELSE consumed(f[k - 1])]
  <2> HIDE DEF next, n
  <2>1. PICK f : Recursive(f, n, InputStream, s, next)
    BY <1>1, <1>2, <1>6, Recursion
  <2>2. \A k \in 0 .. n : k # 0 => k \in 1 .. n /\ k - 1 \in 0 .. n
    BY <1>2
  <2>3. \A k \in 1 .. n : f[k] = consumed(f[k - 1])
    <3> TAKE k \in 1 .. n
    <3>1. f[k - 1] \in InputStream /\ k \in 1 .. n
      BY <1>2, <2>1 DEF Recursive
    <3> QED BY <2>1, <3>1 DEF next, Recursive
  <2> QED BY <2>1, <2>2, <2>3 DEF Recursive
<1>8. after = [k \in 0 .. n |-> IF k = 0 THEN s ELSE consumed(after[k - 1])]
  BY <1>7
<1> HIDE DEF next, n, Right, after
<1>9. \A k \in 0 .. n : Right(after[k], k)
  <2>1. 0 \in Good
    BY <1>2, <1>4, <1>8
  <2>2. ASSUME NEW k \in 1 .. n, k - 1 \in Good PROVE k \in Good
    <3>1. k - 1 \in 0 .. n /\ k \in 0 .. n /\ k # 0
      BY <1>2
    <3>2. Right(after[k - 1], k - 1)
      BY <2>2
    <3>3. after[k] = consumed(after[k - 1])
      BY <1>8, <3>1
    <3> QED BY <1>5, <3>1, <3>2, <3>3
  <2>3. Good \in SUBSET (0 .. n)
    OBVIOUS
  <2>4. Good = 0 .. n
    <3> HIDE DEF Good
    <3> QED BY <1>2, <2>1, <2>2, <2>3, StepByStep
  <2> QED BY <2>4
<1>10. Right(seek(s, point), n)
  <2>1. CASE point <= s.nextChar
    <3>1. point = s.nextChar /\ n = 0
      BY <1>1, <2>1 DEF n
    <3>2. seek(s, point) = s
      BY <1>1, <1>3, <2>1, <3>1 DEF InputStream
    <3> QED BY <1>4, <3>1, <3>2
  <2>2. CASE ~ (point <= s.nextChar)
    BY <1>2, <1>3, <1>9, <2>2
  <2> QED BY <2>1, <2>2
<1>11. s.nextChar + n = point
  BY <1>1 DEF n
<1>12. seek(s, point) \in InputStream /\ OfText(s.data, seek(s, point))
  BY <1>10 DEF Right, Sound, Kept
<1> QED
  BY <1>10, <1>11, <1>12, KeptIsSound DEF Right

LEMMA PlacesAreASequence ==
  ASSUME NEW s, Sound(s)
  PROVE  /\ Places(s) \in Seq(Nat) /\ Len(Places(s)) = s.markDepth /\ DOMAIN Places(s) = 1 .. s.markDepth
         /\ \A k \in 1 .. s.markDepth : Places(s)[k] = s.markers[k].nextChar /\ s.markers[k] \in LexState
<1>1. s.markDepth \in Nat /\ s.markers \in Seq(LexState) /\ s.markDepth <= Len(s.markers)
  BY DEF Sound, InputStream
<1>2. \A k \in 1 .. s.markDepth : s.markers[k] \in LexState /\ s.markers[k].nextChar \in Nat
  <2>1. \A k \in 1 .. s.markDepth : s.markers[k] \in LexState
    BY <1>1
  <2> QED BY <2>1 DEF LexState
<1> QED
  BY <1>1, <1>2 DEF Places

\* A mark is added to those before it, whichever slot it takes.
LEMMA MarkedIsSound ==
  ASSUME NEW s, Sound(s)
  PROVE  /\ Sound(marked(s)) /\ marked(s).data = s.data /\ marked(s).nextChar = s.nextChar
         /\ marked(s).markDepth = s.markDepth + 1 /\ marked(s).lastMarker = s.markDepth + 1
         /\ Places(marked(s)) = Append(Places(s), s.nextChar)
<1> DEFINE depth == s.markDepth + 1
           m == IF depth > Len(s.markers) THEN Append(s.markers, Saved(s))
                                          ELSE [s.markers EXCEPT ![depth] = Saved(s)]
           r == marked(s)
<1>1. /\ s \in InputStream /\ s.markDepth \in Nat /\ s.nextChar \in Nat
      /\ s.markers \in Seq(LexState) /\ Len(s.markers) \in Nat /\ s.markDepth <= Len(s.markers)
  BY DEF Sound, InputStream
<1>2. Saved(s) \in LexState /\ Saved(s).nextChar = s.nextChar /\ OfText(s.data, Saved(s))
  <2>1. Saved(s) \in LexState /\ Saved(s).nextChar = s.nextChar
    BY <1>1 DEF Saved, InputStream, LexState
  <2>2. OfText(s.data, Saved(s))
    BY DEF Sound, OfText, Saved
  <2> QED BY <2>1, <2>2
<1>3. /\ m \in Seq(LexState) /\ depth <= Len(m) /\ m[depth] = Saved(s)
      /\ \A k \in 1 .. s.markDepth : m[k] = s.markers[k]
  <2>1. CASE depth > Len(s.markers)
    <3>1. m = Append(s.markers, Saved(s)) /\ Len(s.markers) = s.markDepth
      BY <1>1, <2>1
    <3> QED BY <1>1, <1>2, <3>1
  <2>2. CASE ~ (depth > Len(s.markers))
    <3>1. m = [s.markers EXCEPT ![depth] = Saved(s)] /\ depth \in 1 .. Len(s.markers)
      BY <1>1, <2>2
    <3> HIDE DEF m
    <3>2. m \in Seq(LexState) /\ Len(m) = Len(s.markers)
      BY <1>1, <1>2, <3>1, ExceptSeq
    <3>3. \A k \in 1 .. Len(s.markers) : m[k] = IF k = depth THEN Saved(s) ELSE s.markers[k]
      BY <1>1, <3>1
    <3> QED BY <1>1, <3>1, <3>2, <3>3
  <2> QED BY <2>1, <2>2
<1>4. r = [s EXCEPT !.markDepth = depth, !.markers = m, !.lastMarker = depth]
  BY DEF marked
<1> HIDE DEF m, r
<1>5. r \in InputStream
  <2>1. m \in Seq(LexState) /\ depth \in Nat
    BY <1>1, <1>3
  <2> HIDE DEF depth
  <2> QED BY <1>1, <1>4, <2>1 DEF InputStream
<1>6. r.markDepth = depth /\ r.markers = m /\ r.lastMarker = depth
  BY <1>1, <1>4 DEF InputStream
<1>7. r.data = s.data /\ r.nextChar = s.nextChar
  BY <1>1, <1>4 DEF InputStream
<1>8. r.line = s.line /\ r.charPositionInLine = s.charPositionInLine /\ r.currentLine = s.currentLine
  BY <1>1, <1>4 DEF InputStream
<1>9. OfText(r.data, r)
  BY <1>7, <1>8 DEF Sound, OfText
<1>10. \A k \in 1 .. r.markDepth : OfText(r.data, r.markers[k])
  <2> TAKE k \in 1 .. r.markDepth
  <2>1. k = depth \/ k \in 1 .. s.markDepth
    BY <1>1, <1>6
  <2> QED BY <1>2, <1>3, <1>6, <1>7, <2>1 DEF Sound
<1>11. Sound(r)
  BY <1>3, <1>5, <1>6, <1>9, <1>10 DEF Sound
<1>12. Places(r) = Append(Places(s), s.nextChar)
  <2> DEFINE q == Append(Places(s), s.nextChar)
  <2>1. /\ Places(r) \in Seq(Nat) /\ Len(Places(r)) = depth
        /\ \A k \in 1 .. depth : Places(r)[k] = m[k].nextChar
    BY <1>6, <1>11, PlacesAreASequence
  <2>2. /\ Places(s) \in Seq(Nat) /\ Len(Places(s)) = s.markDepth
        /\ \A k \in 1 .. s.markDepth : Places(s)[k] = s.markers[k].nextChar
    BY PlacesAreASequence
  <2>3. q \in Seq(Nat) /\ Len(q) = depth /\ q[depth] = s.nextChar
        /\ \A k \in 1 .. s.markDepth : q[k] = Places(s)[k]
    BY <1>1, <2>2
  <2> HIDE DEF q
  <2>4. \A k \in 1 .. depth : Places(r)[k] = q[k]
    <3> TAKE k \in 1 .. depth
    <3>1. k = depth \/ k \in 1 .. s.markDepth
      BY <1>1
    <3> QED BY <1>2, <1>3, <2>1, <2>2, <2>3, <3>1
  <2>5. Places(r) = q
    BY <2>1, <2>3, <2>4, SeqEqual
  <2> QED BY <2>5 DEF q
<1> QED
  BY <1>6, <1>7, <1>11, <1>12 DEF r

\* A return forgets the mark and the later ones, and stands where it stood.
LEMMA RewoundIsSound ==
  ASSUME CharStreamAssumption, NEW s, Sound(s), NEW mark \in 1 .. s.markDepth
  PROVE  /\ Sound(rewound(s, mark)) /\ rewound(s, mark).data = s.data
         /\ rewound(s, mark).nextChar = Places(s)[mark] /\ rewound(s, mark).markDepth = mark - 1
         /\ rewound(s, mark).lastMarker = s.lastMarker
         /\ Places(rewound(s, mark)) = SubSeq(Places(s), 1, mark - 1)
<1> DEFINE state == s.markers[mark]
           q == released(s, mark)
           k == seek(q, state.nextChar)
           r == rewound(s, mark)
<1>1. /\ s \in InputStream /\ s.markDepth \in Nat /\ s.nextChar \in Nat /\ Len(s.data) \in Nat
      /\ s.markers \in Seq(LexState) /\ Len(s.markers) \in Nat /\ s.markDepth <= Len(s.markers)
  BY DEF Sound, InputStream, CharStreamAssumption
<1>2. /\ state.nextChar \in Nat /\ state.line \in Nat /\ state.charPositionInLine \in Int
      /\ state.currentLine \in Nat
  <2>1. state \in LexState
    BY PlacesAreASequence
  <2> QED BY <2>1 DEF LexState
<1>3. OfText(s.data, state) /\ state.nextChar <= Len(s.data)
  BY DEF Sound, OfText
<1>4. q \in InputStream
  BY <1>1 DEF released, InputStream
<1>5. q.markDepth = mark - 1 /\ q.markers = s.markers /\ q.lastMarker = s.lastMarker
  BY <1>1 DEF released, InputStream
<1>6. q.data = s.data /\ q.nextChar = s.nextChar
  BY <1>1 DEF released, InputStream
<1>7. q.line = s.line /\ q.charPositionInLine = s.charPositionInLine /\ q.currentLine = s.currentLine
  BY <1>1 DEF released, InputStream
<1> HIDE DEF q, state
<1>8. Sound(q)
  <2>1. OfText(q.data, q)
    BY <1>6, <1>7 DEF Sound, OfText
  <2>2. q.markDepth <= Len(q.markers) /\ \A j \in 1 .. q.markDepth : j \in 1 .. s.markDepth
    BY <1>1, <1>5
  <2> QED BY <1>4, <1>5, <1>6, <2>1, <2>2 DEF Sound
<1>9. k \in InputStream /\ Kept(q, k)
  <2>1. CASE state.nextChar <= q.nextChar
    <3>1. k = [q EXCEPT !.nextChar = state.nextChar]
      BY <2>1 DEF seek
    <3> HIDE DEF k
    <3>2. k \in InputStream
      BY <1>2, <1>4, <3>1 DEF InputStream
    <3>3. k.data = q.data /\ k.markDepth = q.markDepth
      BY <1>4, <3>1 DEF InputStream
    <3>4. k.markers = q.markers /\ k.lastMarker = q.lastMarker
      BY <1>4, <3>1 DEF InputStream
    <3> QED BY <3>2, <3>3, <3>4 DEF Kept
  <2>2. CASE ~ (state.nextChar <= q.nextChar)
    <3>1. state.nextChar \in q.nextChar .. Len(q.data)
      BY <1>1, <1>2, <1>3, <1>6, <2>2
    <3> QED BY <1>8, <3>1, SeekIsSound DEF Sound
  <2> QED BY <2>1, <2>2
<1>10. r = [k EXCEPT !.line = state.line, !.charPositionInLine = state.charPositionInLine,
                     !.currentLine = state.currentLine, !.nextChar = state.nextChar]
  BY DEF rewound, q, state
<1> HIDE DEF k, r
<1>11. r \in InputStream
  BY <1>2, <1>9, <1>10 DEF InputStream
<1>12. r.nextChar = state.nextChar /\ r.line = state.line
  BY <1>9, <1>10 DEF InputStream
<1>13. r.charPositionInLine = state.charPositionInLine /\ r.currentLine = state.currentLine
  BY <1>9, <1>10 DEF InputStream
<1>14. r.data = k.data /\ r.markDepth = k.markDepth
  BY <1>9, <1>10 DEF InputStream
<1>15. r.markers = k.markers /\ r.lastMarker = k.lastMarker
  BY <1>9, <1>10 DEF InputStream
<1>16. /\ r.data = s.data /\ r.markDepth = mark - 1 /\ r.markers = s.markers
       /\ r.lastMarker = s.lastMarker
  BY <1>5, <1>6, <1>9, <1>14, <1>15 DEF Kept
<1>17. Sound(r)
  <2>1. OfText(r.data, r)
    BY <1>3, <1>12, <1>13, <1>16 DEF OfText
  <2>2. r.markDepth <= Len(r.markers) /\ \A j \in 1 .. r.markDepth : j \in 1 .. s.markDepth
    BY <1>1, <1>16
  <2> QED BY <1>11, <1>16, <2>1, <2>2 DEF Sound
<1>18. r.nextChar = Places(s)[mark]
  BY <1>12, PlacesAreASequence DEF state
<1>19. Places(r) = SubSeq(Places(s), 1, mark - 1)
  <2> DEFINE u == SubSeq(Places(s), 1, mark - 1)
  <2>1. /\ Places(r) \in Seq(Nat) /\ Len(Places(r)) = mark - 1
        /\ \A j \in 1 .. mark - 1 : Places(r)[j] = s.markers[j].nextChar
    BY <1>16, <1>17, PlacesAreASequence
  <2>2. /\ Places(s) \in Seq(Nat) /\ Len(Places(s)) = s.markDepth
        /\ \A j \in 1 .. s.markDepth : Places(s)[j] = s.markers[j].nextChar
    BY PlacesAreASequence
  <2>3. u \in Seq(Nat) /\ Len(u) = mark - 1 /\ \A j \in 1 .. mark - 1 : u[j] = Places(s)[j]
    BY <1>1, <2>2
  <2> HIDE DEF u
  <2>4. \A j \in 1 .. mark - 1 : Places(r)[j] = u[j]
    <3>1. \A j \in 1 .. mark - 1 : j \in 1 .. s.markDepth
      BY <1>1
    <3> QED BY <2>1, <2>2, <2>3, <3>1
  <2>5. Places(r) = u
    BY <2>1, <2>3, <2>4, SeqEqual
  <2> QED BY <2>5 DEF u
<1> QED
  BY <1>16, <1>17, <1>18, <1>19 DEF r
----------------------------------------------------------------------------
(***************************************************************************)
(* The steps.                                                              *)
(***************************************************************************)
Text == [s \in Streams |-> inputs[s].data]
Pos == [s \in Streams |-> inputs[s].nextChar]
Marks == [s \in Streams |-> Places(inputs[s])]
Included == Append(streams, input)

LEMMA InvariantIsSound ==
  ASSUME CharInvariant
  PROVE  /\ inputs \in [Streams -> InputStream] /\ \A s \in Streams : Sound(inputs[s])
         /\ input \in Streams /\ streams \in Seq(Streams)
BY DEF CharInvariant, LinesFollowCursor, PlacesMarked, Nested, Sound

\* The stream that is read is the last that was included.
LEMMA Current ==
  ASSUME CharInvariant
  PROVE  /\ Included \in Seq(Streams) /\ Len(Included) = Len(streams) + 1
         /\ Last(Included) = input /\ Front(Included) = streams
<1>1. input \in Streams /\ streams \in Seq(Streams)
  BY InvariantIsSound
<1>2. /\ Included \in Seq(Streams) /\ Len(Included) = Len(streams) + 1
      /\ Included[Len(streams) + 1] = input /\ \A k \in 1 .. Len(streams) : Included[k] = streams[k]
  BY <1>1 DEF Included
<1> DEFINE f == SubSeq(Included, 1, Len(streams))
<1>3. f \in Seq(Streams) /\ Len(f) = Len(streams) /\ \A k \in 1 .. Len(streams) : f[k] = streams[k]
  <2> HIDE DEF Included
  <2> QED BY <1>1, <1>2
<1> HIDE DEF f
<1>4. f = streams
  BY <1>1, <1>3, SeqEqual
<1>5. Len(Included) - 1 = Len(streams)
  BY <1>1, <1>2
<1> QED
  BY <1>2, <1>4, <1>5 DEF Last, Front, f

\* A step of the stream that is read.
LEMMA OneStream ==
  ASSUME CharInvariant, NEW r, Sound(r), inputs' = [inputs EXCEPT ![input] = r],
         UNCHANGED <<input, streams>>
  PROVE  /\ CharInvariant' /\ Included' = Included
         /\ Pos' = [Pos EXCEPT ![input] = r.nextChar]
         /\ Text' = [Text EXCEPT ![input] = r.data]
         /\ Marks' = [Marks EXCEPT ![input] = Places(r)]
<1>1. /\ inputs \in [Streams -> InputStream] /\ \A s \in Streams : Sound(inputs[s])
      /\ input \in Streams /\ streams \in Seq(Streams) /\ r \in InputStream
  BY InvariantIsSound DEF Sound
<1>2. /\ inputs' \in [Streams -> InputStream] /\ inputs'[input] = r
      /\ \A s \in Streams : s # input => inputs'[s] = inputs[s]
  BY <1>1
<1>3. LinesFollowCursor' /\ PlacesMarked'
  BY <1>1, <1>2 DEF LinesFollowCursor, PlacesMarked, Sound
<1>4. Nested'
  <2>1. \A k \in 1 .. Len(streams) : streams[k] \in Streams /\ streams[k] # input
    BY <1>1 DEF CharInvariant, Nested
  <2> QED BY <1>1, <1>2, <2>1 DEF CharInvariant, Nested
<1>5. Pos' = [Pos EXCEPT ![input] = r.nextChar]
  BY <1>1, <1>2 DEF Pos
<1>6. Text' = [Text EXCEPT ![input] = r.data]
  BY <1>1, <1>2 DEF Text
<1>7. Marks' = [Marks EXCEPT ![input] = Places(r)]
  <2>1. \A s \in Streams : Marks'[s] = IF s = input THEN Places(r) ELSE Marks[s]
    BY <1>2 DEF Marks
  <2> QED BY <2>1 DEF Marks
<1> QED
  BY <1>3, <1>4, <1>5, <1>6, <1>7 DEF CharInvariant, Included

LEMMA NoPlaces ==
  ASSUME NEW s, Sound(s), s.markDepth = 0
  PROVE  Places(s) = <<>>
<1>1. Places(s) \in Seq(Nat) /\ Len(Places(s)) = 0
  BY PlacesAreASequence
<1> QED
  BY <1>1, EmptySeq

LEMMA ReuseStep ==
  ASSUME CharStreamAssumption, CharInvariant, NEW data \in Texts, Reuse(data)
  PROVE  CharInvariant' /\ C!Restart
<1> DEFINE r == reset([inputs[input] EXCEPT !.data = data])
<1>1. inputs[input] \in InputStream /\ input \in Streams
  BY InvariantIsSound DEF Sound
<1>2. Sound(r) /\ r.data = data /\ r.markDepth = 0
  BY <1>1, ReusedIsSound
<1>3. inputs' = [inputs EXCEPT ![input] = r] /\ streams = <<>> /\ UNCHANGED <<input, streams>>
  BY DEF Reuse
<1> HIDE DEF r
<1>4. /\ CharInvariant' /\ Included' = Included
      /\ Pos' = [Pos EXCEPT ![input] = r.nextChar]
      /\ Text' = [Text EXCEPT ![input] = r.data]
      /\ Marks' = [Marks EXCEPT ![input] = <<>>]
  BY <1>2, <1>3, OneStream, NoPlaces
<1>5. Included = <<input>>
  BY <1>3 DEF Included
<1>6. Pos'[input] = r.nextChar /\ Text'[input] = r.data
  BY <1>1, <1>4 DEF Pos, Text
<1>7. r.nextChar <= Len(r.data)
  BY <1>2 DEF Sound, OfText
<1>8. \E s \in Streams :
        /\ Included = <<s>> /\ Pos'[s] <= Len(Text'[s])
        /\ Text' = [Text EXCEPT ![s] = Text'[s]] /\ Pos' = [Pos EXCEPT ![s] = Pos'[s]]
        /\ Marks' = [Marks EXCEPT ![s] = <<>>] /\ UNCHANGED Included
  BY <1>1, <1>4, <1>5, <1>6, <1>7
<1>9. C!Restart
  BY <1>8 DEF C!Restart, Pos, Text, Marks, Places, Included
<1> QED
  BY <1>4, <1>9

\* A step forwards.
LEMMA AdvanceStep ==
  ASSUME CharStreamAssumption, CharInvariant, NEW r, Sound(r), Kept(inputs[input], r),
         Places(r) = Places(inputs[input]),
         r.nextChar \in inputs[input].nextChar .. Len(inputs[input].data),
         inputs' = [inputs EXCEPT ![input] = r], UNCHANGED <<input, streams>>
  PROVE  CharInvariant' /\ C!Advance
<1>1. input \in Streams
  BY InvariantIsSound
<1>2. /\ CharInvariant' /\ Included' = Included
      /\ Pos' = [Pos EXCEPT ![input] = r.nextChar]
      /\ Text' = [Text EXCEPT ![input] = r.data]
      /\ Marks' = [Marks EXCEPT ![input] = Places(r)]
  BY OneStream
<1>3. Text' = Text /\ Marks' = Marks
  BY <1>1, <1>2 DEF Text, Marks, Kept
<1>4. Pos'[input] \in Pos[input] .. Len(Text[input]) /\ Pos' = [Pos EXCEPT ![input] = Pos'[input]]
  <2>1. Pos'[input] = r.nextChar
    BY <1>1, <1>2 DEF Pos
  <2>2. Pos[input] = inputs[input].nextChar /\ Text[input] = inputs[input].data
    BY <1>1 DEF Pos, Text
  <2> QED BY <1>2, <2>1, <2>2
<1>5. Last(Included) = input
  BY Current
<1>6. C!Advance
  BY <1>2, <1>3, <1>4, <1>5 DEF C!Advance, C!current, C!Last, Last, Pos, Text, Marks, Places, Included
<1> QED
  BY <1>2, <1>6

LEMMA CursorConsumeStep ==
  ASSUME CharStreamAssumption, CharInvariant, Consume
  PROVE  CharInvariant' /\ C!Advance
<1>1. Sound(inputs[input])
  BY InvariantIsSound
<1>2. inputs' = [inputs EXCEPT ![input] = consumed(inputs[input])] /\ UNCHANGED <<input, streams>>
  BY DEF Consume
<1> QED
  BY <1>1, <1>2, ConsumedIsSound, AdvanceStep

LEMMA SkipStep ==
  ASSUME CharStreamAssumption, CharInvariant, NEW stopIndex, SkipParsedRule(stopIndex)
  PROVE  CharInvariant' /\ C!Advance
<1> DEFINE s == inputs[input]
           r == seek(s, stopIndex + 1)
<1>1. Sound(s) /\ s.nextChar \in Nat /\ Len(s.data) \in Nat
  BY InvariantIsSound DEF Sound, InputStream, CharStreamAssumption
<1>2. stopIndex \in s.nextChar .. Len(s.data) - 1
  BY DEF SkipParsedRule
<1>3. inputs' = [inputs EXCEPT ![input] = r] /\ UNCHANGED <<input, streams>>
  BY DEF SkipParsedRule
<1> HIDE DEF s
<1>4. stopIndex + 1 \in s.nextChar .. Len(s.data)
  BY <1>1, <1>2
<1>5. Sound(r) /\ Kept(s, r) /\ Places(r) = Places(s) /\ r.nextChar \in s.nextChar .. Len(s.data)
  BY <1>1, <1>4, SeekIsSound
<1> QED
  BY <1>3, <1>5, AdvanceStep DEF s

LEMMA CursorMarkStep ==
  ASSUME CharStreamAssumption, CharInvariant, Mark
  PROVE  CharInvariant' /\ C!Mark
<1> DEFINE s == inputs[input]
           r == marked(s)
<1>1. Sound(s) /\ input \in Streams
  BY InvariantIsSound
<1>2. inputs' = [inputs EXCEPT ![input] = r] /\ UNCHANGED <<input, streams>>
  BY DEF Mark
<1> HIDE DEF s
<1>3. Sound(r) /\ r.data = s.data /\ r.nextChar = s.nextChar /\ Places(r) = Append(Places(s), s.nextChar)
  BY <1>1, MarkedIsSound
<1> HIDE DEF r
<1>4. /\ CharInvariant' /\ Included' = Included
      /\ Pos' = [Pos EXCEPT ![input] = r.nextChar]
      /\ Text' = [Text EXCEPT ![input] = r.data]
      /\ Marks' = [Marks EXCEPT ![input] = Places(r)]
  BY <1>2, <1>3, OneStream
<1>5. Text' = Text /\ Pos' = Pos
  BY <1>1, <1>3, <1>4 DEF Text, Pos, s
<1>6. Marks' = [Marks EXCEPT ![input] = Append(Marks[input], Pos[input])]
  BY <1>1, <1>3, <1>4 DEF Marks, Pos, s
<1>7. Last(Included) = input
  BY Current
<1>8. C!Mark
  BY <1>4, <1>5, <1>6, <1>7 DEF C!Mark, C!current, C!Last, Last, Pos, Text, Marks, Places, Included
<1> QED
  BY <1>4, <1>8

LEMMA CursorRewindStep ==
  ASSUME CharStreamAssumption, CharInvariant, NEW mark, Rewind(mark)
  PROVE  CharInvariant' /\ C!Return
<1> DEFINE s == inputs[input]
           r == rewound(s, mark)
<1>1. Sound(s) /\ input \in Streams
  BY InvariantIsSound
<1>2. /\ mark \in 1 .. s.markDepth
      /\ inputs' = [inputs EXCEPT ![input] = r] /\ UNCHANGED <<input, streams>>
  BY DEF Rewind
<1> HIDE DEF s
<1>3. /\ Sound(r) /\ r.data = s.data /\ r.nextChar = Places(s)[mark]
      /\ Places(r) = SubSeq(Places(s), 1, mark - 1)
  BY <1>1, <1>2, RewoundIsSound
<1> HIDE DEF r
<1>4. /\ CharInvariant' /\ Included' = Included
      /\ Pos' = [Pos EXCEPT ![input] = r.nextChar]
      /\ Text' = [Text EXCEPT ![input] = r.data]
      /\ Marks' = [Marks EXCEPT ![input] = Places(r)]
  BY <1>2, <1>3, OneStream
<1>5. Marks[input] = Places(s) /\ Text' = Text
  BY <1>1, <1>3, <1>4 DEF Marks, Text, s
<1>6. mark \in DOMAIN Marks[input]
  BY <1>1, <1>2, <1>5, PlacesAreASequence
<1>7. Last(Included) = input
  BY Current
<1>8. \E k \in DOMAIN Marks[Last(Included)] :
        /\ Pos' = [Pos EXCEPT ![Last(Included)] = Marks[Last(Included)][k]]
        /\ Marks' = [Marks EXCEPT ![Last(Included)] = SubSeq(@, 1, k - 1)]
        /\ UNCHANGED <<Text, Included>>
  BY <1>3, <1>4, <1>5, <1>6, <1>7
<1>9. C!Return
  BY <1>8 DEF C!Return, C!current, C!Last, Last, Pos, Text, Marks, Places, Included
<1> QED
  BY <1>4, <1>9

\* An inclusion marks the text it leaves, and reads a stream nothing waits on.
LEMMA IncludeStep ==
  ASSUME CharStreamAssumption, CharInvariant, NEW t \in Streams, NEW data \in Texts,
         NEW e \in Encodings, PushCharStream(t, data, e)
  PROVE  CharInvariant' /\ C!Include
<1> DEFINE s == inputs[input]
           r == marked(s)
           c == Constructed(data, e)
<1>1. /\ inputs \in [Streams -> InputStream] /\ \A x \in Streams : Sound(inputs[x])
      /\ input \in Streams /\ streams \in Seq(Streams) /\ Len(streams) \in Nat
  BY InvariantIsSound
<1>2. /\ t # input /\ ~ Contains(streams, t)
      /\ inputs' = [inputs EXCEPT ![input] = r, ![t] = c]
      /\ streams' = Included /\ input' = t
  BY DEF PushCharStream, Included
<1>3. Sound(c) /\ c.data = data /\ c.markDepth = 0 /\ Places(c) = <<>>
  BY ConstructedIsSound, NoPlaces
<1> HIDE DEF c
<1>4. /\ Sound(r) /\ r.data = s.data /\ r.nextChar = s.nextChar
      /\ Places(r) = Append(Places(s), s.nextChar)
      /\ r.markDepth > 0 /\ r.lastMarker = r.markDepth
  <2>1. s.markDepth \in Nat
    BY <1>1 DEF Sound, InputStream
  <2>2. Sound(s)
    BY <1>1
  <2> HIDE DEF s, r
  <2>3. /\ Sound(marked(s)) /\ marked(s).data = s.data /\ marked(s).nextChar = s.nextChar
        /\ marked(s).markDepth = s.markDepth + 1 /\ marked(s).lastMarker = s.markDepth + 1
        /\ Places(marked(s)) = Append(Places(s), s.nextChar)
    BY <2>2, MarkedIsSound
  <2>4. r = marked(s)
    BY DEF r
  <2>5. r.markDepth > 0 /\ r.lastMarker = r.markDepth
    BY <2>1, <2>3, <2>4
  <2> QED BY <2>3, <2>4, <2>5
<1> HIDE DEF r
<1>5. /\ inputs'[input] = r /\ inputs'[t] = c
      /\ \A x \in Streams : x # input /\ x # t => inputs'[x] = inputs[x]
  BY <1>1, <1>2
<1>6. inputs' \in [Streams -> InputStream] /\ \A x \in Streams : Sound(inputs'[x])
  <2>1. r \in InputStream /\ c \in InputStream
    BY <1>3, <1>4 DEF Sound
  <2> QED BY <1>1, <1>2, <1>3, <1>4, <1>5, <2>1
<1>7. LinesFollowCursor' /\ PlacesMarked'
  BY <1>6 DEF LinesFollowCursor, PlacesMarked, Sound
<1>8. \A k \in 1 .. Len(streams) : streams[k] \in Streams /\ streams[k] # input /\ streams[k] # t
  <2>1. \A k \in 1 .. Len(streams) : streams[k] # t
    BY <1>2 DEF Contains
  <2>2. \A k \in 1 .. Len(streams) : streams[k] \in Streams /\ streams[k] # input
    BY <1>1 DEF CharInvariant, Nested
  <2> QED BY <2>1, <2>2
<1>9. /\ Included \in Seq(Streams) /\ Len(Included) = Len(streams) + 1
      /\ Included[Len(streams) + 1] = input /\ \A k \in 1 .. Len(streams) : Included[k] = streams[k]
  BY <1>1 DEF Included
<1>10. \A k \in 1 .. Len(Included) : k = Len(streams) + 1 \/ k \in 1 .. Len(streams)
  BY <1>1, <1>9
<1>11. Nested'
  <2>1. ASSUME NEW k \in 1 .. Len(Included)
        PROVE  /\ Included[k] # t
               /\ \A j \in 1 .. Len(Included) : Included[j] = Included[k] => j = k
               /\ inputs'[Included[k]].markDepth > 0
               /\ inputs'[Included[k]].lastMarker = inputs'[Included[k]].markDepth
    <3>1. CASE k = Len(streams) + 1
      <4>1. Included[k] = input
        BY <1>9, <3>1
      <4>2. \A j \in 1 .. Len(Included) : Included[j] = Included[k] => j = k
        BY <1>8, <1>9, <1>10, <3>1
      <4> QED BY <1>2, <1>4, <1>5, <4>1, <4>2
    <3>2. CASE k \in 1 .. Len(streams)
      <4>1. Included[k] = streams[k]
        BY <1>9, <3>2
      <4>2. /\ \A j \in 1 .. Len(streams) : streams[j] = streams[k] => j = k
            /\ inputs[streams[k]].markDepth > 0
            /\ inputs[streams[k]].lastMarker = inputs[streams[k]].markDepth
        BY <3>2 DEF CharInvariant, Nested
      <4>3. inputs'[streams[k]] = inputs[streams[k]]
        BY <1>5, <1>8, <3>2
      <4>4. \A j \in 1 .. Len(Included) : Included[j] = Included[k] => j = k
        BY <1>8, <1>9, <1>10, <3>2, <4>1, <4>2
      <4> QED BY <1>8, <3>2, <4>1, <4>2, <4>3, <4>4
    <3> QED BY <1>10, <3>1, <3>2
  <2> HIDE DEF c
  <2> QED BY <1>2, <1>9, <2>1 DEF Nested
<1>12. Text' = [Text EXCEPT ![t] = Text'[t]]
  <2>1. \A x \in Streams : x # t => Text'[x] = Text[x]
    BY <1>4, <1>5 DEF Text
  <2> QED BY <2>1 DEF Text
<1>13. Pos' = [Pos EXCEPT ![t] = Pos'[t]]
  <2>1. \A x \in Streams : x # t => Pos'[x] = Pos[x]
    BY <1>4, <1>5 DEF Pos
  <2> QED BY <2>1 DEF Pos
<1>14. Marks' = [Marks EXCEPT ![input] = Append(@, Pos[input]), ![t] = <<>>]
  <2>1. Marks[input] = Places(s) /\ Pos[input] = s.nextChar
    BY <1>1 DEF Marks, Pos
  <2>2. \A x \in Streams : Marks'[x] = IF x = t THEN <<>> ELSE IF x = input THEN Places(r) ELSE Marks[x]
    BY <1>3, <1>5 DEF Marks
  <2>3. Marks \in [Streams -> {Marks[x] : x \in Streams}] /\ DOMAIN Marks' = Streams
    BY DEF Marks
  <2>4. Marks' = [x \in Streams |-> Marks'[x]]
    BY DEF Marks
  <2> HIDE DEF s
  <2>5. Marks' = [Marks EXCEPT ![input] = Places(r), ![t] = <<>>]
    <3> HIDE DEF Marks
    <3> QED BY <2>2, <2>3, <2>4
  <2> QED BY <1>4, <2>1, <2>5
<1>15. ~ Contains(Included, t)
  BY <1>2, <1>8, <1>9, <1>10 DEF Contains
<1>16. Included' = Append(Included, t)
  BY <1>2 DEF Included
<1>17. Last(Included) = input
  BY Current
<1>18. C!Include
  BY <1>12, <1>13, <1>14, <1>15, <1>16, <1>17
     DEF C!Include, C!current, C!Last, C!Contains, Last, Contains, Pos, Text, Marks, Places, Included
<1> QED
  BY <1>7, <1>11, <1>18 DEF CharInvariant

LEMMA FrontOf ==
  ASSUME NEW S, NEW q \in Seq(S), q # <<>>
  PROVE  /\ Front(q) \in Seq(S) /\ Len(Front(q)) = Len(q) - 1
         /\ \A k \in 1 .. Len(q) - 1 : Front(q)[k] = q[k]
<1> DEFINE n == Len(q) - 1
<1>1. Len(q) \in Nat /\ n \in Nat
  OBVIOUS
<1>2. \A i \in 1 .. n : q[i] \in S
  BY <1>1
<1>3. Front(q) = SubSeq(q, 1, n)
  BY DEF Front
<1> HIDE DEF n
<1>4. /\ SubSeq(q, 1, n) \in Seq(S) /\ Len(SubSeq(q, 1, n)) = IF 1 <= n THEN n - 1 + 1 ELSE 0
      /\ \A i \in 1 .. n - 1 + 1 : SubSeq(q, 1, n)[i] = q[1 + i - 1]
  <2>1. 1 \in Int /\ n \in Int
    BY <1>1
  <2> QED BY <1>2, <2>1, SubSeqProperties
<1>5. Len(SubSeq(q, 1, n)) = n /\ \A k \in 1 .. n : SubSeq(q, 1, n)[k] = q[k]
  BY <1>1, <1>4
<1> QED
  BY <1>3, <1>4, <1>5 DEF n

\* The text it was included from goes on where it was left.
LEMMA GiveWayStep ==
  ASSUME CharStreamAssumption, CharInvariant, PopCharStream
  PROVE  CharInvariant' /\ C!GiveWay
<1> DEFINE n == Len(streams)
           t == streams[n]
           s == inputs[t]
           r == rewound(s, s.lastMarker)
<1>1. /\ inputs \in [Streams -> InputStream] /\ \A x \in Streams : Sound(inputs[x])
      /\ input \in Streams /\ streams \in Seq(Streams) /\ n \in Nat
  BY InvariantIsSound
<1>2. /\ streams # <<>> /\ input' = t /\ streams' = Front(streams)
      /\ inputs' = [inputs EXCEPT ![t] = r]
  BY DEF PopCharStream, Last
<1>3. n > 0 /\ n \in 1 .. n
  BY <1>1, <1>2
<1>4. /\ t \in Streams /\ t # input /\ s.markDepth > 0 /\ s.lastMarker = s.markDepth
      /\ \A j \in 1 .. n : streams[j] = t => j = n
  BY <1>1, <1>3 DEF CharInvariant, Nested
<1>5. Sound(s) /\ s.markDepth \in Nat /\ s.lastMarker \in 1 .. s.markDepth
  <2>1. Sound(s) /\ s.markDepth \in Nat
    BY <1>1, <1>4 DEF Sound, InputStream
  <2> QED BY <1>4, <2>1
<1>6. /\ Sound(r) /\ r.data = s.data /\ r.nextChar = Places(s)[s.markDepth]
      /\ Places(r) = SubSeq(Places(s), 1, s.markDepth - 1)
  <2> HIDE DEF s
  <2> QED BY <1>4, <1>5, RewoundIsSound
<1>7. Places(s) \in Seq(Nat) /\ Len(Places(s)) = s.markDepth
  BY <1>5, PlacesAreASequence
<1> HIDE DEF s, r, t
<1>8. inputs'[t] = r /\ \A x \in Streams : x # t => inputs'[x] = inputs[x]
  BY <1>1, <1>2, <1>4
<1>9. LinesFollowCursor' /\ PlacesMarked'
  <2>1. inputs' \in [Streams -> InputStream]
    BY <1>1, <1>2, <1>6 DEF Sound
  <2>2. \A x \in Streams : Sound(inputs'[x])
    BY <1>1, <1>6, <1>8
  <2> QED BY <2>1, <2>2 DEF LinesFollowCursor, PlacesMarked, Sound
<1>10. /\ Front(streams) \in Seq(Streams) /\ Len(Front(streams)) = n - 1
       /\ \A k \in 1 .. n - 1 : Front(streams)[k] = streams[k]
  BY <1>1, <1>2, FrontOf
<1>11. Nested'
  <2>1. ASSUME NEW k \in 1 .. n - 1
        PROVE  /\ streams[k] # t /\ \A j \in 1 .. n - 1 : streams[j] = streams[k] => j = k
               /\ inputs'[streams[k]].markDepth > 0
               /\ inputs'[streams[k]].lastMarker = inputs'[streams[k]].markDepth
    <3>1. k \in 1 .. n /\ k # n /\ streams[k] \in Streams
      BY <1>1, <1>3
    <3>2. streams[k] # t
      BY <1>4, <3>1
    <3>3. /\ \A j \in 1 .. n : streams[j] = streams[k] => j = k
          /\ inputs[streams[k]].markDepth > 0
          /\ inputs[streams[k]].lastMarker = inputs[streams[k]].markDepth
      BY <3>1 DEF CharInvariant, Nested
    <3>4. \A j \in 1 .. n - 1 : j \in 1 .. n
      BY <1>1
    <3> QED BY <1>8, <3>1, <3>2, <3>3, <3>4
  <2> QED BY <1>2, <1>4, <1>10, <2>1 DEF Nested
<1>12. Included \in Seq(Streams) /\ Len(Included) = n + 1 /\ Last(Included) = input /\ Front(Included) = streams
  BY Current
<1>13. Included' = streams
  <2> DEFINE q == Append(Front(streams), t)
  <2>1. q \in Seq(Streams) /\ Len(q) = n /\ q[n] = t /\ \A k \in 1 .. n - 1 : q[k] = streams[k]
    BY <1>1, <1>3, <1>4, <1>10
  <2>2. Included' = q
    BY <1>2 DEF Included
  <2> HIDE DEF q
  <2>3. \A k \in 1 .. n : q[k] = streams[k]
    <3> TAKE k \in 1 .. n
    <3>1. k = n \/ k \in 1 .. n - 1
      BY <1>1
    <3> QED BY <2>1, <3>1 DEF t
  <2> QED BY <1>1, <2>1, <2>2, <2>3, SeqEqual
<1>14. Last(streams) = t /\ Last(Places(s)) = r.nextChar
  BY <1>6, <1>7 DEF Last, t
<1>15. Front(Places(s)) = Places(r)
  BY <1>6, <1>7 DEF Front
<1>16. Marks[t] = Places(s)
  BY <1>4 DEF Marks, s
<1>17. Pos' = [Pos EXCEPT ![t] = Last(Marks[t])]
  <2>1. \A x \in Streams : Pos'[x] = IF x = t THEN r.nextChar ELSE Pos[x]
    BY <1>8 DEF Pos
  <2> QED BY <1>4, <1>14, <1>16, <2>1 DEF Pos
<1>18. Marks' = [Marks EXCEPT ![t] = Front(Marks[t])]
  <2>1. \A x \in Streams : Marks'[x] = IF x = t THEN Places(r) ELSE Marks[x]
    BY <1>8 DEF Marks
  <2> QED BY <1>4, <1>15, <1>16, <2>1 DEF Marks
<1>19. Text' = Text
  BY <1>6, <1>8 DEF Text, s
<1>20. Len(Included) > 1
  BY <1>1, <1>3, <1>12
<1>21. /\ Len(Included) > 1 /\ Included' = Front(Included)
       /\ Pos' = [Pos EXCEPT ![Last(Front(Included))] = Last(Marks[Last(Front(Included))])]
       /\ Marks' = [Marks EXCEPT ![Last(Front(Included))] = Front(@)]
       /\ Text' = Text
  BY <1>12, <1>13, <1>14, <1>17, <1>18, <1>19, <1>20
<1>22. C!GiveWay
  BY <1>21 DEF C!GiveWay, C!Last, C!Front, Last, Front, Pos, Text, Marks, Places, Included
<1> QED
  BY <1>9, <1>11, <1>22 DEF CharInvariant
----------------------------------------------------------------------------
LEMMA InitIsRight ==
  ASSUME CharStreamAssumption, CharsInit
  PROVE  CharInvariant /\ C!Init
<1>1. PICK data \in Texts, e \in Encodings : inputs = [s \in Streams |-> Constructed(data, e)]
  BY DEF CharsInit
<1>2. input \in Streams /\ streams = <<>>
  BY DEF CharsInit
<1>3. \A s \in Streams : inputs[s] = Constructed(data, e)
  BY <1>1
<1>4. \A s \in Streams : Sound(inputs[s]) /\ Places(inputs[s]) = <<>>
  BY <1>3, ConstructedIsSound, NoPlaces
<1>5. inputs \in [Streams -> InputStream]
  BY <1>1, ConstructedIsSound DEF Sound
<1>6. LinesFollowCursor /\ PlacesMarked
  BY <1>4, <1>5 DEF LinesFollowCursor, PlacesMarked, Sound
<1>7. Nested
  BY <1>2 DEF Nested
<1>8. Marks = [s \in Streams |-> <<>>]
  BY <1>4 DEF Marks
<1>9. Included = <<input>>
  BY <1>2 DEF Included
<1>10. C!Init
  BY <1>2, <1>8, <1>9 DEF C!Init, Marks, Places, Included
<1> QED
  BY <1>6, <1>7, <1>10 DEF CharInvariant

LEMMA StepIsRight ==
  ASSUME CharStreamAssumption, CharInvariant, [CharsNext]_chars
  PROVE  CharInvariant' /\ [C!Next]_C!vars
<1>1. ASSUME CharsNext PROVE CharInvariant' /\ C!Next
  <2>1. CASE Consume
    BY <2>1, CursorConsumeStep DEF C!Next
  <2>2. CASE Mark
    BY <2>2, CursorMarkStep DEF C!Next
  <2>3. CASE PopCharStream
    BY <2>3, GiveWayStep DEF C!Next
  <2>4. CASE \E data \in Texts : Reuse(data)
    BY <2>4, ReuseStep DEF C!Next
  <2>5. CASE \E mark \in 1 .. MaxMarks : Rewind(mark)
    BY <2>5, CursorRewindStep DEF C!Next
  <2>6. CASE \E stopIndex \in 0 .. Len(inputs[input].data) : SkipParsedRule(stopIndex)
    BY <2>6, SkipStep DEF C!Next
  <2>7. CASE \E s \in Streams, data \in Texts, e \in Encodings : PushCharStream(s, data, e)
    BY <2>7, IncludeStep DEF C!Next
  <2> QED BY <1>1, <2>1, <2>2, <2>3, <2>4, <2>5, <2>6, <2>7 DEF CharsNext
<1>2. ASSUME UNCHANGED chars PROVE CharInvariant' /\ UNCHANGED C!vars
  BY <1>2 DEF chars, C!vars, CharInvariant, LinesFollowCursor, PlacesMarked, Nested
<1> QED
  BY <1>1, <1>2

\* After any operations on any streams the lines and columns are those of the
\* cursor, there and at every place that is marked, and a stream that waits for
\* the one it includes was marked where it is left (antlr3intstream.inl:43-226).
THEOREM LinesAreRight ==
  ASSUME CharStreamAssumption
  PROVE  CharsSpec => []CharInvariant
<1>1. CharsInit => CharInvariant
  BY InitIsRight
<1>2. CharInvariant /\ [CharsNext]_chars => CharInvariant'
  BY StepIsRight
<1> QED
  BY <1>1, <1>2, PTL DEF CharsSpec

\* However often the slots of the marks are used again, the streams are cursors with
\* stacks of marked places, and lines follow them (antlr3lexer.inl:140-180).
THEOREM StreamsAreCursors ==
  ASSUME CharStreamAssumption
  PROVE  CharsSpec => CharsAreCursor
<1>1. CharsInit => C!Init
  BY InitIsRight
<1>2. CharInvariant /\ [CharsNext]_chars => [C!Next]_C!vars
  BY StepIsRight
<1>3. CharInvariant => LinesFollowCursor
  BY DEF CharInvariant
<1>4. CharsSpec => []CharInvariant
  BY LinesAreRight
<1> QED
  BY <1>1, <1>2, <1>3, <1>4, PTL DEF CharsSpec, C!Spec, CharsAreCursor
----------------------------------------------------------------------------
(***************************************************************************)
(* Tokens.                                                                 *)
(***************************************************************************)
Token == [type : Types, channel : Channels]

Visible(toks, lo, hi) == {j \in lo .. hi : toks[j].channel = m_channel}

\* A buffer that holds all tokens there are.
Full(toks, i) ==
  [source |-> <<>>, tokens |-> toks, p |-> i, cachedSize |-> Len(toks), nissued |-> Len(toks)]

LEMMA VisibleAreFinite ==
  ASSUME NEW toks, NEW lo \in Int, NEW hi \in Int, NEW U \in SUBSET Visible(toks, lo, hi)
  PROVE  /\ IsFiniteSet(U) /\ Cardinality(U) \in Nat
         /\ U \subseteq lo .. hi
         /\ Cardinality(U) <= IF lo > hi THEN 0 ELSE hi - lo + 1
<1>1. U \in SUBSET (lo .. hi)
  BY DEF Visible
<1>2. IsFiniteSet(lo .. hi) /\ Cardinality(lo .. hi) = IF lo > hi THEN 0 ELSE hi - lo + 1
  BY FS_Interval
<1>3. IsFiniteSet(U) /\ Cardinality(U) <= Cardinality(lo .. hi)
  BY <1>1, <1>2, FS_Subset
<1>4. Cardinality(U) \in Nat
  BY <1>3, FS_CardinalityType
<1> QED
  BY <1>1, <1>2, <1>3, <1>4
----------------------------------------------------------------------------
(***************************************************************************)
(* Passing over tokens.                                                    *)
(***************************************************************************)
\* Forwards, the next visible token or the end.
LEMMA SkipForwards ==
  ASSUME NEW toks, NEW n \in Nat, NEW i \in Nat
  PROVE  LET x == skipOffTokenChannels(toks, n, i)
         IN  /\ x \in Nat /\ i <= x
             /\ i <= n => x <= n
             /\ x < n => toks[x + 1].channel = m_channel
             /\ \A j \in Visible(toks, i + 1, n) : x + 1 <= j
<1> DEFINE x == skipOffTokenChannels(toks, n, i)
           on == {j \in i .. n - 1 : toks[j + 1].channel = m_channel}
<1>1. \A j \in Visible(toks, i + 1, n) : j \in Int /\ i + 1 <= j /\ j <= n /\ j - 1 \in on
  <2> TAKE j \in Visible(toks, i + 1, n)
  <2>1. j \in i + 1 .. n /\ toks[j].channel = m_channel /\ (j - 1) + 1 = j /\ j - 1 \in i .. n - 1
    BY DEF Visible
  <2> QED BY <2>1
<1>2. CASE i >= n
  <2>1. x = i
    BY <1>2 DEF skipOffTokenChannels
  <2>2. Visible(toks, i + 1, n) = {}
    BY <1>1, <1>2
  <2> HIDE DEF x
  <2> QED BY <1>2, <2>1, <2>2 DEF x
<1>3. CASE ~ (i >= n) /\ on = {}
  <2>1. x = n
    BY <1>3 DEF skipOffTokenChannels
  <2>2. Visible(toks, i + 1, n) = {}
    BY <1>1, <1>3
  <2> HIDE DEF x
  <2> QED BY <1>3, <2>1, <2>2 DEF x
<1>4. CASE ~ (i >= n) /\ on # {}
  <2>1. x = CHOOSE j \in on : \A k \in on : j <= k
    BY <1>4 DEF skipOffTokenChannels
  <2>2. on \in SUBSET Nat /\ \A j \in on : i <= j /\ j < n /\ toks[j + 1].channel = m_channel
    OBVIOUS
  <2> HIDE DEF on, x
  <2>3. \E j \in on : \A k \in on : j <= k
    BY <1>4, <2>2, LeastNumber
  <2>4. x \in on /\ \A k \in on : x <= k
    BY <2>1, <2>3
  <2>5. \A j \in Visible(toks, i + 1, n) : x + 1 <= j
    <3> TAKE j \in Visible(toks, i + 1, n)
    <3>1. x \in Int /\ j \in Int /\ x <= j - 1
      BY <1>1, <2>2, <2>4
    <3> QED BY <3>1
  <2>6. x \in Nat /\ i <= x /\ x < n /\ toks[x + 1].channel = m_channel
    BY <2>2, <2>4
  <2> QED BY <2>5, <2>6 DEF x
<1> QED
  BY <1>2, <1>3, <1>4

\* Backwards, the last visible token up to x, or a place before all.
LEMMA SkipBackwards ==
  ASSUME NEW toks, NEW i \in Int
  PROVE  LET x == skipOffTokenChannelsReverse(toks, i)
         IN  /\ x \in Int /\ (x >= 0 => x <= i /\ toks[x + 1].channel = m_channel)
             /\ i < 0 => x = i
             /\ \A j \in Visible(toks, 1, i + 1) : j <= x + 1
<1> DEFINE x == skipOffTokenChannelsReverse(toks, i)
           on == {j \in 0 .. i : toks[j + 1].channel = m_channel}
<1>1. \A j \in Visible(toks, 1, i + 1) : j \in Int /\ 1 <= j /\ j <= i + 1 /\ j - 1 \in on
  <2> TAKE j \in Visible(toks, 1, i + 1)
  <2>1. j \in 1 .. i + 1 /\ toks[j].channel = m_channel /\ (j - 1) + 1 = j /\ j - 1 \in 0 .. i
    BY DEF Visible
  <2> QED BY <2>1
<1>2. CASE i < 0
  <2>1. x = i
    BY <1>2 DEF skipOffTokenChannelsReverse
  <2>2. Visible(toks, 1, i + 1) = {}
    BY <1>1, <1>2
  <2> HIDE DEF x
  <2> QED BY <1>2, <2>1, <2>2 DEF x
<1>3. CASE ~ (i < 0) /\ on = {}
  <2>1. x = -1
    BY <1>3 DEF skipOffTokenChannelsReverse
  <2>2. Visible(toks, 1, i + 1) = {}
    BY <1>1, <1>3
  <2> HIDE DEF x
  <2> QED BY <1>3, <2>1, <2>2 DEF x
<1>4. CASE ~ (i < 0) /\ on # {}
  <2>1. x = CHOOSE j \in on : \A k \in on : k <= j
    BY <1>4 DEF skipOffTokenChannelsReverse
  <2>2. \A j \in on : j \in Nat /\ j <= i /\ toks[j + 1].channel = m_channel
    OBVIOUS
  <2>3. \E j \in on : \A k \in on : k <= j
    <3> DEFINE up == {j + 1 : j \in on}
    <3>1. up \in SUBSET (1 .. i + 1) /\ up # {} /\ i + 1 \in Nat
      BY <1>4, <2>2
    <3>2. PICK m \in up : \A k \in up : k <= m
      <4> HIDE DEF up
      <4> QED BY <3>1, GreatestNumber
    <3>3. PICK j \in on : m = j + 1
      BY <3>2
    <3>4. \A k \in on : k <= j
      BY <2>2, <3>2, <3>3
    <3> QED BY <3>4
  <2> HIDE DEF on, x
  <2>4. x \in on /\ \A k \in on : k <= x
    BY <2>1, <2>3
  <2>5. \A j \in Visible(toks, 1, i + 1) : j <= x + 1
    <3> TAKE j \in Visible(toks, 1, i + 1)
    <3>1. x \in Int /\ j \in Int /\ j - 1 <= x
      BY <1>1, <2>2, <2>4
    <3> QED BY <3>1
  <2>6. x \in Nat /\ x <= i /\ toks[x + 1].channel = m_channel
    BY <2>2, <2>4
  <2> QED BY <1>4, <2>5, <2>6 DEF x
<1> QED
  BY <1>2, <1>3, <1>4

\* Where a lookahead of n tokens beyond the one at i stands: on the one it counts to, or past
\* the end when there are not as many.
Reaches(toks, i, a, n) ==
  LET U == Visible(toks, i + 1, Len(toks))
  IN  /\ a \in Nat
      /\ IF a < Len(toks) THEN a + 1 \in U /\ Cardinality({x \in U : x <= a + 1}) = n + 1
                          ELSE Cardinality(U) <= n

LEMMA ReachesOneMore ==
  ASSUME NEW toks \in Seq(Token), NEW i \in Nat, NEW a, NEW n \in Nat, Reaches(toks, i, a, n)
  PROVE  Reaches(toks, i, skipOffTokenChannels(toks, Len(toks), a + 1), n + 1)
<1> DEFINE L == Len(toks)
           U == Visible(toks, i + 1, L)
           V(c) == {x \in U : x <= c}
           d == skipOffTokenChannels(toks, L, a + 1)
<1>1. /\ L \in Nat /\ a \in Nat
      /\ IF a < L THEN a + 1 \in U /\ Cardinality(V(a + 1)) = n + 1 ELSE Cardinality(U) <= n
  BY DEF Reaches
<1>2. /\ d \in Nat /\ a + 1 <= d /\ (a + 1 <= L => d <= L)
      /\ (d < L => toks[d + 1].channel = m_channel)
      /\ \A j \in Visible(toks, a + 1 + 1, L) : d + 1 <= j
  <2>1. a + 1 \in Nat
    BY <1>1
  <2> QED BY <1>1, <2>1, SkipForwards
<1>3. IsFiniteSet(U) /\ Cardinality(U) \in Nat /\ U \subseteq i + 1 .. L
  <2>1. i + 1 \in Int /\ L \in Int /\ U \in SUBSET U
    BY <1>1
  <2> QED BY <2>1, VisibleAreFinite
<1>4. \A x \in U : x \in Int /\ i + 1 <= x /\ x <= L /\ toks[x].channel = m_channel
  BY <1>1 DEF Visible
<1>5. \A x \in i + 1 .. L : toks[x].channel = m_channel => x \in U
  BY DEF Visible
<1>6. \A x \in U : x <= a + 1 \/ d + 1 <= x
  <2> TAKE x \in U
  <2>1. x > a + 1 => x \in Visible(toks, a + 1 + 1, L)
    BY <1>1, <1>4 DEF Visible
  <2> QED BY <1>1, <1>2, <1>4, <2>1
<1> HIDE DEF U, d, L
<1>7. CASE a < L /\ d < L
  <2>1. a + 1 \in U /\ i + 1 <= a + 1 /\ d + 1 \in i + 1 .. L
    BY <1>1, <1>2, <1>4, <1>7
  <2>2. d + 1 \in U
    BY <1>2, <1>5, <1>7, <2>1
  <2>3. V(d + 1) = V(a + 1) \cup {d + 1} /\ d + 1 \notin V(a + 1)
    BY <1>1, <1>2, <1>4, <1>6, <2>2
  <2>4. IsFiniteSet(V(a + 1))
    <3>1. V(a + 1) \in SUBSET U
      OBVIOUS
    <3> QED BY <1>3, <3>1, FS_Subset
  <2> HIDE DEF V
  <2>5. Cardinality(V(d + 1)) = n + 1 + 1
    BY <1>1, <1>7, <2>3, <2>4, FS_AddElement
  <2> QED BY <1>2, <1>7, <2>2, <2>5 DEF Reaches, U, V, d, L
<1>8. CASE a < L /\ ~ (d < L)
  <2>1. U = V(a + 1)
    BY <1>1, <1>2, <1>4, <1>6, <1>8
  <2>2. Cardinality(U) <= n + 1
    <3>1. Cardinality(U) = n + 1
      BY <1>1, <1>8, <2>1
    <3> QED BY <3>1
  <2> QED BY <1>2, <1>8, <2>2 DEF Reaches, U, d, L
<1>9. CASE ~ (a < L)
  <2>1. Cardinality(U) <= n + 1
    BY <1>1, <1>3, <1>9
  <2>2. ~ (d < L)
    BY <1>1, <1>2, <1>9
  <2> QED BY <1>2, <2>1, <2>2 DEF Reaches, U, d, L
<1> QED
  BY <1>7, <1>8, <1>9

LEMMA AheadReaches ==
  ASSUME NEW b, b.tokens \in Seq(Token), b.cachedSize = Len(b.tokens),
         NEW i, OnPlace(b.tokens, i), NEW n, n \in Nat
  PROVE  Reaches(b.tokens, i, Ahead(b, i, n), n)
<1> DEFINE toks == b.tokens
           skip(c) == skipOffTokenChannels(toks, b.cachedSize, c + 1)
           next == [k \in 1 .. n |-> [x \in Nat |-> skip(x)]]
           at == CHOOSE g : g = [k \in 0 .. n |-> IF k = 0 THEN i ELSE skip(g[k - 1])]
           G == {k \in 0 .. n : Reaches(toks, i, at[k], k)}
<1>1. Len(toks) \in Nat /\ i \in Nat /\ n \in Nat
  BY DEF OnPlace
<1>2. \A x \in Nat : skip(x) \in Nat
  <2> TAKE x \in Nat
  <2>1. x + 1 \in Nat
    OBVIOUS
  <2> QED BY <1>1, <2>1, SkipForwards
<1>3. Ahead(b, i, n) = at[n]
  BY DEF Ahead
<1>4. next \in [1 .. n -> [Nat -> Nat]]
  BY <1>2
<1>5. \E g : g = [k \in 0 .. n |-> IF k = 0 THEN i ELSE skip(g[k - 1])]
  <2> HIDE DEF next, skip
  <2>1. PICK f : Recursive(f, n, Nat, i, next)
    BY <1>1, <1>4, Recursion
  <2>2. \A k \in 0 .. n : k # 0 => k \in 1 .. n /\ k - 1 \in 0 .. n
    OBVIOUS
  <2>3. \A k \in 1 .. n : f[k] = skip(f[k - 1])
    <3> TAKE k \in 1 .. n
    <3>1. f[k - 1] \in Nat /\ k \in 1 .. n
      BY <2>1 DEF Recursive
    <3> QED BY <2>1, <3>1 DEF next, Recursive
  <2> QED BY <2>1, <2>2, <2>3 DEF Recursive
<1>6. at = [k \in 0 .. n |-> IF k = 0 THEN i ELSE skip(at[k - 1])]
  BY <1>5
<1> HIDE DEF at
<1>7. Reaches(toks, i, i, 0)
  <2> DEFINE U == Visible(toks, i + 1, Len(toks))
  <2>1. CASE i < Len(toks)
    <3>1. i + 1 \in U /\ {x \in U : x <= i + 1} = {i + 1}
      BY <1>1, <2>1 DEF Visible, OnPlace
    <3> HIDE DEF U
    <3>2. Cardinality({x \in U : x <= i + 1}) = 0 + 1
      <4>1. Cardinality({i + 1}) = 1
        BY FS_Singleton
      <4>2. {x \in U : x <= i + 1} = {i + 1} /\ 0 + 1 = 1
        BY <3>1
      <4> QED BY <4>1, <4>2
    <3> QED BY <1>1, <2>1, <3>1, <3>2 DEF Reaches, U
  <2>2. CASE ~ (i < Len(toks))
    <3>1. Cardinality(U) <= 0
      <4>1. i + 1 > Len(toks) /\ i + 1 \in Int /\ Len(toks) \in Int
        BY <1>1, <2>2
      <4> QED BY <4>1, VisibleAreFinite
    <3> QED BY <1>1, <2>2, <3>1 DEF Reaches
  <2> QED BY <2>1, <2>2
<1>8. 0 \in G
  BY <1>6, <1>7
<1>9. ASSUME NEW k \in 1 .. n, k - 1 \in G PROVE k \in G
  <2>1. k \in 0 .. n /\ k # 0 /\ k - 1 \in Nat /\ (k - 1) + 1 = k
    OBVIOUS
  <2>2. Reaches(toks, i, at[k - 1], k - 1)
    BY <1>9
  <2>3. Reaches(toks, i, skipOffTokenChannels(toks, Len(toks), at[k - 1] + 1), k - 1 + 1)
    BY <1>1, <2>1, <2>2, ReachesOneMore
  <2>4. at[k] = skipOffTokenChannels(toks, Len(toks), at[k - 1] + 1)
    BY <1>6, <2>1
  <2> QED BY <2>1, <2>3, <2>4
<1>10. G = 0 .. n
  <2> HIDE DEF G
  <2>1. G \in SUBSET (0 .. n)
    BY DEF G
  <2> QED BY <1>8, <1>9, <2>1, StepByStep
<1> QED
  BY <1>3, <1>10

\* And n tokens before the one at q, or before all when there are not as many.
ReachesBack(toks, q, a, n) ==
  LET U == Visible(toks, 1, q)
  IN  /\ a \in Int /\ a <= q
      /\ IF a >= 0 THEN Cardinality({x \in U : a + 1 <= x}) = n /\ (n > 0 => a + 1 \in U)
                   ELSE Cardinality(U) < n

LEMMA ReachesOneMoreBack ==
  ASSUME NEW toks, NEW q \in Nat, NEW a, NEW n \in Nat, ReachesBack(toks, q, a, n)
  PROVE  ReachesBack(toks, q, skipOffTokenChannelsReverse(toks, a - 1), n + 1)
<1> DEFINE U == Visible(toks, 1, q)
           V(c) == {x \in U : c <= x}
           d == skipOffTokenChannelsReverse(toks, a - 1)
<1>1. /\ a \in Int /\ a <= q
      /\ IF a >= 0 THEN Cardinality(V(a + 1)) = n ELSE Cardinality(U) < n
  BY DEF ReachesBack
<1>2. /\ d \in Int /\ (d >= 0 => d <= a - 1 /\ toks[d + 1].channel = m_channel)
      /\ (a - 1 < 0 => d = a - 1)
      /\ \A j \in Visible(toks, 1, a - 1 + 1) : j <= d + 1
  <2>1. a - 1 \in Int
    BY <1>1
  <2> QED BY <2>1, SkipBackwards
<1>3. IsFiniteSet(U) /\ Cardinality(U) \in Nat
  <2>1. 1 \in Int /\ q \in Int /\ U \in SUBSET U
    OBVIOUS
  <2> QED BY <2>1, VisibleAreFinite
<1>4. \A x \in U : x \in Int /\ 1 <= x /\ x <= q /\ toks[x].channel = m_channel
  BY DEF Visible
<1>5. \A x \in 1 .. q : toks[x].channel = m_channel => x \in U
  BY DEF Visible
<1>6. \A x \in U : a + 1 <= x \/ x <= d + 1
  <2> TAKE x \in U
  <2>1. x < a + 1 => x \in Visible(toks, 1, a - 1 + 1)
    BY <1>1, <1>4 DEF Visible
  <2> QED BY <1>1, <1>2, <1>4, <2>1
<1> HIDE DEF U, d
<1>7. CASE d >= 0
  <2>1. a >= 0 /\ d + 1 \in 1 .. q /\ d + 1 < a + 1
    BY <1>1, <1>2, <1>7
  <2>2. d + 1 \in U
    BY <1>2, <1>5, <1>7, <2>1
  <2>3. V(d + 1) = V(a + 1) \cup {d + 1} /\ d + 1 \notin V(a + 1)
    BY <1>1, <1>2, <1>4, <1>6, <2>1, <2>2
  <2>4. IsFiniteSet(V(a + 1))
    <3>1. V(a + 1) \in SUBSET U
      OBVIOUS
    <3> QED BY <1>3, <3>1, FS_Subset
  <2> HIDE DEF V
  <2>5. Cardinality(V(d + 1)) = n + 1
    BY <1>1, <2>1, <2>3, <2>4, FS_AddElement
  <2>6. d <= q
    BY <1>1, <1>2, <2>1
  <2> QED BY <1>2, <1>7, <2>2, <2>5, <2>6 DEF ReachesBack, U, V, d
<1>8. CASE ~ (d >= 0)
  <2>1. Cardinality(U) < n + 1
    <3>1. CASE a >= 0
      <4>1. U = V(a + 1)
        BY <1>1, <1>2, <1>4, <1>6, <1>8, <3>1
      <4>2. Cardinality(U) = n
        BY <1>1, <3>1, <4>1
      <4> QED BY <4>2
    <3>2. CASE ~ (a >= 0)
      BY <1>1, <1>3, <3>2
    <3> QED BY <3>1, <3>2
  <2>2. d <= q
    BY <1>2, <1>8
  <2> QED BY <1>2, <1>8, <2>1, <2>2 DEF ReachesBack, U, d
<1> QED
  BY <1>7, <1>8

LEMMA BehindReaches ==
  ASSUME NEW b, NEW q, q \in Nat, NEW n, n \in Nat
  PROVE  ReachesBack(b.tokens, q, Behind(b, q, n), n)
<1> DEFINE toks == b.tokens
           skip(c) == skipOffTokenChannelsReverse(toks, c - 1)
           next == [k \in 1 .. n |-> [x \in Int |-> skip(x)]]
           at == CHOOSE g : g = [k \in 0 .. n |-> IF k = 0 THEN q ELSE skip(g[k - 1])]
           G == {k \in 0 .. n : ReachesBack(toks, q, at[k], k)}
<1>1. \A x \in Int : skip(x) \in Int
  <2> TAKE x \in Int
  <2>1. x - 1 \in Int
    OBVIOUS
  <2> QED BY <2>1, SkipBackwards
<1>2. Behind(b, q, n) = at[n]
  BY DEF Behind
<1>3. n \in Nat /\ q \in Int /\ next \in [1 .. n -> [Int -> Int]]
  BY <1>1
<1>4. \E g : g = [k \in 0 .. n |-> IF k = 0 THEN q ELSE skip(g[k - 1])]
  <2> HIDE DEF next, skip
  <2>1. PICK f : Recursive(f, n, Int, q, next)
    BY <1>3, Recursion
  <2>2. \A k \in 0 .. n : k # 0 => k \in 1 .. n /\ k - 1 \in 0 .. n
    OBVIOUS
  <2>3. \A k \in 1 .. n : f[k] = skip(f[k - 1])
    <3> TAKE k \in 1 .. n
    <3>1. f[k - 1] \in Int /\ k \in 1 .. n
      BY <2>1 DEF Recursive
    <3> QED BY <2>1, <3>1 DEF next, Recursive
  <2> QED BY <2>1, <2>2, <2>3 DEF Recursive
<1>5. at = [k \in 0 .. n |-> IF k = 0 THEN q ELSE skip(at[k - 1])]
  BY <1>4
<1> HIDE DEF at
<1>6. ReachesBack(toks, q, q, 0)
  <2> DEFINE U == Visible(toks, 1, q)
  <2>1. {x \in U : q + 1 <= x} = {}
    BY DEF Visible
  <2>2. Cardinality({x \in U : q + 1 <= x}) = 0
    BY <2>1, FS_EmptySet
  <2> QED BY <2>2 DEF ReachesBack
<1>7. 0 \in G
  BY <1>5, <1>6
<1>8. ASSUME NEW k \in 1 .. n, k - 1 \in G PROVE k \in G
  <2>1. k \in 0 .. n /\ k # 0 /\ k - 1 \in Nat /\ (k - 1) + 1 = k
    OBVIOUS
  <2>2. ReachesBack(toks, q, at[k - 1], k - 1)
    BY <1>8
  <2>3. ReachesBack(toks, q, skipOffTokenChannelsReverse(toks, at[k - 1] - 1), k - 1 + 1)
    BY <2>1, <2>2, ReachesOneMoreBack
  <2>4. at[k] = skipOffTokenChannelsReverse(toks, at[k - 1] - 1)
    BY <1>5, <2>1
  <2> QED BY <2>1, <2>3, <2>4
<1>9. G = 0 .. n
  <2> HIDE DEF G
  <2>1. G \in SUBSET (0 .. n)
    BY DEF G
  <2> QED BY <1>7, <1>8, <2>1, StepByStep
<1> QED
  BY <1>2, <1>9
----------------------------------------------------------------------------
(***************************************************************************)
(* The token that is asked for.                                            *)
(***************************************************************************)
\* Expected, of a buffer that holds all tokens.
Nth(toks, q, k) ==
  LET on == IF k > 0 THEN Visible(toks, q + 1, Len(toks)) ELSE Visible(toks, 1, q)
      nth == {j \in on : IF k > 0 THEN Cardinality({i \in on : i <= j}) = k
                                  ELSE Cardinality({i \in on : i >= j}) = -k}
  IN  IF nth # {} THEN toks[CHOOSE j \in nth : TRUE]
      ELSE IF k > 0 THEN EOFToken ELSE NoToken

\* Only one token is preceded by as many.
LEMMA OneIsNth ==
  ASSUME NEW toks, NEW lo \in Int, NEW hi \in Int, NEW i, NEW j,
         i \in Visible(toks, lo, hi), j \in Visible(toks, lo, hi),
         \/ Cardinality({x \in Visible(toks, lo, hi) : x <= i})
              = Cardinality({x \in Visible(toks, lo, hi) : x <= j})
         \/ Cardinality({x \in Visible(toks, lo, hi) : x >= i})
              = Cardinality({x \in Visible(toks, lo, hi) : x >= j})
  PROVE  i = j
<1> DEFINE U == Visible(toks, lo, hi)
           V(c) == {x \in U : x <= c}
           W(c) == {x \in U : x >= c}
<1>1. \A x \in U : x \in Int
  BY DEF Visible
<1>2. \A c : V(c) \in SUBSET U /\ W(c) \in SUBSET U
  OBVIOUS
<1> HIDE DEF U
<1>3. \A c : IsFiniteSet(V(c)) /\ IsFiniteSet(W(c))
  <2> TAKE c
  <2> HIDE DEF V, W
  <2> QED BY <1>2, VisibleAreFinite DEF U
<1>4. ASSUME NEW x \in U, NEW y \in U, x < y
      PROVE  Cardinality(V(x)) # Cardinality(V(y)) /\ Cardinality(W(x)) # Cardinality(W(y))
  <2>1. V(x) \in SUBSET V(y) /\ y \in V(y) /\ y \notin V(x)
    BY <1>1, <1>4
  <2>2. W(y) \in SUBSET W(x) /\ x \in W(x) /\ x \notin W(y)
    BY <1>1, <1>4
  <2> HIDE DEF V, W
  <2>3. V(x) # V(y) /\ W(x) # W(y)
    BY <2>1, <2>2
  <2>4. Cardinality(V(x)) # Cardinality(V(y))
    BY <1>3, <2>1, <2>3, FS_Subset
  <2>5. Cardinality(W(x)) # Cardinality(W(y))
    BY <1>3, <2>2, <2>3, FS_Subset
  <2> QED BY <2>4, <2>5
<1>5. i \in U /\ j \in U /\ (Cardinality(V(i)) = Cardinality(V(j)) \/ Cardinality(W(i)) = Cardinality(W(j)))
  BY DEF U
<1>6. i < j \/ j < i \/ i = j
  BY <1>1, <1>5
<1> HIDE DEF V, W
<1> QED
  BY <1>4, <1>5, <1>6

LEMMA NthAhead ==
  ASSUME NEW toks \in Seq(Token), NEW q \in Nat, NEW k \in Nat, k > 0, NEW a,
         Reaches(toks, q, a, k - 1)
  PROVE  Nth(toks, q, k) = IF a < Len(toks) THEN toks[a + 1] ELSE EOFToken
<1> DEFINE U == Visible(toks, q + 1, Len(toks))
           nth == {j \in U : Cardinality({i \in U : i <= j}) = k}
<1>1. Len(toks) \in Nat /\ q + 1 \in Int /\ k - 1 + 1 = k
  OBVIOUS
<1>2. Nth(toks, q, k) = IF nth # {} THEN toks[CHOOSE j \in nth : TRUE] ELSE EOFToken
  BY DEF Nth
<1>3. CASE a < Len(toks)
  <2>1. a + 1 \in nth
    BY <1>1, <1>3 DEF Reaches
  <2>2. \A j \in nth : j = a + 1
    <3> TAKE j \in nth
    <3>1. j \in U /\ Cardinality({i \in U : i <= j}) = k
      OBVIOUS
    <3>2. a + 1 \in U /\ Cardinality({i \in U : i <= a + 1}) = k
      BY <2>1
    <3>3. Cardinality({i \in U : i <= j}) = Cardinality({i \in U : i <= a + 1})
      BY <3>1, <3>2
    <3>4. q + 1 \in Int /\ Len(toks) \in Int
      BY <1>1
    <3> QED BY <3>1, <3>2, <3>3, <3>4, OneIsNth
  <2> HIDE DEF nth
  <2>3. (CHOOSE j \in nth : TRUE) = a + 1
    BY <2>1, <2>2
  <2> QED BY <1>2, <1>3, <2>1, <2>3
<1>4. CASE ~ (a < Len(toks))
  <2>1. Cardinality(U) <= k - 1
    BY <1>4 DEF Reaches
  <2>2. \A j \in U : Cardinality({i \in U : i <= j}) # k
    <3> TAKE j \in U
    <3> DEFINE V == {i \in U : i <= j}
    <3>1. V \in SUBSET U /\ U \in SUBSET U
      OBVIOUS
    <3> HIDE DEF V, U
    <3>2. IsFiniteSet(U) /\ IsFiniteSet(V) /\ Cardinality(U) \in Nat /\ Cardinality(V) \in Nat
      BY <1>1, <3>1, VisibleAreFinite DEF U
    <3>3. Cardinality(V) <= Cardinality(U)
      BY <3>1, <3>2, FS_Subset
    <3>4. Cardinality(V) # k
      BY <2>1, <3>2, <3>3
    <3> QED BY <3>4 DEF V
  <2> QED BY <1>2, <1>4, <2>2
<1> QED
  BY <1>3, <1>4

LEMMA NthBehind ==
  ASSUME NEW toks, NEW q \in Nat, NEW k \in Nat, k > 0, NEW a, ReachesBack(toks, q, a, k)
  PROVE  Nth(toks, q, -k) = IF a >= 0 THEN toks[a + 1] ELSE NoToken
<1> DEFINE U == Visible(toks, 1, q)
           nth == {j \in U : Cardinality({i \in U : i >= j}) = k}
<1>1. q \in Int /\ -k \in Int /\ ~ (-k > 0) /\ -(-k) = k /\ 1 \in Int
  OBVIOUS
<1>2. Nth(toks, q, -k) = IF nth # {} THEN toks[CHOOSE j \in nth : TRUE] ELSE NoToken
  <2> DEFINE m == -k
  <2>1. ~ (m > 0) /\ -m = k
    OBVIOUS
  <2> HIDE DEF m
  <2> DEFINE on == IF m > 0 THEN Visible(toks, q + 1, Len(toks)) ELSE Visible(toks, 1, q)
             at == {j \in on : IF m > 0 THEN Cardinality({i \in on : i <= j}) = m
                                       ELSE Cardinality({i \in on : i >= j}) = -m}
  <2>2. Nth(toks, q, m) = IF at # {} THEN toks[CHOOSE j \in at : TRUE]
                          ELSE IF m > 0 THEN EOFToken ELSE NoToken
    BY DEF Nth
  <2>3. on = U
    BY <2>1
  <2> HIDE DEF on, U
  <2>4. at = nth
    BY <2>1, <2>3
  <2> HIDE DEF at, nth
  <2> QED BY <2>1, <2>2, <2>4 DEF m
<1>3. \A j \in U : j \in Int
  BY DEF Visible
<1>4. a \in Int
  BY DEF ReachesBack
<1>5. CASE a >= 0
  <2>1. a + 1 \in nth
    <3>1. a + 1 \in U /\ Cardinality({i \in U : a + 1 <= i}) = k
      BY <1>5 DEF ReachesBack
    <3>2. {i \in U : a + 1 <= i} = {i \in U : i >= a + 1}
      BY <1>3, <1>4
    <3> QED BY <3>1, <3>2
  <2>2. \A j \in nth : j = a + 1
    <3> TAKE j \in nth
    <3>1. j \in U /\ Cardinality({i \in U : i >= j}) = k
      OBVIOUS
    <3>2. a + 1 \in U /\ Cardinality({i \in U : i >= a + 1}) = k
      BY <2>1
    <3> QED BY <1>1, <3>1, <3>2, OneIsNth
  <2> HIDE DEF nth
  <2>3. (CHOOSE j \in nth : TRUE) = a + 1
    BY <2>1, <2>2
  <2> QED BY <1>2, <1>5, <2>1, <2>3
<1>6. CASE ~ (a >= 0)
  <2>1. Cardinality(U) < k
    BY <1>6 DEF ReachesBack
  <2>2. \A j \in U : Cardinality({i \in U : i >= j}) # k
    <3> TAKE j \in U
    <3> DEFINE V == {i \in U : i >= j}
    <3>1. V \in SUBSET U /\ U \in SUBSET U
      OBVIOUS
    <3> HIDE DEF V, U
    <3>2. IsFiniteSet(U) /\ IsFiniteSet(V) /\ Cardinality(U) \in Nat /\ Cardinality(V) \in Nat
      BY <1>1, <3>1, VisibleAreFinite DEF U
    <3>3. Cardinality(V) <= Cardinality(U)
      BY <3>1, <3>2, FS_Subset
    <3>4. Cardinality(V) # k
      BY <2>1, <3>2, <3>3
    <3> QED BY <3>4 DEF V
  <2> QED BY <1>2, <1>6, <2>2
<1> QED
  BY <1>5, <1>6
----------------------------------------------------------------------------
(***************************************************************************)
(* Filling the buffer.                                                     *)
(***************************************************************************)
Overridden == \A t \in DOMAIN channelOverrides : channelOverrides[t] \in Channels

LEMMA ReadTokens ==
  ASSUME Overridden, NEW src \in Seq(Token)
  PROVE  Read(src) \in Seq(Token)
<1> DEFINE n == Len(src)
           more(k, x) == IF Discarded(src[k]) THEN x ELSE Append(x, Override(src[k]))
           next == [k \in 1 .. n |-> [x \in Seq(Token) |-> more(k, x)]]
           upTo == CHOOSE g : g = [k \in 0 .. n |-> IF k = 0 THEN <<>> ELSE more(k, g[k - 1])]
           G == {k \in 0 .. n : upTo[k] \in Seq(Token)}
<1>1. \A k \in 1 .. n : Override(src[k]) \in Token
  <2> TAKE k \in 1 .. n
  <2>1. src[k] \in Token
    OBVIOUS
  <2> QED BY <2>1 DEF Override, Overridden, Token
<1>2. n \in Nat /\ <<>> \in Seq(Token)
  OBVIOUS
<1>3. Read(src) = upTo[n]
  BY DEF Read
<1> HIDE DEF n
<1>4. \A k \in 1 .. n : \A x \in Seq(Token) : more(k, x) \in Seq(Token)
  BY <1>1
<1>5. next \in [1 .. n -> [Seq(Token) -> Seq(Token)]]
  BY <1>4
<1>6. \E g : g = [k \in 0 .. n |-> IF k = 0 THEN <<>> ELSE more(k, g[k - 1])]
  <2> HIDE DEF next, more
  <2>1. PICK f : Recursive(f, n, Seq(Token), <<>>, next)
    BY <1>2, <1>5, Recursion
  <2>2. \A k \in 0 .. n : k # 0 => k \in 1 .. n /\ k - 1 \in 0 .. n
    BY <1>2
  <2>3. \A k \in 1 .. n : f[k] = more(k, f[k - 1])
    <3> TAKE k \in 1 .. n
    <3>1. f[k - 1] \in Seq(Token) /\ k \in 1 .. n
      BY <1>2, <2>1 DEF Recursive
    <3> QED BY <2>1, <3>1 DEF next, Recursive
  <2> QED BY <2>1, <2>2, <2>3 DEF Recursive
<1>7. upTo = [k \in 0 .. n |-> IF k = 0 THEN <<>> ELSE more(k, upTo[k - 1])]
  BY <1>6
<1> HIDE DEF upTo, more, next
<1>8. 0 \in G
  BY <1>2, <1>7
<1>9. ASSUME NEW k \in 1 .. n, k - 1 \in G PROVE k \in G
  <2>1. k \in 0 .. n /\ k # 0
    BY <1>2
  <2>2. upTo[k] = more(k, upTo[k - 1])
    BY <1>7, <2>1
  <2> QED BY <1>4, <1>9, <2>1, <2>2
<1>10. G = 0 .. n
  <2> HIDE DEF G
  <2>1. G \in SUBSET (0 .. n)
    BY DEF G
  <2> QED BY <1>2, <1>8, <1>9, <2>1, StepByStep
<1> QED
  BY <1>2, <1>3, <1>10

LEMMA NothingToRead == Read(<<>>) = <<>>
<1> DEFINE more(k, x) == IF Discarded(<<>>[k]) THEN x ELSE Append(x, Override(<<>>[k]))
           upTo == CHOOSE g : g = [k \in 0 .. 0 |-> IF k = 0 THEN <<>> ELSE more(k, g[k - 1])]
<1>1. Read(<<>>) = upTo[0]
  <2>1. Len(<<>>) = 0
    OBVIOUS
  <2> QED BY <2>1 DEF Read
<1> HIDE DEF more
<1>2. \E g : g = [k \in 0 .. 0 |-> IF k = 0 THEN <<>> ELSE more(k, g[k - 1])]
  <2> DEFINE f == [k \in 0 .. 0 |-> <<>>]
  <2>1. f = [k \in 0 .. 0 |-> IF k = 0 THEN <<>> ELSE more(k, f[k - 1])]
    OBVIOUS
  <2> HIDE DEF f
  <2> QED BY <2>1
<1>3. upTo = [k \in 0 .. 0 |-> IF k = 0 THEN <<>> ELSE more(k, upTo[k - 1])]
  BY <1>2
<1> HIDE DEF upTo
<1> QED
  BY <1>1, <1>3

\* All tokens are taken.
LEMMA TakenAtOnce ==
  ASSUME ~ OwningRule, NEW src
  PROVE  Taken(src) = Len(src)
BY DEF Taken

LEMMA FullIsOnPlace ==
  ASSUME NEW toks, NEW i \in Nat, Len(toks) \in Nat, i <= Len(toks)
  PROVE  OnPlace(toks, skipOffTokenChannels(toks, Len(toks), i))
BY SkipForwards DEF OnPlace

\* Filling a buffer that has everything changes nothing.
LEMMA FilledTwice ==
  ASSUME ~ OwningRule, NEW toks \in Seq(Token), NEW i, OnPlace(toks, i)
  PROVE  fillBuffer(Full(toks, i)) = Full(toks, i)
<1> DEFINE b == Full(toks, i)
           n == Len(toks)
<1>1. /\ b.source = <<>> /\ b.tokens = toks /\ b.p = i /\ b.nissued = n
  BY DEF Full
<1>2. n \in Nat /\ i \in 0 .. n /\ (i < n => toks[i + 1].channel = m_channel)
  BY DEF OnPlace
<1>3. Taken(b.source) = 0 /\ SubSeq(b.source, 1, 0) = <<>> /\ SubSeq(b.source, 0 + 1, Len(b.source)) = <<>>
  <2>1. Len(<<>>) = 0
    OBVIOUS
  <2>2. Taken(b.source) = 0
    BY <1>1, <2>1, TakenAtOnce
  <2>3. SubSeq(<<>>, 1, 0) = <<>> /\ SubSeq(<<>>, 0 + 1, 0) = <<>>
    BY SubSeqEmpty
  <2> QED BY <1>1, <2>1, <2>2, <2>3
<1>4. b.tokens \o Read(<<>>) = toks /\ b.nissued + Len(Read(<<>>)) = n
  BY <1>1, <1>2, NothingToRead, ConcatEmptySeq
<1>5. skipOffTokenChannels(toks, n, IF b.p < 0 THEN 0 ELSE b.p) = i
  <2>1. (IF b.p < 0 THEN 0 ELSE b.p) = i
    BY <1>1, <1>2
  <2>2. CASE i >= n
    BY <2>1, <2>2 DEF skipOffTokenChannels
  <2>3. CASE ~ (i >= n)
    <3> DEFINE x == skipOffTokenChannels(toks, n, i)
    <3>1. x \in Nat /\ i <= x /\ \A j \in Visible(toks, i + 1, n) : x + 1 <= j
      BY <1>2, SkipForwards
    <3>2. i + 1 \in Visible(toks, i + 1, n)
      BY <1>2, <2>3 DEF Visible
    <3> HIDE DEF x
    <3>3. x = i
      BY <1>2, <3>1, <3>2
    <3> QED BY <2>1, <3>3 DEF x
  <2> QED BY <2>2, <2>3
<1> HIDE DEF b
<1> QED
  BY <1>1, <1>3, <1>4, <1>5 DEF fillBuffer, Full, b

\* What a lookahead works on.
FilledBuffer == IF p = -1 THEN fillBuffer(Buffer) ELSE Buffer

LEMMA BufferIsFilled ==
  ASSUME ~ OwningRule, TokenInvariant
  PROVE  \E toks \in Seq(Token) : \E i :
           /\ OnPlace(toks, i) /\ FilledBuffer = Full(toks, i)
           /\ p # -1 => i = p /\ toks = tokens
<1>1. CASE p = -1
  <2> DEFINE n == Len(source)
             toks == Read(source)
             i == skipOffTokenChannels(toks, Len(toks), 0)
  <2>1. source \in Seq(Token) /\ Overridden /\ tokens = <<>> /\ nissued = 0 /\ cachedSize = 0
    BY <1>1 DEF TokenInvariant, TokensAreThere, Token, Overridden
  <2>2. toks \in Seq(Token) /\ Len(toks) \in Nat
    BY <2>1, ReadTokens
  <2>3. OnPlace(toks, i)
    <3> HIDE DEF toks
    <3>1. 0 \in Nat /\ 0 <= Len(toks)
      BY <2>2
    <3> QED BY <2>2, <3>1, FullIsOnPlace
  <2>4. Taken(source) = n /\ SubSeq(source, 1, n) = source /\ SubSeq(source, n + 1, n) = <<>>
    <3>1. n \in Nat
      BY <2>1
    <3>2. SubSeq(source, n + 1, n) = <<>>
      BY <3>1, SubSeqEmpty
    <3> QED BY <2>1, <3>2, TakenAtOnce, SubSeqFull
  <2>5. tokens \o toks = toks /\ nissued + Len(toks) = Len(toks)
    <3> HIDE DEF toks
    <3> QED BY <2>1, <2>2, ConcatEmptySeq
  <2>6. /\ Buffer.source = source /\ Buffer.tokens = tokens /\ Buffer.p = -1
        /\ Buffer.nissued = nissued
    BY <1>1 DEF Buffer
  <2>7. (IF Buffer.p < 0 THEN 0 ELSE Buffer.p) = 0
    BY <2>6
  <2>8. fillBuffer(Buffer) = Full(toks, i)
    BY <2>4, <2>5, <2>6, <2>7 DEF fillBuffer, Full
  <2> HIDE DEF toks, i
  <2> QED BY <1>1, <2>2, <2>3, <2>8 DEF FilledBuffer
<1>2. CASE p # -1
  <2>1. /\ source = <<>> /\ tokens \in Seq(Token) /\ OnPlace(tokens, p)
        /\ cachedSize = Len(tokens) /\ nissued = Len(tokens)
    BY <1>2 DEF TokenInvariant, TokensAreThere, Token
  <2>2. FilledBuffer = Full(tokens, p)
    BY <1>2, <2>1 DEF FilledBuffer, Buffer, Full
  <2> QED BY <2>1, <2>2
<1> QED
  BY <1>1, <1>2

LEMMA FilledIsFull ==
  ASSUME ~ OwningRule, TokenInvariant, NEW index, NEW toks \in Seq(Token), NEW i,
         OnPlace(toks, i), FilledBuffer = Full(toks, i)
  PROVE  Filled(Buffer, index) = Full(toks, i)
<1>1. Buffer.p = p
  BY DEF Buffer
<1>2. CASE p = -1
  BY <1>1, <1>2 DEF Filled, FilledBuffer
<1>3. CASE p # -1
  BY <1>1, <1>3, FilledTwice DEF Filled, FilledBuffer
<1> QED
  BY <1>2, <1>3
----------------------------------------------------------------------------
(***************************************************************************)
(* Looking ahead and back.                                                 *)
(***************************************************************************)
LEMMA LooksAhead ==
  ASSUME ~ OwningRule, TokenInvariant, NEW k \in Nat, k > 0, NEW toks \in Seq(Token), NEW i,
         OnPlace(toks, i), FilledBuffer = Full(toks, i), p # -1 => i = p
  PROVE  LT(k).buf = Full(toks, i) /\ LT(k).tok = Nth(toks, i, k)
<1> DEFINE b == Full(toks, i)
           n == Len(toks)
           req_idx == p + k - 1
           a == Ahead(b, i, k - 1)
           c == IF a >= n /\ n % Increment = 0 THEN fillBuffer(b) ELSE b
<1>1. n \in Nat /\ i \in Nat /\ i <= n /\ p \in Int /\ k - 1 \in Nat
  <2>1. p = -1 \/ p = i
    OBVIOUS
  <2> QED BY <2>1 DEF OnPlace
<1>2. b.tokens = toks /\ b.p = i /\ b.cachedSize = n
  BY DEF Full
<1>3. Filled(Buffer, req_idx) = b
  BY FilledIsFull
<1>4. Reaches(toks, i, a, k - 1)
  <2> HIDE DEF b
  <2> QED BY <1>1, <1>2, AheadReaches
<1>5. c = b
  BY FilledTwice
<1> HIDE DEF b
<1>6. LT(k) = IF req_idx >= n THEN [buf |-> b, tok |-> EOFToken]
              ELSE IF a >= n THEN [buf |-> b, tok |-> EOFToken]
              ELSE [buf |-> b, tok |-> toks[a + 1]]
  BY <1>2, <1>3, <1>5 DEF LT
<1> HIDE DEF a, c
<1>7. Nth(toks, i, k) = IF a < n THEN toks[a + 1] ELSE EOFToken
  BY <1>1, <1>4, NthAhead
<1>8. a \in Nat
  BY <1>4 DEF Reaches
<1>9. req_idx >= n => a >= n
  <2> SUFFICES ASSUME req_idx >= n, a < n PROVE FALSE
    BY <1>1, <1>8
  <2> DEFINE U == {x \in Visible(toks, i + 1, n) : x <= a + 1}
  <2>1. Cardinality(U) = k - 1 + 1
    BY <1>4 DEF Reaches
  <2>2. U \in SUBSET Visible(toks, i + 1, n) /\ i + 1 \in Int /\ n \in Int
    BY <1>1
  <2> HIDE DEF U
  <2>3. Cardinality(U) <= IF i + 1 > n THEN 0 ELSE n - (i + 1) + 1
    BY <2>2, VisibleAreFinite
  <2>4. n - i < k
    <3>1. p = -1 \/ p = i
      OBVIOUS
    <3> QED BY <1>1, <3>1
  <2> QED BY <1>1, <2>1, <2>3, <2>4
<1>10. CASE a >= n
  <2>1. ~ (a < n)
    BY <1>1, <1>8, <1>10
  <2> QED BY <1>6, <1>7, <1>10, <2>1 DEF b
<1>11. CASE ~ (a >= n)
  <2>1. a < n /\ ~ (req_idx >= n)
    BY <1>1, <1>8, <1>9, <1>11
  <2> QED BY <1>6, <1>7, <1>11, <2>1 DEF b
<1> QED
  BY <1>10, <1>11

LEMMA LooksBack ==
  ASSUME ~ OwningRule, TokenInvariant, NEW k \in Nat, k > 0, NEW toks \in Seq(Token), NEW i,
         OnPlace(toks, i), FilledBuffer = Full(toks, i)
  PROVE  LB(k).buf = Full(toks, i) /\ LB(k).tok = Nth(toks, i, -k)
<1> DEFINE b == Full(toks, i)
           a == Behind(b, i, k)
<1>1. i \in Nat
  BY DEF OnPlace
<1>2. b.tokens = toks /\ b.p = i
  BY DEF Full
<1>3. ReachesBack(toks, i, a, k)
  <2> HIDE DEF b
  <2> QED BY <1>1, <1>2, BehindReaches
<1> HIDE DEF b
<1>4. LB(k) = IF i - k < 0 \/ a < 0 THEN [buf |-> b, tok |-> NoToken]
              ELSE [buf |-> b, tok |-> toks[a + 1]]
  BY <1>2 DEF LB, FilledBuffer, b
<1> HIDE DEF a
<1>5. Nth(toks, i, -k) = IF a >= 0 THEN toks[a + 1] ELSE NoToken
  BY <1>1, <1>3, NthBehind
<1>6. a \in Int
  BY <1>3 DEF ReachesBack
<1>7. i - k < 0 => a < 0
  <2> SUFFICES ASSUME i - k < 0, a >= 0 PROVE FALSE
    BY <1>1, <1>6
  <2> DEFINE U == {x \in Visible(toks, 1, i) : a + 1 <= x}
  <2>1. Cardinality(U) = k
    BY <1>3 DEF ReachesBack
  <2>2. U \in SUBSET Visible(toks, 1, i) /\ 1 \in Int /\ i \in Int
    BY <1>1
  <2> HIDE DEF U
  <2>3. Cardinality(U) <= IF 1 > i THEN 0 ELSE i - 1 + 1
    BY <2>2, VisibleAreFinite
  <2> QED BY <1>1, <2>1, <2>3
<1>8. CASE a >= 0
  <2>1. ~ (i - k < 0 \/ a < 0)
    BY <1>1, <1>6, <1>7, <1>8
  <2> QED BY <1>4, <1>5, <1>8, <2>1 DEF b
<1>9. CASE ~ (a >= 0)
  <2>1. a < 0
    BY <1>6, <1>9
  <2> QED BY <1>4, <1>5, <1>9, <2>1 DEF b
<1> QED
  BY <1>8, <1>9

\* Look gives the same result from either side.
LEMMA LooksRight ==
  ASSUME ~ OwningRule, TokenInvariant, NEW k \in Int, k # 0, Look(k)
  PROVE  \E toks \in Seq(Token) : \E i :
           /\ OnPlace(toks, i) /\ SetBuffer(Full(toks, i))
           /\ looked' = [k |-> k, tok |-> Nth(toks, i, k)]
           /\ p # -1 => i = p /\ toks = tokens
<1>1. PICK toks \in Seq(Token) : \E i :
        /\ OnPlace(toks, i) /\ FilledBuffer = Full(toks, i)
        /\ p # -1 => i = p /\ toks = tokens
  BY BufferIsFilled
<1>2. PICK i : /\ OnPlace(toks, i) /\ FilledBuffer = Full(toks, i)
               /\ p # -1 => i = p /\ toks = tokens
  BY <1>1
<1> DEFINE result == IF k < 0 THEN LB(-k) ELSE LT(k)
<1>3. result.buf = Full(toks, i) /\ result.tok = Nth(toks, i, k)
  <2>1. CASE k < 0
    <3>1. -k \in Nat /\ -k > 0 /\ -(-k) = k
      BY <2>1
    <3>2. LB(-k).buf = Full(toks, i) /\ LB(-k).tok = Nth(toks, i, -(-k))
      BY <1>2, <3>1, LooksBack
    <3> QED BY <2>1, <3>1, <3>2
  <2>2. CASE ~ (k < 0)
    <3>1. k \in Nat /\ k > 0
      BY <2>2
    <3>2. LT(k).buf = Full(toks, i) /\ LT(k).tok = Nth(toks, i, k)
      BY <1>2, <3>1, LooksAhead
    <3> QED BY <2>2, <3>2
  <2> QED BY <2>1, <2>2
<1>4. SetBuffer(result.buf) /\ looked' = [k |-> k, tok |-> result.tok]
  BY DEF Look
<1> HIDE DEF result
<1>5. SetBuffer(Full(toks, i)) /\ looked' = [k |-> k, tok |-> Nth(toks, i, k)]
  BY <1>3, <1>4
<1> QED
  BY <1>2, <1>5

\* The token expected at a cursor, by what is in the buffer.
LEMMA ExpectedIsNth ==
  ASSUME NEW k \in Int
  PROVE  Expected(k) = Nth(AllTokens, p, k)
BY DEF Expected, OnChannel, Nth, Visible

LEMMA AllAreRead ==
  source = <<>> /\ tokens \in Seq(Token) => AllTokens = tokens
<1> SUFFICES ASSUME source = <<>>, tokens \in Seq(Token) PROVE AllTokens = tokens
  OBVIOUS
<1>1. Read(source) = <<>>
  BY NothingToRead
<1> QED
  BY <1>1, ConcatEmptySeq DEF AllTokens
----------------------------------------------------------------------------
(***************************************************************************)
(* The invariant.                                                          *)
(***************************************************************************)
LEMMA NothingIsRead ==
  ASSUME TokenStreamAssumption, TokensInit
  PROVE  TokenInvariant
<1>1. source \in Seq([type : Types, channel : Channels])
  <2>1. PICK n \in 0 .. MaxTokens : source \in [1 .. n -> [type : Types, channel : Channels]]
    BY DEF TokensInit
  <2>2. n \in Nat
    BY <2>1 DEF TokenStreamAssumption
  <2> DEFINE T == [type : Types, channel : Channels]
  <2>3. source \in UNION {[1 .. k -> T] : k \in Nat}
    BY <2>1, <2>2
  <2> HIDE DEF T
  <2>4. Seq(T) = UNION {[1 .. k -> T] : k \in Nat}
    BY SeqDef
  <2>5. source \in Seq(T)
    BY <2>3, <2>4
  <2> QED BY <2>5 DEF T
<1>2. tokens = <<>> /\ Len(tokens) = 0
  BY DEF TokensInit
<1>3. DOMAIN channelOverrides = {}
  BY DEF TokensInit
<1> QED
  BY <1>1, <1>2, <1>3 DEF TokensInit, TokenInvariant, TokensAreThere, LookaheadIsRight

\* What a filter changes is not in the invariant, before the first token.
LEMMA FilterStep ==
  ASSUME TokenInvariant, p = -1, UNCHANGED <<buffer, p, lastMarker, looked>>,
         \A t \in DOMAIN channelOverrides' : channelOverrides'[t] \in Channels
  PROVE  TokenInvariant'
<1>1. /\ source' = source /\ tokens' = tokens /\ cachedSize' = cachedSize /\ nissued' = nissued
      /\ p' = -1 /\ lastMarker' = lastMarker /\ looked' = looked
  BY DEF buffer
<1>2. looked = <<>>
  BY DEF TokenInvariant, TokensAreThere
<1> QED
  BY <1>1, <1>2 DEF TokenInvariant, TokensAreThere, LookaheadIsRight

\* A cursor and a mark that stay at visible tokens, in a full buffer.
LEMMA MoveStep ==
  ASSUME TokenInvariant, p # -1, UNCHANGED <<buffer, config>>,
         OnPlace(tokens, p'), looked' = <<>> \/ UNCHANGED <<p, looked>>,
         lastMarker' = lastMarker \/ OnPlace(tokens, lastMarker')
  PROVE  TokenInvariant'
<1>1. /\ source' = source /\ tokens' = tokens /\ cachedSize' = cachedSize /\ nissued' = nissued
      /\ channelOverrides' = channelOverrides
  BY DEF buffer, config
<1>2. source = <<>> /\ tokens \in Seq(Token)
  BY DEF TokenInvariant, TokensAreThere, Token
<1>3. p' # -1
  BY DEF OnPlace
<1>4. TokensAreThere'
  BY <1>1, <1>3 DEF TokenInvariant, TokensAreThere, OnPlace, NoMark
<1>5. LookaheadIsRight'
  <2>1. CASE looked' = <<>>
    BY <2>1 DEF LookaheadIsRight
  <2>2. CASE UNCHANGED <<p, looked>>
    <3>1. (source = <<>> /\ tokens \in Seq(Token) => AllTokens = tokens)'
      BY AllAreRead, PTL
    <3>2. AllTokens' = AllTokens
      BY <1>1, <1>2, <3>1, AllAreRead DEF Token
    <3>3. \A k : Expected(k)' = Expected(k)
      BY <2>2, <3>2 DEF Expected, OnChannel
    <3> QED BY <2>2, <3>3 DEF TokenInvariant, LookaheadIsRight
  <2> QED BY <2>1, <2>2
<1> QED
  BY <1>4, <1>5 DEF TokenInvariant

\* A lookahead reads everything and stays at its place.
LEMMA LookStep ==
  ASSUME ~ OwningRule, TokenInvariant, NEW k \in Int, k # 0, Look(k)
  PROVE  TokenInvariant'
<1>1. PICK toks \in Seq(Token) : \E i :
        /\ OnPlace(toks, i) /\ SetBuffer(Full(toks, i))
        /\ looked' = [k |-> k, tok |-> Nth(toks, i, k)]
        /\ p # -1 => i = p /\ toks = tokens
  BY LooksRight
<1>2. PICK i : /\ OnPlace(toks, i) /\ SetBuffer(Full(toks, i))
               /\ looked' = [k |-> k, tok |-> Nth(toks, i, k)]
               /\ p # -1 => i = p /\ toks = tokens
  BY <1>1
<1>3. /\ source' = <<>> /\ tokens' = toks /\ p' = i
      /\ cachedSize' = Len(toks) /\ nissued' = Len(toks)
  BY <1>2 DEF SetBuffer, Full
<1>4. channelOverrides' = channelOverrides /\ lastMarker' = lastMarker
  BY DEF Look, config
<1>5. i # -1
  BY <1>2 DEF OnPlace
<1>6. lastMarker = NoMark \/ OnPlace(toks, lastMarker)
  BY <1>2 DEF TokenInvariant, TokensAreThere
<1>7. TokensAreThere'
  <2>1. source' \in Seq([type : Types, channel : Channels])
    BY <1>3
  <2>2. (\A t \in DOMAIN channelOverrides : channelOverrides[t] \in Channels)'
    BY <1>4 DEF TokenInvariant, TokensAreThere
  <2>3. tokens' \in Seq([type : Types, channel : Channels])
    BY <1>3 DEF Token
  <2>4. OnPlace(tokens', p') /\ (lastMarker' = NoMark \/ OnPlace(tokens', lastMarker'))
    BY <1>2, <1>3, <1>4, <1>6
  <2> QED BY <1>3, <1>5, <2>1, <2>2, <2>3, <2>4 DEF TokensAreThere, OnPlace
<1>8. LookaheadIsRight'
  <2>1. (source = <<>> /\ tokens \in Seq(Token) => AllTokens = tokens)'
    BY AllAreRead, PTL
  <2>2. AllTokens' = toks
    BY <1>3, <2>1 DEF Token
  <2>3. Expected(k)' = Nth(AllTokens', p', k)
    BY DEF Expected, OnChannel, Nth, Visible
  <2>4. looked'.k = k /\ looked'.tok = Expected(k)'
    BY <1>2, <1>3, <2>2, <2>3
  <2> QED BY <2>4 DEF LookaheadIsRight
<1> QED
  BY <1>7, <1>8 DEF TokenInvariant

LEMMA LookaheadConsumeStep ==
  ASSUME TokenInvariant, ConsumeToken
  PROVE  TokenInvariant'
<1>1. p \in Nat /\ p <= Len(tokens) /\ Len(tokens) \in Nat /\ cachedSize = Len(tokens)
  BY DEF TokenInvariant, TokensAreThere, OnPlace, ConsumeToken
<1>2. OnPlace(tokens, p')
  <2>1. CASE p < cachedSize
    <3>1. p + 1 \in Nat /\ p + 1 <= Len(tokens)
      BY <1>1, <2>1
    <3>2. p' = skipOffTokenChannels(tokens, Len(tokens), p + 1)
      BY <1>1, <2>1 DEF ConsumeToken
    <3> QED BY <1>1, <3>1, <3>2, FullIsOnPlace
  <2>2. CASE ~ (p < cachedSize)
    BY <1>1, <2>2 DEF ConsumeToken, TokenInvariant, TokensAreThere
  <2> QED BY <2>1, <2>2
<1> QED
  BY <1>1, <1>2, MoveStep DEF ConsumeToken

LEMMA LookaheadMarkStep ==
  ASSUME TokenInvariant, MarkToken
  PROVE  TokenInvariant'
<1>1. p # -1 /\ OnPlace(tokens, p)
  BY DEF TokenInvariant, TokensAreThere, MarkToken
<1> QED
  BY <1>1, MoveStep DEF MarkToken, buffer, config

LEMMA LookaheadRewindStep ==
  ASSUME TokenInvariant, RewindLast
  PROVE  TokenInvariant'
<1>1. p # -1 /\ OnPlace(tokens, lastMarker)
  BY DEF TokenInvariant, TokensAreThere, RewindLast
<1> QED
  BY <1>1, MoveStep DEF RewindLast

\* One case for every operation; a step that changes nothing is like a mark at the mark.
LEMMA EveryStep ==
  ASSUME TokenStreamAssumption, ~ OwningRule, TokenInvariant, [TokensNext]_stream
  PROVE  TokenInvariant'
<1>1. ASSUME NEW t \in Types, NEW c \in Channels, SetTokenTypeChannel(t, c)
      PROVE  TokenInvariant'
  <2>1. \A s \in DOMAIN channelOverrides' : channelOverrides'[s] \in Channels
    BY <1>1 DEF SetTokenTypeChannel, TokenInvariant, TokensAreThere
  <2> QED BY <1>1, <2>1, FilterStep DEF SetTokenTypeChannel
<1>2. ASSUME NEW t \in Types, DiscardTokenType(t)
      PROVE  TokenInvariant'
  BY <1>2, FilterStep DEF DiscardTokenType, TokenInvariant, TokensAreThere
<1>3. CASE DiscardOffChannelToks
  BY <1>3, FilterStep DEF DiscardOffChannelToks, TokenInvariant, TokensAreThere
<1>4. ASSUME NEW k \in (- MaxLook) .. MaxLook, k # 0, Look(k)
      PROVE  TokenInvariant'
  <2>1. k \in Int
    BY <1>4 DEF TokenStreamAssumption
  <2> QED BY <1>4, <2>1, LookStep
<1>5. CASE UNCHANGED stream
  <2>1. UNCHANGED <<buffer, p, config, lastMarker, looked>>
    BY <1>5 DEF stream
  <2>2. CASE p = -1
    <3>1. channelOverrides' = channelOverrides
      BY <2>1 DEF config
    <3> QED BY <2>1, <2>2, <3>1, FilterStep DEF TokenInvariant, TokensAreThere
  <2>3. CASE p # -1
    BY <2>1, <2>3, MoveStep DEF TokenInvariant, TokensAreThere
  <2> QED BY <2>2, <2>3
<1> QED
  BY <1>1, <1>2, <1>3, <1>4, <1>5, LookaheadConsumeStep, LookaheadMarkStep, LookaheadRewindStep DEF TokensNext

\* A lookahead gives the token that the visible tokens alone would give, however many
\* are hidden, discarded or moved to another channel, and however far it looks, when the
\* buffer is filled at once (antlr3tokenstream.inl:390-501).
THEOREM LookaheadIsAlwaysRight ==
  ASSUME TokenStreamAssumption, ~ OwningRule
  PROVE  TokensSpec => []TokenInvariant /\ []LookaheadIsRight
<1>1. TokensInit => TokenInvariant
  BY NothingIsRead
<1>2. TokenInvariant /\ [TokensNext]_stream => TokenInvariant'
  BY EveryStep
<1>3. TokenInvariant => LookaheadIsRight
  BY DEF TokenInvariant
<1> QED
  BY <1>1, <1>2, <1>3, PTL DEF TokensSpec
=============================================================================

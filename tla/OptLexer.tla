------------------------------ MODULE OptLexer ------------------------------
(***************************************************************************)
(* The lexer of one line of an optimization file: nextTokenStr of the       *)
(* runtime (opt_grammar/antlr/antlr3tokenstream.inl:47-136), the matching   *)
(* members of Lexer (antlr3lexer.inl) and the tokens of OptFileGrammar.g.   *)
(*                                                                         *)
(* Characters by what the tokens tell apart: a letter or underscore "L", a  *)
(* digit "D", the five letters of const "K", a character of no token "?",   *)
(* and the others themselves.                                               *)
(***************************************************************************)
EXTENDS Integers, SequencesExt

VARIABLES
  text,           \* the line
  pos,            \* characters read
  lexed,          \* the tokens given, with the positions they start and stop at
  error_in_lexer

lexer == <<text, pos, lexed, error_in_lexer>>

IdChars == {"L", "K", "D"}
Marks   == {"=", "[", "]", ":", ".", "+", "-"}
Chars   == IdChars \cup Marks \cup {" ", "'", "/", "?"}

Char(i) == IF i < Len(text) THEN text[i + 1] ELSE "EOF"

\* Where a run of such characters that starts at i ends.
RunEnd(i, chars) ==
  LET ends == {j \in i .. Len(text) : Char(j) \notin chars}
  IN  CHOOSE j \in ends : \A k \in ends : j <= k

Token(type, stop) == [type |-> type, stop |-> stop, error |-> FALSE]
Failed(stop)      == [type |-> "none", stop |-> stop, error |-> TRUE]

\* consume() at the end of the line stays there.
Past(i) == IF i < Len(text) THEN i + 1 ELSE i

\* A word is const only if the identifier does not go on.
Word(i) ==
  LET end == RunEnd(i, IdChars)
  IN  Token(IF Char(i) = "K" /\ end = i + 1 THEN "const" ELSE "Id", end)

\* After the point there must be a digit, even if it is a point of something else.
Number(i) ==
  LET end == RunEnd(i, {"D"})
  IN  CASE Char(end) # "." -> Token("Num", end)
        [] Char(end) = "." /\ Char(end + 1) = "D" -> Token("Num", RunEnd(end + 1, {"D"}))
        [] OTHER -> Failed(end + 1)

\* The quote that is missing at the end of the line is recovered from there.
String(i) ==
  LET end == RunEnd(i + 1, Chars \ {"'"})
  IN  IF Char(end) = "'" THEN Token("Str", end + 1) ELSE Failed(Past(end))

\* matchs("//") recovers by passing over the character that does not match.
Slashes(i) == IF Char(i + 1) = "/" THEN Token("//", i + 2) ELSE Failed(Past(i + 1))

mTokens(i) ==
  CASE Char(i) \in {"L", "K"} -> Word(i)
    [] Char(i) = "D"      -> Number(i)
    [] Char(i) = " "      -> Token("WS", i + 1)
    [] Char(i) = "'"      -> String(i)
    [] Char(i) = "/"      -> Slashes(i)
    [] Char(i) \in Marks  -> Token(Char(i), i + 1)
    [] OTHER              -> Failed(i)

LexInit(line) ==
  /\ text = line
  /\ pos = 0
  /\ lexed = <<>>
  /\ error_in_lexer = FALSE

AtEOF == pos = Len(text)

\* Mutant: a token that failed is not recovered from any further.
EmitFailed(t) ==
  /\ lexed' = Append(lexed, [type |-> t.type, start |-> pos, stop |-> t.stop])
  /\ pos' = IF t.error THEN Past(t.stop) ELSE t.stop
  /\ UNCHANGED error_in_lexer

\* Mutant: the error is reported and nothing passed over.
EmitInPlace(t) ==
  /\ lexed' = IF t.error THEN lexed ELSE Append(lexed, [type |-> t.type, start |-> pos, stop |-> t.stop])
  /\ pos' = t.stop
  /\ error_in_lexer' = (error_in_lexer \/ t.error)

\* The token is emitted; or the error reported and one more character passed over.
Emit(t) ==
  IF t.error THEN error_in_lexer' = TRUE /\ pos' = Past(t.stop) /\ UNCHANGED lexed
  ELSE /\ lexed' = Append(lexed, [type |-> t.type, start |-> pos, stop |-> t.stop])
       /\ pos' = t.stop
       /\ UNCHANGED error_in_lexer

nextTokenStr ==
  /\ ~ AtEOF
  /\ Emit(mTokens(pos))
  /\ UNCHANGED text
----------------------------------------------------------------------------
(* The tokens by their definition in the grammar. *)
All(i, j, chars) == \A k \in i .. j - 1 : Char(k) \in chars

IsNumber(i, j) ==
  \/ i < j /\ All(i, j, {"D"})
  \/ \E k \in i + 1 .. j - 2 : All(i, k, {"D"}) /\ Char(k) = "." /\ All(k + 1, j, {"D"})

IsToken(type, i, j) ==
  CASE type = "const" -> j = i + 1 /\ Char(i) = "K"
    [] type = "Id"    -> i < j /\ Char(i) \in {"L", "K"} /\ All(i, j, IdChars)
    [] type = "Num"   -> IsNumber(i, j)
    [] type = "Str"   -> i + 1 < j /\ Char(i) = "'" /\ Char(j - 1) = "'" /\ All(i + 1, j - 1, Chars \ {"'"})
    [] type = "//"    -> j = i + 2 /\ All(i, j, {"/"})
    [] type = "WS"    -> j = i + 1 /\ Char(i) = " "
    [] type \in Marks -> j = i + 1 /\ Char(i) = type
    [] OTHER          -> FALSE

LexTypes == Marks \cup {"const", "Id", "Num", "Str", "//", "WS"}

Longest(type, i, j) ==
  /\ IsToken(type, i, j)
  /\ \A k \in j + 1 .. Len(text), t \in LexTypes : ~ IsToken(t, i, k)

\* Where the longest matches from the start of the line get to.
RECURSIVE Reach(_)
Reach(i) ==
  LET next == {j \in i + 1 .. Len(text) : \E t \in LexTypes : Longest(t, i, j)}
  IN  IF next = {} THEN i ELSE Reach(CHOOSE j \in next : TRUE)

\* A point that ends a number with no digit behind it.
BarePoint == \E i \in 1 .. Len(text) - 1 : Char(i - 1) = "D" /\ Char(i) = "." /\ Char(i + 1) # "D"

\* A line without an error is cut into longest matches of the grammar's tokens,
\* nothing left out; an error means it cannot be, or that a point is taken for
\* the one of a number (OptFileGrammar.g:161-197, 392-400).
LexedByLongestMatch ==
  /\ ~ error_in_lexer =>
       /\ \A k \in DOMAIN lexed :
            /\ Longest(lexed[k].type, lexed[k].start, lexed[k].stop)
            /\ lexed[k].start = IF k = 1 THEN 0 ELSE lexed[k - 1].stop
       /\ pos = IF lexed = <<>> THEN 0 ELSE Last(lexed).stop
  /\ error_in_lexer => Reach(0) < Len(text) \/ BarePoint
=============================================================================

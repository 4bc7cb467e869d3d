----------------------------- MODULE Recognizer -----------------------------
(***************************************************************************)
(* What the generated parser calls: matching, reporting and recovering of   *)
(* BaseRecognizer and Parser (opt_grammar/antlr/antlr3baserecognizer.inl,   *)
(* antlr3parser.inl, antlr3exception.inl, antlr3recognizersharedstate.inl). *)
(*                                                                         *)
(* A recognizer is a record; each operation gives the record it leaves.     *)
(* The tokens are types in a sequence; white space is on the channel of the *)
(* parser, so that nothing is passed over.  Follow sets are sets of types;  *)
(* they hold EOR where a rule may end, and never the type of end of file,   *)
(* which their bits do not reach.                                           *)
(***************************************************************************)
EXTENDS Integers, SequencesExt

EOR == "EOR"
EOF == "EOF"

\* RecognizerSharedState, with the tokens and the cursor p of the token stream;
\* error is an exception nobody has dealt with yet, error_in_parser what the
\* parser's displayRecognitionError notes, nullToken that a token was taken
\* where there is none.
Fresh(tokens) ==
  [tokens |-> tokens, p |-> 0, error |-> FALSE, errorRecovery |-> FALSE, lastErrorIndex |-> -1,
   following |-> <<>>, error_in_parser |-> FALSE, nullToken |-> FALSE]

LA(r, k) == IF r.p + k <= Len(r.tokens) THEN r.tokens[r.p + k] ELSE EOF

consume(r) == IF r.p < Len(r.tokens) THEN [r EXCEPT !.p = @ + 1] ELSE r

\* Mutant: errors are reported when none was reported yet, and not when none is
\* being recovered from.
ReportNested(r) ==
  IF r.errorRecovery THEN [r EXCEPT !.error_in_parser = TRUE] ELSE [r EXCEPT !.errorRecovery = TRUE]

\* One report until a token is matched again.
reportError(r) ==
  IF r.errorRecovery THEN r
                     ELSE [r EXCEPT !.errorRecovery = TRUE, !.error_in_parser = TRUE]

\* Every rule being parsed adds what may follow it, whether the inner ones can
\* end or not: both callers pass exact = false.
combineFollows(r) == UNION Range(r.following)

mismatchIsUnwantedToken(r, ttype) == LA(r, 2) = ttype

mismatchIsMissingToken(r, follow) ==
  LET viable == IF EOR \in follow THEN (follow \ {EOR}) \cup combineFollows(r) ELSE follow
  IN  LA(r, 1) \in viable \/ EOR \in viable

\* The text of a missing token is made from the current one, at the end of the
\* line from the one before it.
getMissingSymbol(r) == [r EXCEPT !.nullToken = @ \/ (LA(r, 1) = EOF /\ r.p = 0)]

Threw(r) == [r EXCEPT !.error = TRUE]

recoverFromMismatchedToken(r, ttype, follow) ==
  CASE mismatchIsUnwantedToken(r, ttype) -> consume(reportError(consume(r)))
    [] ~ mismatchIsUnwantedToken(r, ttype) /\ mismatchIsMissingToken(r, follow) ->
         reportError(getMissingSymbol(r))
    [] OTHER -> Threw(r)

Matched(r) == [consume(r) EXCEPT !.errorRecovery = FALSE]

match(r, ttype, follow) ==
  IF LA(r, 1) = ttype THEN Matched(r) ELSE recoverFromMismatchedToken(r, ttype, follow)

matchSet(r, types) == IF LA(r, 1) \in types THEN Matched(r) ELSE Threw(r)

\* The first index from p on with a type in the set, or the end of the line.
Stop(r, types) ==
  LET stops == {j \in r.p .. Len(r.tokens) - 1 : r.tokens[j + 1] \in types}
  IN  IF stops = {} THEN Len(r.tokens) ELSE CHOOSE j \in stops : \A k \in stops : j <= k

consumeUntilSet(r, types) == [r EXCEPT !.p = Stop(r, types)]

\* An error where the last one was takes a token, so that recovery gets on.
recover(r) ==
  LET past == IF r.lastErrorIndex = r.p THEN consume(r) ELSE r
      noted == [past EXCEPT !.lastErrorIndex = past.p]
  IN  [consumeUntilSet(noted, combineFollows(r)) EXCEPT !.error = FALSE]

followPush(r, follow) == [r EXCEPT !.following = Append(@, follow)]
followPop(r) == [r EXCEPT !.following = Front(@)]
=============================================================================

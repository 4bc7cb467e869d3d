------------------------------ MODULE OptFile ------------------------------
(***************************************************************************)
(* One turn of the loop of readOptimizationFile (src/quic.cpp:65-122): a    *)
(* line is lexed when the parser first looks ahead, parsed, and what it     *)
(* assigns is kept unless either of them has met an error.                  *)
(***************************************************************************)
EXTENDS OptParser

CONSTANT Lines    \* the lines, sequences of characters

VARIABLES
  pc,
  text, pos, lexed, error_in_lexer,
  optParams         \* the assignments kept

L == INSTANCE OptLexer

LinesAssumption == \A line \in Lines : Range(line) \subseteq L!Chars

lexer == <<text, pos, lexed, error_in_lexer>>

all == <<pc, lexer, vars, optParams>>

FileInit ==
  /\ pc = "lexing"
  /\ \E line \in Lines : L!LexInit(line)
  /\ Init
  /\ optParams = {}

\* The whole line is buffered before a token of it is looked at.
NextToken ==
  /\ pc = "lexing"
  /\ L!nextTokenStr
  /\ UNCHANGED <<pc, vars, optParams>>

StartParser ==
  /\ pc = "lexing"
  /\ L!AtEOF
  /\ Parse([k \in DOMAIN lexed |-> lexed[k].type])
  /\ pc' = "parsing"
  /\ UNCHANGED <<lexer, optParams>>

ParserStep ==
  /\ pc = "parsing"
  /\ Step
  /\ UNCHANGED <<pc, lexer, optParams>>

\* Mutant: only the parser is asked.
KeepUnlessParserFails == ~ rec.error_in_parser /\ each_line # NothingNoted

\* A comment notes nothing.
Keep == ~ error_in_lexer /\ ~ rec.error_in_parser /\ each_line # NothingNoted

StoreLine ==
  /\ pc = "parsing"
  /\ frames = <<>>
  /\ optParams' = IF Keep THEN optParams \cup {each_line} ELSE optParams
  /\ pc' = "read"
  /\ UNCHANGED <<lexer, vars>>

Done == pc = "read" /\ UNCHANGED all

Next == NextToken \/ StartParser \/ ParserStep \/ StoreLine \/ Done

\* The loop runs until the file ends.
Spec == FileInit /\ [][Next]_all /\ WF_all(Next)
----------------------------------------------------------------------------
\* However the decisions look ahead and errors are recovered from, the parser
\* lets a line through just when the grammar derives it, and notes an
\* assignment as the kind of value it is derived as (OptFileGrammar.g:203-398,
\* antlr3baserecognizer.inl:418-505).
AcceptedIffInGrammar ==
  pc = "read" =>
    /\ rec.error_in_parser <=> ~ InGrammar
    /\ ~ rec.error_in_parser => \A kind \in Kinds : Derives(kind) <=> each_line.rval_type = kind

\* What is kept is what a line of the language says: nothing of a recovered
\* parse, or of a line with a character of no token, reaches the parameters
\* (quic.cpp:77-119).
OnlyGoodLinesAreKept ==
  pc = "read" =>
    \A kind \in Kinds :
      (\E a \in optParams : a.rval_type = kind) <=> (Derives(kind) /\ ~ error_in_lexer)

\* The line is cut into the longest matches of the tokens of the grammar.
LexedByLongestMatch == pc = "read" => L!LexedByLongestMatch

\* No missing token is made from a token before the first
\* (antlr3parser.inl:191-238), and the action of an expression splits its text
\* into the parts it reads (OptFileGrammar.g:309-321).
RecoveryStaysInLine == ~ rec.nullToken /\ "atomExp" \notin readPast

\* Every line is done with, however its errors are recovered from.
Termination == <>(pc = "read")

\* No action reads past the parts it splits its text into: the comments at
\* src/quic.cpp:99-104 and OptFileGrammar.g:303-308 call for it.
ActionsReadWhatIsThere == readPast = {}
=============================================================================

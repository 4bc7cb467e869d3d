------------------------------ MODULE MCReader ------------------------------
(* The reader of optimization files and the parts of its parser runtime, of  *)
(* which one runs at a time while the others rest in an initial state.       *)
EXTENDS Bitset, CharStream, TokenStream, RuleMemo

CONSTANTS
  Lines,
  MaxNode, MaxEdges,
  MaxTreeTokens, MaxRules, MaxUses, MaxNodes

VARIABLES
  mode,
  pc, rec, frames, each_line, readPast, text, pos, lexed, error_in_lexer, optParams,
  edges, added, result, vector,
  heap, rules, next, root, replaced, copied, nodes, tree_p, ast

\* Two lines, and a line behind a byte order mark.
MCTexts == {<<"c", "\n">>, <<"EF", "BB", "BF", "\n">>}

File   == INSTANCE MCOptFile
Order  == INSTANCE Topo
Trees  == INSTANCE TreeWalk WITH p <- tree_p

\* The lines do not depend on Lines.
LineSource == INSTANCE MCOptFile WITH Lines <- {}

MCLines == LineSource!MCLines

ASSUME MCReaderAssumption ==
  File!LinesAssumption /\ CharStreamAssumption /\ TokenStreamAssumption

file   == <<pc, rec, frames, each_line, readPast, text, pos, lexed, error_in_lexer, optParams>>
order  == <<edges, added, result, vector>>
trees  == <<heap, rules, next, root, replaced, copied, nodes, tree_p, ast>>
all    == <<mode, file, sets, chars, stream, memo, order, trees>>

ReaderInit ==
  /\ mode \in {"file", "bits", "chars", "tokens", "memo", "order", "trees"}
  /\ File!FileInit /\ (mode # "file" => text = <<"L">>)
  /\ Init
  /\ CharsInit
  /\ mode # "chars" => inputs[input].data = <<"c", "\n">> /\ input = 1
  /\ TokensInit /\ (mode # "tokens" => source = <<>>)
  /\ MemoInit
  /\ Order!Init
  /\ Trees!Init /\ (mode # "trees" => ~ rules[1].rewrites)

ReadFile == mode = "file" /\ File!Next /\ UNCHANGED <<mode, sets, chars, stream, memo, order, trees>>

\* The parts of the runtime end where their bounds are reached.
Rest == mode # "file" /\ UNCHANGED all

ReaderNext ==
  \/ ReadFile
  \/ Rest
  \/ mode = "bits" /\ Next /\ UNCHANGED <<mode, file, chars, stream, memo, order, trees>>
  \/ mode = "chars" /\ CharsNext /\ UNCHANGED <<mode, file, sets, stream, memo, order, trees>>
  \/ mode = "tokens" /\ TokensNext /\ UNCHANGED <<mode, file, sets, chars, memo, order, trees>>
  \/ mode = "memo" /\ MemoNext /\ UNCHANGED <<mode, file, sets, chars, stream, order, trees>>
  \/ mode = "trees" /\ Trees!Next /\ UNCHANGED <<mode, file, sets, chars, stream, memo, order>>
  \/ mode = "order" /\ Order!Next /\ UNCHANGED <<mode, file, sets, chars, stream, memo, trees>>

ReaderSpec == ReaderInit /\ [][ReaderNext]_all /\ WF_all(ReadFile)
----------------------------------------------------------------------------
\* The parser lets a line through just when the grammar derives it
\* (OptFileGrammar.g:203-398).
AcceptedIffInGrammar == mode = "file" => File!AcceptedIffInGrammar

\* What is kept of a file is what lines of the language say (quic.cpp:77-119).
OnlyGoodLinesAreKept == mode = "file" => File!OnlyGoodLinesAreKept

\* A line is cut into the longest matches of the tokens (OptFileGrammar.g:161-197).
LexedByLongestMatch == mode = "file" => File!LexedByLongestMatch

\* Recovery takes no token from before the line (antlr3parser.inl:191-238).
RecoveryStaysInLine == mode = "file" => File!RecoveryStaysInLine

\* Every line is done with (quic.cpp:65-122).
Termination == mode = "file" => <>(pc = "read")

\* What a tree parser reads of a tree is what the rules built, each node in one place
\* (antlr3commontreenodestream.inl:104-128, 365-420, antlr3commontreeadaptor.inl:98-166).
TreeIsWalked == Trees!TreeIsWalked

\* An order of the nodes or a cycle of theirs (antlr3collections.inl:671-844).
SortedOrCycle == Order!SortedOrCycle
=============================================================================

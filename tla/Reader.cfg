\* Lines of one or two characters, of tokens in every order behind an equals sign,
\* and of eight kinds with one mistake; bit sets of 8 to 18 words; two texts
\* through two streams; up to three tokens, looked at three far; rules 0, 1 and 3
\* over four tokens; up to four edges between four nodes;
\* trees of up to three tokens, two rules deep, each rewritten to up to two.
SPECIFICATION ReaderSpec
CONSTANTS
  Lines <- MCLines
  Handles = {a, b}
  Bits = {0, 512, 1023}
  MaxWords = 18
  Streams = {1, 2}
  Texts <- MCTexts
  Encodings = {"UTF8"}
  MaxMarks = 2
  Types = {1, 2}
  Channels = {0, 1}
  MaxTokens = 3
  Increment = 2
  OwningRule = FALSE
  MaxLook = 3
  Rules = {0, 1, 3}
  Size = 4
  MaxDepth = 1
  MaxParses = 3
  MaxNode = 3
  MaxEdges = 4
  MaxTreeTokens = 3
  MaxRules = 2
  MaxUses = 2
  MaxNodes = 2
INVARIANTS
  AcceptedIffInGrammar
  OnlyGoodLinesAreKept
  LexedByLongestMatch
  RecoveryStaysInLine
  LookaheadIsRight
  SortedOrCycle
  TreeIsWalked
PROPERTIES
  Termination
  CharsAreCursor
  BitsetSpec
  MemoIsTransparent

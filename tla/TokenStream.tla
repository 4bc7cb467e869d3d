---------------------------- MODULE TokenStream ----------------------------
(***************************************************************************)
(* The tokens a parser reads: CommonTokenStream and TokenIntStream of the   *)
(* parser runtime (opt_grammar/antlr/antlr3tokenstream.inl,                 *)
(* antlr3intstream.inl:1425-1560).  The buffer is filled from the lexer when *)
(* a lookahead asks for what it does not hold; tokens on another channel     *)
(* stay in it and are passed over.                                          *)
(*                                                                         *)
(* The program fills the buffer at once (TOKENS_ACCESSED_FROM_OWNING_RULE   *)
(* is false); with true it is filled Increment tokens at a time.            *)
(***************************************************************************)
EXTENDS Integers, FiniteSets, SequencesExt

CONSTANTS
  Types,        \* token types
  Channels,     \* channels, the default one 0
  MaxTokens,    \* bound on the tokens of the lexer
  Increment,    \* TOKEN_FILL_BUFFER_INCREMENT
  OwningRule,   \* TOKENS_ACCESSED_FROM_OWNING_RULE
  MaxLook       \* bound on lookahead

TokenStreamAssumption ==
  /\ 0 \in Channels /\ Channels \subseteq Nat /\ Types \subseteq Nat \ {0}
  /\ MaxTokens \in Nat /\ MaxLook \in Nat
  /\ Increment \in Nat \ {0}
  /\ OwningRule \in BOOLEAN

VARIABLES
  source,               \* the tokens the lexer has not given yet
  tokens,
  p,
  cachedSize,
  nissued,
  discardSet,
  discardOffChannel,
  channelOverrides,
  lastMarker,
  looked                \* what the last lookahead gave, and from where

config == <<discardSet, discardOffChannel, channelOverrides>>
buffer == <<source, tokens, cachedSize, nissued>>
stream == <<buffer, p, config, lastMarker, looked>>

EOFToken == [type |-> 0, channel |-> 0]
NoToken  == [type |-> -1, channel |-> 0]

m_channel == 0

\* lastMarker before the first mark; the code has 0 there, which nobody returns to.
NoMark == -1

Discarded(tok) ==
  \/ tok.type \in discardSet
  \/ discardOffChannel /\ tok.channel # m_channel

\* setTokenTypeChannel stores under the type, fillBuffer looks under type + 1.
Override(tok) ==
  IF tok.type + 1 \in DOMAIN channelOverrides
    THEN [tok EXCEPT !.channel = channelOverrides[tok.type + 1]] ELSE tok

\* The first index from i on that is on the channel; the end of the buffer.
skipOffTokenChannels(toks, cached, i) ==
  IF i >= cached THEN i
  ELSE LET on == {j \in i .. cached - 1 : toks[j + 1].channel = m_channel}
       IN  IF on = {} THEN cached ELSE CHOOSE j \in on : \A k \in on : j <= k

skipOffTokenChannelsReverse(toks, x) ==
  LET on == {j \in 0 .. x : toks[j + 1].channel = m_channel}
  IN  IF x < 0 THEN x ELSE IF on = {} THEN -1 ELSE CHOOSE j \in on : \A k \in on : k <= j

\* What is kept of tokens of the lexer.
Read(src) ==
  LET upTo[n \in 0 .. Len(src)] ==
        IF n = 0 THEN <<>>
        ELSE IF Discarded(src[n]) THEN upTo[n - 1] ELSE Append(upTo[n - 1], Override(src[n]))
  IN  upTo[Len(src)]

\* How many tokens of the lexer fillBuffer takes: all of them, or as many as
\* hold Increment tokens that are not discarded.
Taken(src) ==
  LET full == {n \in 1 .. Len(src) : Len(Read(SubSeq(src, 1, n))) >= Increment}
  IN  IF OwningRule /\ full # {} THEN CHOOSE n \in full : \A m \in full : n <= m ELSE Len(src)

\* The buffer as a record, so that a lookahead can fill it on its way.
Buffer == [source |-> source, tokens |-> tokens, p |-> p, cachedSize |-> cachedSize, nissued |-> nissued]

\* Mutant: the cursor is left at the start, on the default channel or not.
FillFromStart(b) ==
  LET n    == Taken(b.source)
      kept == Read(SubSeq(b.source, 1, n))
      size == b.nissued + Len(kept)
  IN  [source |-> SubSeq(b.source, n + 1, Len(b.source)), tokens |-> b.tokens \o kept,
       p |-> IF b.p < 0 THEN 0 ELSE b.p, cachedSize |-> size, nissued |-> size]

fillBuffer(b) ==
  LET n    == Taken(b.source)
      kept == Read(SubSeq(b.source, 1, n))
      toks == b.tokens \o kept
      size == b.nissued + Len(kept)
  IN  [source |-> SubSeq(b.source, n + 1, Len(b.source)), tokens |-> toks,
       p |-> skipOffTokenChannels(toks, size, IF b.p < 0 THEN 0 ELSE b.p),
       cachedSize |-> size, nissued |-> size]

\* Filled when nothing was read yet, or past a buffer that may be continued.
Filled(b, index) ==
  IF b.p = -1 \/ (index >= b.cachedSize /\ b.cachedSize % Increment = 0) THEN fillBuffer(b) ELSE b

\* The index of the k-th token, from one that is on the channel.
Ahead(b, i, n) ==
  LET at[k \in 0 .. n] ==
        IF k = 0 THEN i ELSE skipOffTokenChannels(b.tokens, b.cachedSize, at[k - 1] + 1)
  IN  at[n]

\* A lookahead: the buffer it leaves and the token it gives.  The requested
\* index is computed before the buffer is filled.
LT(k) ==
  LET req_idx == p + k - 1
      b == Filled(Buffer, req_idx)
      i == Ahead(b, b.p, k - 1)
      c == IF i >= b.cachedSize /\ b.cachedSize % Increment = 0 THEN fillBuffer(b) ELSE b
  IN  IF req_idx >= b.cachedSize THEN [buf |-> b, tok |-> EOFToken]
      ELSE IF i >= c.cachedSize THEN [buf |-> c, tok |-> EOFToken]
      ELSE [buf |-> c, tok |-> c.tokens[i + 1]]

Behind(b, i, n) ==
  LET at[k \in 0 .. n] ==
        IF k = 0 THEN i ELSE skipOffTokenChannelsReverse(b.tokens, at[k - 1] - 1)
  IN  at[n]

LB(k) ==
  LET b == IF p = -1 THEN fillBuffer(Buffer) ELSE Buffer
      i == Behind(b, b.p, k)
  IN  IF b.p - k < 0 \/ i < 0 THEN [buf |-> b, tok |-> NoToken]
      ELSE [buf |-> b, tok |-> b.tokens[i + 1]]

SetBuffer(b) ==
  /\ source' = b.source /\ tokens' = b.tokens /\ p' = b.p
  /\ cachedSize' = b.cachedSize /\ nissued' = b.nissued

TokensInit ==
  /\ source \in UNION {[1 .. n -> [type : Types, channel : Channels]] : n \in 0 .. MaxTokens}
  /\ tokens = <<>> /\ p = -1 /\ cachedSize = 0 /\ nissued = 0
  /\ discardSet = {} /\ discardOffChannel = FALSE /\ channelOverrides = <<>>
  /\ lastMarker = NoMark
  /\ looked = <<>>

\* A filter is set up before the first token is read.
SetTokenTypeChannel(ttype, channel) ==
  /\ p = -1
  /\ channelOverrides' = [t \in DOMAIN channelOverrides \cup {ttype} |->
                            IF t = ttype THEN channel ELSE channelOverrides[t]]
  /\ UNCHANGED <<buffer, p, discardSet, discardOffChannel, lastMarker, looked>>

DiscardTokenType(ttype) ==
  /\ p = -1
  /\ discardSet' = discardSet \cup {ttype}
  /\ UNCHANGED <<buffer, p, discardOffChannel, channelOverrides, lastMarker, looked>>

DiscardOffChannelToks ==
  /\ p = -1
  /\ discardOffChannel' = TRUE
  /\ UNCHANGED <<buffer, p, discardSet, channelOverrides, lastMarker, looked>>

\* _LT and _LA look without moving.
Look(k) ==
  LET result == IF k < 0 THEN LB(-k) ELSE LT(k)
  IN  /\ SetBuffer(result.buf)
      /\ looked' = [k |-> k, tok |-> result.tok]
      /\ UNCHANGED <<config, lastMarker>>

\* A token is looked at before it is consumed.
ConsumeToken ==
  /\ p >= 0
  /\ p' = IF p < cachedSize THEN skipOffTokenChannels(tokens, cachedSize, p + 1) ELSE p
  /\ looked' = <<>>
  /\ UNCHANGED <<buffer, config, lastMarker>>

MarkToken ==
  /\ p >= 0
  /\ lastMarker' = p
  /\ UNCHANGED <<buffer, p, config, looked>>

RewindLast ==
  /\ lastMarker # NoMark
  /\ p' = lastMarker
  /\ looked' = <<>>
  /\ UNCHANGED <<buffer, config, lastMarker>>

TokensNext ==
  \/ \E t \in Types, c \in Channels : SetTokenTypeChannel(t, c)
  \/ \E t \in Types : DiscardTokenType(t)
  \/ DiscardOffChannelToks
  \/ \E k \in (- MaxLook) .. MaxLook : k # 0 /\ Look(k)
  \/ ConsumeToken \/ MarkToken \/ RewindLast

TokensSpec == TokensInit /\ [][TokensNext]_stream
----------------------------------------------------------------------------
\* All tokens that are not discarded, read already or not.
AllTokens == tokens \o Read(source)

OnChannel(lo, hi) == {j \in lo .. hi : AllTokens[j].channel = m_channel}

\* The k-th token on the channel after the cursor, or before it.
Expected(k) ==
  LET on == IF k > 0 THEN OnChannel(p + 1, Len(AllTokens)) ELSE OnChannel(1, p)
      nth == {j \in on : IF k > 0 THEN Cardinality({i \in on : i <= j}) = k
                                  ELSE Cardinality({i \in on : i >= j}) = -k}
  IN  IF nth # {} THEN AllTokens[CHOOSE j \in nth : TRUE]
      ELSE IF k > 0 THEN EOFToken ELSE NoToken

\* Wherever the buffer ends and whatever is hidden or discarded, a lookahead
\* gives the token that a stream of the visible tokens would give
\* (antlr3tokenstream.inl:390-501).
LookaheadIsRight == looked # <<>> => looked.tok = Expected(looked.k)

\* The invariant behind it: before the first lookahead nothing is read; then the buffer
\* holds all there is, and the cursor and the mark are at a visible token or the end.
OnPlace(toks, i) == i \in 0 .. Len(toks) /\ (i < Len(toks) => toks[i + 1].channel = m_channel)

TokensAreThere ==
  /\ source \in Seq([type : Types, channel : Channels])
  /\ \A t \in DOMAIN channelOverrides : channelOverrides[t] \in Channels
  /\ cachedSize = Len(tokens) /\ nissued = Len(tokens)
  /\ IF p = -1 THEN tokens = <<>> /\ looked = <<>> /\ lastMarker = NoMark
     ELSE /\ source = <<>> /\ tokens \in Seq([type : Types, channel : Channels])
          /\ OnPlace(tokens, p) /\ (lastMarker = NoMark \/ OnPlace(tokens, lastMarker))

TokenInvariant == TokensAreThere /\ LookaheadIsRight
=============================================================================

----------------------------- MODULE MCOptFile -----------------------------
(* Lines for OptFile: short ones of any characters, and longer ones with    *)
(* one token too many, too few or wrong.                                    *)
EXTENDS OptFile

ArrayMember == <<"Id", ".", "Id", "[", "Num", "]", ".", "Id">>

GoodLines ==
  {<<"//", "Id">>,
   <<"const", "WS", "Id", "WS", "=", "WS", "Str">>,
   <<"Id", "=", "Num", "WS", "//", "Id">>,
   ArrayMember \o <<"=", "[", "Num", "WS", "Num", "]">>,
   <<"Id", ".", "Id", "=", "[", "Num", ":", "Num", ":", "Num", "]">>,
   <<"Id", "=", "Num", "WS", "+", "WS", "Id">>,
   <<"Id", "=", "Id", "-", "Id", ".", "Id", "WS", "//">>,
   <<"Id", "=">> \o ArrayMember \o <<"+", "Num">>}

Edits(line) ==
  {line}
    \cup {[line EXCEPT ![k] = t] : k \in DOMAIN line, t \in TokenTypes}
    \cup {RemoveAt(line, k) : k \in DOMAIN line}
    \cup {InsertAt(line, k, t) : k \in 1 .. Len(line) + 1, t \in TokenTypes}

\* Assignments with three tokens on the right.
TokenLines ==
  UNION {Edits(line) : line \in GoodLines}
    \cup {<<"Id", "=", t, u, v>> : t \in TokenTypes, u \in TokenTypes, v \in {"WS", "Id", "Num", "]", "+", "//"}}

Spelling ==
  [t \in TokenTypes |->
     CASE t = "Id" -> <<"L">> [] t = "Num" -> <<"D">> [] t = "Str" -> <<"'", "L", "'">>
       [] t = "WS" -> <<" ">> [] t = "const" -> <<"K">> [] t = "//" -> <<"/", "/">> [] OTHER -> <<t>>]

Spelled(line) == FlattenSeq([k \in DOMAIN line |-> Spelling[line[k]]])

Words == UNION {[1 .. n -> L!Chars] : n \in 1 .. 2}

MCLines == {Spelled(line) : line \in TokenLines} \cup Words
             \cup {<<"L", "=">> \o w : w \in [1 .. 3 -> {"D", ".", "'", "L", "?", "K"}]}

\* Ranges that are not written out.
RangeLines == {<<"L", "=", "[", "D", ":", "D", "]">>, <<"L", "=", "[", "D", ":", "D", ":", "D", "]">>}
               \cup {<<"L", "=", "[", "D", ":", c, d, "]">> : c \in L!Chars, d \in L!Chars}
=============================================================================

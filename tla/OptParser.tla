----------------------------- MODULE OptParser -----------------------------
(***************************************************************************)
(* The parser of one line of an optimization file: the rules of             *)
(* opt_grammar/OptFileGrammar.g as the parser generator compiles them, with *)
(* the actions they carry.  A rule is a sequence of instructions; an action *)
(* of the model runs the next instruction of the innermost rule.            *)
(*                                                                         *)
(* A rule that meets an error reports it, passes over tokens up to one that *)
(* can follow, and returns: its caller goes on as if it had succeeded, and  *)
(* runs its own actions.                                                    *)
(***************************************************************************)
EXTENDS Recognizer, FiniteSets

TokenTypes == {"WS", "Id", "Num", "Str", "const", "//", "=", "[", "]", ":", ".", "+", "-"}

VARIABLES
  rec,        \* the recognizer
  frames,     \* the rules being parsed, the innermost last
  each_line,  \* what the actions note of the line
  readPast    \* the actions that read past what they split

vars == <<rec, frames, each_line, readPast>>

\* Match a token; call a rule; match one of several; pass over any number of
\* some types; over one at least; choose where to go on; run an action.
M(t, follow)  == [op |-> "match", arg |-> t, follow |-> follow]
C(rule, follow) == [op |-> "call", arg |-> rule, follow |-> follow]
S(ts)         == [op |-> "set", arg |-> ts]
Star(ts)      == [op |-> "star", arg |-> ts]
Plus(ts)      == [op |-> "plus", arg |-> ts]
Choose(d)     == [op |-> "choose", arg |-> d]
Do(a)         == [op |-> "action", arg |-> a]
End           == [op |-> "end"]

unit ==
  <<Choose("unit"), C("assignment", {}), Choose("past"), C("comment", {}), M(EOF, {EOR})>>

assignment ==
  <<Star({"WS"}), C("lvalue", {"WS", "="}), Star({"WS"}), M("=", {"WS", "Str", "[", "Id", "Num"}),
    Star({"WS"}), C("rvalue", {EOR, "WS", "//"}), Star({"WS"}), Choose("comment"), C("comment", {EOR})>>

comment == <<M("//", TokenTypes \cup {EOR}), Star(TokenTypes)>>

lvalue ==
  <<Choose("lvalue"), C("constant", {EOR}), Do("control"), End,
    C("local_variable", {EOR}), Do("project_variable"), End,
    C("member_variable", {EOR}), Do("project_variable")>>

rvalue ==
  <<Choose("rvalue"), C("str", {EOR}), Do("string"), End, C("set", {EOR}), Do("set"), End,
    C("range", {EOR}), Do("range"), End, C("atomExp", {EOR}), Do("atomExp"), End,
    C("num", {EOR}), Do("number")>>

constant == <<M("const", {"WS"}), Plus({"WS"}), M("Id", {EOR})>>

member_variable ==
  <<M("Id", {"."}), Choose("vectors"), M(".", {"Id"}), C("vector", {"."}), Choose("again"),
    M(".", {"Id"}), M("Id", {EOR})>>

vector == <<M("Id", {"["}), M("[", {"Num"}), M("Num", {"]"}), M("]", {EOR})>>

Operators == {"+", "-"}

atomExp ==
  <<Choose("left"), C("num", {"WS", "+", "-"}), Choose("operator"), C("member_variable", {"WS", "+", "-"}),
    Choose("operator"), C("local_variable", {"WS", "+", "-"}), Star({"WS"}), S(Operators), Star({"WS"}),
    Choose("right"), C("num", {EOR}), End, C("member_variable", {EOR}), End, C("local_variable", {EOR})>>

set ==
  <<M("[", {"Num"}), Choose("first"), M("Num", {"Num", "WS", "]"}), Star({"WS"}), Choose("more"),
    M("]", {EOR})>>

range ==
  <<M("[", {"Num"}), M("Num", {":"}), M(":", {"Num"}), M("Num", {":"}), M(":", {"Num"}),
    M("Num", {"]"}), M("]", {EOR})>>

\* num, local_variable and str.
Single(t) == <<M(t, {EOR})>>

Code ==
  [unit |-> unit, assignment |-> assignment, comment |-> comment, lvalue |-> lvalue,
   rvalue |-> rvalue, constant |-> constant, member_variable |-> member_variable,
   vector |-> vector, atomExp |-> atomExp, set |-> set, range |-> range,
   num |-> Single("Num"), local_variable |-> Single("Id"), str |-> Single("Str")]

\* The first token type behind the number at p that is not white space.
AfterNumber ==
  LET r == [rec EXCEPT !.p = Stop([rec EXCEPT !.p = @ + 1], TokenTypes \ {"WS"})] IN LA(r, 1)

If(condition, pc) == IF condition THEN {pc} ELSE {}

\* An operand: a number, a member, or a variable with one of the types behind it.
Operand(num, member, variable, behind) ==
  If(LA(rec, 1) = "Num", num) \cup
  If(LA(rec, 1) = "Id" /\ LA(rec, 2) = ".", member) \cup
  If(LA(rec, 1) = "Id" /\ LA(rec, 2) \in behind, variable)

VectorAhead == LA(rec, 1) = "." /\ LA(rec, 2) = "Id" /\ LA(rec, 3) = "["

\* Where the instructions of a rule go on; nowhere is no viable alternative.
Predict(d) ==
  LET la == LA(rec, 1) IN
  CASE d = "unit"     -> If(la \in {"WS", "const", "Id"}, 2) \cup If(la = "//", 4)
    [] d = "past"     -> {5}
    [] d = "comment"  -> IF la = "//" THEN {9} ELSE {10}
    [] d = "lvalue"   -> If(la = "const", 2) \cup If(la = "Id" /\ LA(rec, 2) \in {"WS", "="}, 5)
                           \cup If(la = "Id" /\ LA(rec, 2) = ".", 8)
    [] d = "rvalue"   -> If(la = "Str", 2)
                           \cup If(la = "[" /\ LA(rec, 2) = "Num" /\ LA(rec, 3) \in {"Num", "WS", "]"}, 5)
                           \cup If(la = "[" /\ LA(rec, 2) = "Num" /\ LA(rec, 3) = ":", 8)
                           \cup If(la = "Id" \/ (la = "Num" /\ AfterNumber \in Operators), 11)
                           \cup If(la = "Num" /\ AfterNumber \in {EOF, "//"}, 14)
    [] d \in {"vectors", "again"} -> IF VectorAhead THEN {3} ELSE {6}
    [] d = "left"     -> Operand(2, 4, 6, {"WS", "+", "-"})
    [] d = "operator" -> {7}
    [] d = "right"    -> Operand(11, 13, 15, {EOF, "WS", "//"})
    [] d = "first"    -> If(la = "Num", 3)
    [] d = "more"     -> IF la = "Num" THEN {3} ELSE {6}

frame == Last(frames)
instruction ==
  IF frame.pc <= Len(Code[frame.rule]) THEN Code[frame.rule][frame.pc] ELSE End

\* The rule is at an instruction, and no exception is outstanding.
At(op) == frames # <<>> /\ ~ rec.error /\ instruction.op = op

GoOn(pc) == frames' = [frames EXCEPT ![Len(frames)].pc = pc]

Enter(rule) == [rule |-> rule, pc |-> 1, start |-> rec.p, text |-> <<>>]

NothingNoted == [lval_type |-> "none", rval_type |-> "none"]

Init ==
  /\ rec = Fresh(<<>>)
  /\ frames = <<>>
  /\ each_line = NothingNoted
  /\ readPast = {}

\* A new parser, and its start rule.
Parse(line) ==
  /\ rec' = Fresh(line)
  /\ frames' = <<[rule |-> "unit", pc |-> 1, start |-> 0, text |-> <<>>]>>
  /\ each_line' = NothingNoted
  /\ UNCHANGED readPast

MatchToken ==
  /\ At("match")
  /\ rec' = match(rec, instruction.arg, instruction.follow)
  /\ GoOn(frame.pc + 1)
  /\ UNCHANGED <<each_line, readPast>>

MatchSet ==
  /\ At("set")
  /\ rec' = matchSet(rec, instruction.arg)
  /\ GoOn(frame.pc + 1)
  /\ UNCHANGED <<each_line, readPast>>

\* A loop over single tokens; (...)+ throws when there is none.
PassOver ==
  /\ At("star") \/ At("plus")
  /\ LET none == LA(rec, 1) \notin instruction.arg
         past == Stop(rec, (TokenTypes \cup {EOF}) \ instruction.arg)
     IN  rec' = CASE none /\ instruction.op = "plus" -> Threw(rec)
                  [] none /\ instruction.op = "star" -> rec
                  [] OTHER -> [rec EXCEPT !.p = past, !.errorRecovery = FALSE]
  /\ GoOn(frame.pc + 1)
  /\ UNCHANGED <<each_line, readPast>>

Decide ==
  /\ At("choose")
  /\ LET targets == Predict(instruction.arg)
     IN  IF targets = {} THEN rec' = Threw(rec) /\ UNCHANGED frames
                         ELSE UNCHANGED rec /\ \E pc \in targets : GoOn(pc)
  /\ UNCHANGED <<each_line, readPast>>

CallRule ==
  /\ At("call")
  /\ rec' = followPush(rec, instruction.follow)
  /\ frames' = Append(frames, Enter(instruction.arg))
  /\ UNCHANGED <<each_line, readPast>>

\* The caller, back behind the call, with the text of the rule.
Returned ==
  LET n == Len(frames) - 1
      text == SubSeq(rec'.tokens, frame.start + 1, rec'.p)
  IN  IF n = 0 THEN <<>>
      ELSE [SubSeq(frames, 1, n) EXCEPT ![n].pc = @ + 1, ![n].text = text]

FollowPopped(r) == IF Len(frames) = 1 THEN r ELSE followPop(r)

ReturnFromRule ==
  /\ At("end")
  /\ rec' = FollowPopped(rec)
  /\ frames' = Returned
  /\ UNCHANGED <<each_line, readPast>>

\* The error label of a rule: report, recover, return.
RuleEx ==
  /\ frames # <<>> /\ rec.error
  /\ rec' = FollowPopped(recover(reportError(rec)))
  /\ frames' = Returned
  /\ UNCHANGED <<each_line, readPast>>

\* How many parts split() makes of a text.
Parts(text, separators) == Len(SelectSeq(text, LAMBDA t : t \in separators)) + 1

\* Mutant: the action of an expression runs as the one of a range does.
Unguarded(a) == TRUE

\* The action of an expression is the one that looks for errors first.
Guard(a) == a = "atomExp" => ~ rec.error_in_parser

PartsRead(a) == CASE a = "range" -> 3 [] a = "atomExp" -> 2 [] OTHER -> 1
Separators(a) == CASE a = "range" -> {":"} [] a = "atomExp" -> Operators [] OTHER -> {}

RunAction ==
  LET a == instruction.arg
  IN  /\ At("action")
      /\ IF ~ Guard(a) THEN UNCHANGED <<each_line, readPast>>
         ELSE /\ each_line' = IF frame.rule = "lvalue" THEN [each_line EXCEPT !.lval_type = a]
                                                       ELSE [each_line EXCEPT !.rval_type = a]
              /\ readPast' = readPast \cup
                   If(Parts(frame.text, Separators(a)) < PartsRead(a), a)
      /\ GoOn(frame.pc + 1)
      /\ UNCHANGED rec

Step ==
  \/ MatchToken \/ MatchSet \/ PassOver \/ Decide \/ CallRule
  \/ ReturnFromRule \/ RuleEx \/ RunAction
----------------------------------------------------------------------------
(* The language of the grammar, by ends: where an expression that starts at  *)
(* one of some places may end.                                               *)
Tok(ts, from) == {i + 1 : i \in {j \in from : j < Len(rec.tokens) /\ rec.tokens[j + 1] \in ts}}

Blanks(from) == from \cup {j \in 1 .. Len(rec.tokens) :
                             \E i \in from : i < j /\ \A k \in i + 1 .. j : rec.tokens[k] = "WS"}

Vector(from) == Tok({"]"}, Tok({"Num"}, Tok({"["}, Tok({"Id"}, from))))

RECURSIVE Vectors(_)
Vectors(from) ==
  LET more == from \cup Vector(Tok({"."}, from)) IN IF more = from THEN from ELSE Vectors(more)

Member(from) == Tok({"Id"}, Tok({"."}, Vectors(Tok({"Id"}, from))))

AnOperand(from) == Tok({"Num", "Id"}, from) \cup Member(from)

Expression(from) == AnOperand(Blanks(Tok(Operators, Blanks(AnOperand(from)))))

RECURSIVE Numbers(_)
Numbers(from) ==
  LET more == from \cup Blanks(Tok({"Num"}, from)) IN IF more = from THEN from ELSE Numbers(more)

Set(from) == Tok({"]"}, Numbers(Blanks(Tok({"Num"}, Tok({"["}, from)))))

ARange(from) ==
  Tok({"]"}, Tok({"Num"}, Tok({":"}, Tok({"Num"}, Tok({":"}, Tok({"Num"}, Tok({"["}, from)))))))

LeftSide == Tok({"Id"}, Blanks(Tok({"WS"}, Tok({"const"}, Blanks({0})))))
              \cup Tok({"Id"}, Blanks({0})) \cup Member(Blanks({0}))

RightSide(kind, from) ==
  CASE kind = "string"  -> Tok({"Str"}, from)
    [] kind = "number"  -> Tok({"Num"}, from)
    [] kind = "set"     -> Set(from)
    [] kind = "range"   -> ARange(from)
    [] kind = "atomExp" -> Expression(from)

Kinds == {"string", "number", "set", "range", "atomExp"}

\* Whether a line is in the language, as an assignment of some kind of value.
Ends(from) == Len(rec.tokens) \in from \/ Tok({"//"}, from) # {}

Derives(kind) == Ends(Blanks(RightSide(kind, Blanks(Tok({"="}, Blanks(LeftSide))))))

InGrammar == Tok({"//"}, {0}) # {} \/ \E kind \in Kinds : Derives(kind)

=============================================================================

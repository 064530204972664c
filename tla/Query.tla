------------------------------- MODULE Query -------------------------------
(***************************************************************************)
(* Query (query.cpp): a test is translated into postfix notation by the    *)
(* shunting-yard algorithm and evaluated on a stack.                       *)
(*                                                                         *)
(* A token is a string: an operator, a parenthesis, or a word.  The code   *)
(* works on the quarks of words, and truth values are quarks too: 0 is     *)
(* that of the empty word, and 1, which stands for true, that of "*", the  *)
(* first word interned (query.cpp:32).                                     *)
(***************************************************************************)
EXTENDS Integers, Sequences, FiniteSets, SequencesExt

CONSTANT Compare(_, _)   \* vercmp

False == ""
Asterisk == "*"
True == Asterisk
Truth(holds) == IF holds THEN True ELSE False

Relations == {"<", "<=", ">", ">="}
Operators == Relations \cup {"==", "!=", "&&", "||"}
Parentheses == {"(", ")"}
IsIdent(token) == token \notin Operators \cup Parentheses

PrecedOfC(op) ==   \* mutant of OpPreced: && and || on one level
    CASE op \in Relations -> 4 [] op \in {"==", "!="} -> 3 [] op \in {"&&", "||"} -> 2 [] OTHER -> 0

OpPreced(op) ==
    CASE op \in Relations -> 4
      [] op \in {"==", "!="} -> 3
      [] op = "&&" -> 2
      [] op = "||" -> 1
      [] OTHER -> 0

(***************************************************************************)
(* Translation.  deepest: the most the operator stack has held.            *)
(***************************************************************************)
Untranslated == [out |-> << >>, stack |-> << >>, error |-> FALSE, deepest |-> 0]

\* The height to which the stack falls while these operators are popped.
FallsTo(stack, popped) == Max({0} \cup {i \in DOMAIN stack : stack[i] \notin popped})

PopTo(s, height) ==
    [s EXCEPT !.out = @ \o Reverse(SubSeq(s.stack, height + 1, Len(s.stack))),
              !.stack = SubSeq(@, 1, height)]
Pushed(s, token) ==
    [s EXCEPT !.stack = Append(@, token), !.deepest = Max({@, Len(s.stack) + 1})]

YieldsRight(c, op) == OpPreced(c) < OpPreced(op)   \* mutant of Yields
\* Of two operators of one level the left one is applied first.
Yields(c, op) == OpPreced(c) <= OpPreced(op)

TranslateToken(s, c) ==
    CASE IsIdent(c) -> [s EXCEPT !.out = Append(@, c)]
      [] c \in Operators ->
            Pushed(PopTo(s, FallsTo(s.stack, {op \in Operators : Yields(c, op)})), c)
      [] c = "(" -> Pushed(s, c)
      [] c = ")" ->
            LET height == FallsTo(s.stack, Operators) IN
            IF height = 0 THEN [s EXCEPT !.error = TRUE]
            ELSE [PopTo(s, height) EXCEPT !.stack = Front(@)]

\* A parenthesis that is left or was never opened makes the constructor throw.
Translate(tokens) ==
    LET s == FoldLeft(LAMBDA acc, c : IF acc.error THEN acc ELSE TranslateToken(acc, c),
                      Untranslated, tokens)
    IN IF s.error \/ "(" \in ToSet(s.stack) THEN [s EXCEPT !.error = TRUE] ELSE PopTo(s, 0)

(***************************************************************************)
(* Evaluation.  outcome: "ok", "short" (insufficient values), "throws".    *)
(***************************************************************************)
\* The left operand of an operator is a variable, unless it is a truth value or "*";
\* the right one is taken as it is.
LeftOperand(word, version, variant) ==
    CASE word = "version" -> version
      [] word \in {False, True} -> word
      [] word \notin {"version", False, True} /\ word \in DOMAIN variant -> variant[word]
      [] OTHER -> "unknown"

Apply(op, a, b) ==
    CASE op = "<" -> Compare(a, b) < 0
      [] op = "<=" -> Compare(a, b) <= 0
      [] op = ">" -> Compare(a, b) > 0
      [] op = ">=" -> Compare(a, b) >= 0
      [] op = "!=" -> a # b /\ a # Asterisk /\ b # Asterisk
      [] op = "==" -> a = b \/ a = Asterisk \/ b = Asterisk
      [] op = "&&" -> a # False /\ b # False
      [] op = "||" -> a # False \/ b # False

Unevaluated == [stack |-> << >>, outcome |-> "ok", highest |-> 0]

EvaluateToken(s, c, version, variant) ==
    LET n == Len(s.stack) IN
    IF IsIdent(c) THEN [s EXCEPT !.stack = Append(@, c), !.highest = Max({@, n + 1})]
    ELSE IF n < 2 THEN [s EXCEPT !.outcome = "short"]
    ELSE LET left == LeftOperand(s.stack[n - 1], version, variant)
         IN IF left = "unknown" THEN [s EXCEPT !.outcome = "throws"]
            ELSE [s EXCEPT !.stack = Append(SubSeq(@, 1, n - 2), Truth(Apply(c, left, s.stack[n])))]

\* The state of the evaluation after the last token, or at the token that ends it.
Evaluation(queryspace, version, variant) ==
    FoldLeft(LAMBDA s, c : IF s.outcome # "ok" THEN s ELSE EvaluateToken(s, c, version, variant),
             Unevaluated, queryspace)

\* Anything but one value at the end is an error that counts as false; no query at all
\* is true.
Evaluate(queryspace, version, variant) ==
    LET s == Evaluation(queryspace, version, variant)
    IN CASE queryspace = << >> -> "true"
         [] queryspace # << >> /\ s.outcome = "throws" -> "throws"
         [] OTHER -> IF s.outcome = "ok" /\ Len(s.stack) = 1 /\ s.stack[1] # False
                     THEN "true" ELSE "false"
=============================================================================

------------------------------ MODULE MathString ------------------------------
(***************************************************************************)
(* MathStringEvaluator: arithmetic in strings, by two stacks that belong   *)
(* to the evaluator and not to the call.  An expression is the sequence of *)
(* its characters.  A float is a rational, <<numerator, denominator>>, of  *)
(* which the whole ones are rounded to as many digits as a float has.      *)
(***************************************************************************)
EXTENDS Integers, Sequences, SequencesExt, TLC

CONSTANTS
  Expressions,   (* what an evaluator is given                              *)
  Mantissa,      (* whole numbers below it are exact (2^24 in the code)     *)
  LongRange,     (* 2^64 in the code: how far strtoul and strtoull go       *)
  MaxEvals       (* bound: calls of one evaluator                           *)

VARIABLES
  evaluator,     (* its stacks: [ops, out]; the top is the last             *)
  evaluated,     (* the last call: [expr, ok, value], and whether it was    *)
                 (* fresh: no operator was left on its stack before         *)
  evals          (* calls still to be made                                  *)

mathVars == <<evaluator, evaluated, evals>>

Precedence ==
  ("_" :> 8) @@ ("^" :> 6) @@ ("*" :> 4) @@ ("/" :> 4) @@ ("%" :> 4)
    @@ ("+" :> 2) @@ ("-" :> 2) @@ ("(" :> 0) @@ (")" :> 0)
Operators == DOMAIN Precedence
FromTheRight == {"_", "^"}
DigitValue ==
  ("0" :> 0) @@ ("1" :> 1) @@ ("2" :> 2) @@ ("3" :> 3) @@ ("4" :> 4)
    @@ ("5" :> 5) @@ ("6" :> 6) @@ ("7" :> 7) @@ ("8" :> 8) @@ ("9" :> 9)
    @@ ("a" :> 10) @@ ("b" :> 11) @@ ("c" :> 12) @@ ("d" :> 13) @@ ("e" :> 14)
    @@ ("f" :> 15)
Digits == DOMAIN DigitValue
Space == " "

----------------------------------------------------------------------------
(* Tokens: an operator, or the characters up to the next one without the    *)
(* spaces.  What is left at the end may have no characters.                 *)

NumberToken(chars) == [op |-> "none", chars |-> chars]
OperatorToken(op) == [op |-> op, chars |-> <<>>]
Tokenized(expr) ==
  LET Take(t, char) ==
        IF char \in Operators
        THEN [done |-> t.done
                \o (IF t.chars = <<>> THEN <<>> ELSE <<NumberToken(t.chars)>>)
                \o <<OperatorToken(char)>>,
              chars |-> <<>>, open |-> FALSE]
        ELSE [t EXCEPT !.open = TRUE,
                       !.chars = IF char = Space THEN @ ELSE Append(@, char)]
      end == FoldLeft(Take, [done |-> <<>>, chars |-> <<>>, open |-> FALSE], expr)
  IN  [tokens |-> end.done
         \o (IF end.chars = <<>> THEN <<>> ELSE <<NumberToken(end.chars)>>),
       emptyToken |-> end.open /\ end.chars = <<>>]

(* strtoul: the digits at the start, or 0; what does not fit is the most    *)
(* that does, and leaves errno ERANGE.                                      *)
Whole(n) == <<n, 1>>
NumberIn(base, chars) ==
  FoldLeft(LAMBDA s, c : IF s.ends \/ c \notin Digits \/ DigitValue[c] >= base
                         THEN [s EXCEPT !.ends = TRUE]
                         ELSE [s EXCEPT !.n = base * @ + DigitValue[c]],
           [n |-> 0, ends |-> FALSE], chars).n
NumberOf(chars) == NumberIn(10, chars)
Saturated(n) == IF n < LongRange THEN n ELSE LongRange - 1
Overlong(expr) ==
  \E token \in ToSet(Tokenized(expr).tokens) :
    token.op = "none" /\ NumberOf(token.chars) >= LongRange

----------------------------------------------------------------------------
(* Arithmetic.                                                              *)

Abs(n) == IF n < 0 THEN -n ELSE n
(* The nearest multiple of unit, an even one of two. *)
Nearest(n, unit) ==
  LET down == (n \div unit) * unit
      over == n - down
  IN  IF 2 * over < unit \/ (2 * over = unit /\ (down \div unit) % 2 = 0)
      THEN down ELSE down + unit
Unit(n) == CHOOSE u \in {2 ^ k : k \in 0 .. 12} :
             /\ Abs(n) < Mantissa * u
             /\ u = 1 \/ Abs(n) >= Mantissa * (u \div 2)
Rounded(q) ==
  IF q[1] % q[2] # 0 THEN q
  ELSE LET n == q[1] \div q[2] IN Whole(Nearest(n, Unit(n)))

Same(q, r) == q[1] * r[2] = r[1] * q[2]
Sign(n) == IF n < 0 THEN -1 ELSE 1
Truncated(n, m) == Sign(n) * Sign(m) * (Abs(n) \div Abs(m))
IsZero(q) == q[1] = 0
(* Exponents are whole and not negative. *)
Power(n, e) == IF e = 0 THEN 1 ELSE n ^ e
Exactly(op, a, b) ==
  CASE op = "+" -> <<a[1] * b[2] + b[1] * a[2], a[2] * b[2]>>
    [] op = "-" -> <<a[1] * b[2] - b[1] * a[2], a[2] * b[2]>>
    [] op = "*" -> <<a[1] * b[1], a[2] * b[2]>>
    [] op = "/" -> <<a[1] * b[2] * Sign(b[1]), a[2] * Abs(b[1])>>
    [] op = "%" -> LET n == a[1] * b[2]
                       m == b[1] * a[2]
                   IN  <<n - m * Truncated(n, m), a[2] * b[2]>>
    [] op = "^" -> <<Power(a[1], b[1]), Power(a[2], b[1])>>
Apply(op, a, b) == Rounded(Exactly(op, a, b))
Negated(a) == <<-a[1], a[2]>>

----------------------------------------------------------------------------
(* evaluate                                                                 *)

Thrown(ops, out) == [ops |-> ops, out |-> out, ok |-> FALSE]
Top(s) == s.ops[Len(s.ops)]

(* execOp *)
Exec(s) ==
  LET op == Top(s)
      ops == Front(s.ops)
      n == Len(s.out)
      below == SubSeq(s.out, 1, n - 2)
  IN  CASE op = "(" -> [s EXCEPT !.ops = ops]
        [] op = "_" -> IF n = 0 THEN Thrown(ops, <<>>)
                       ELSE [s EXCEPT !.ops = ops, !.out[n] = Negated(@)]
        [] OTHER ->
             IF n < 2 THEN Thrown(ops, <<>>)
             ELSE IF op \in {"/", "%"} /\ IsZero(s.out[n]) THEN Thrown(ops, below)
             ELSE [s EXCEPT !.ops = ops,
                            !.out = Append(below, Apply(op, s.out[n - 1], s.out[n]))]
ExecWhile(s, Holds(_)) ==
  FoldLeft(LAMBDA r, i : IF r.ok /\ r.ops # <<>> /\ Holds(Top(r)) THEN Exec(r) ELSE r,
           s, [i \in 1 .. Len(s.ops) |-> i])

(* What is on the stack goes first if it binds as tightly, or more tightly  *)
(* when the operator goes from the right.  Without that difference:         *)
GoesFirst_Strictly(op, top) == Precedence[top] > Precedence[op]
GoesFirst(op, top) ==
  IF op \in FromTheRight THEN Precedence[top] > Precedence[op]
  ELSE Precedence[top] >= Precedence[op]

(* A closing parenthesis leaves the opening one where it is. *)
TakesToken(s, token) ==
  CASE ~s.ok -> s
    [] s.ok /\ token.op = "none" ->
         [s EXCEPT !.out = Append(@, Rounded(Whole(Saturated(NumberOf(token.chars)))))]
    [] s.ok /\ token.op = "(" -> [s EXCEPT !.ops = Append(@, "(")]
    [] s.ok /\ token.op = ")" ->
         IF s.ops = <<>> THEN Thrown(<<>>, s.out)
         ELSE ExecWhile(s, LAMBDA top : top # "(")
    [] OTHER ->
         LET r == ExecWhile(s, LAMBDA top : GoesFirst(token.op, top))
         IN  IF r.ok THEN [r EXCEPT !.ops = Append(@, token.op)] ELSE r

(* The stacks are not emptied first: empty() only asks. *)
Evaluate(stacks, expr) ==
  LET t == Tokenized(expr)
      begun == stacks @@ [ok |-> TRUE]
      end == ExecWhile(FoldLeft(TakesToken, begun, t.tokens), LAMBDA top : TRUE)
      n == Len(end.out)
  IN  IF t.emptyToken THEN Thrown(stacks.ops, stacks.out) @@ [value |-> Whole(0)]
      ELSE IF ~end.ok \/ n = 0
      THEN Thrown(end.ops, end.out) @@ [value |-> Whole(0)]
      ELSE [end EXCEPT !.out = Front(@)] @@ [value |-> end.out[n]]

NoStacks == [ops |-> <<>>, out |-> <<>>]
NotEvaluated == [expr |-> <<>>, ok |-> TRUE, value |-> Whole(0), fresh |-> TRUE]
MathInit ==
  /\ evaluator = NoStacks
  /\ evaluated = NotEvaluated
  /\ evals = MaxEvals
Evaluates(expr) ==
  LET e == Evaluate(evaluator, expr)
  IN  /\ evaluator' = [ops |-> e.ops, out |-> e.out]
      /\ evaluated' = [expr |-> expr, ok |-> e.ok, value |-> e.value,
                        fresh |-> evaluator.ops = <<>>]
MathNext ==
  /\ evals > 0
  /\ evals' = evals - 1
  /\ \E expr \in Expressions : Evaluates(expr)
==============================================================================

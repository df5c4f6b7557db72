------------------------------ MODULE MathMeaning ------------------------------
(***************************************************************************)
(* What an expression means, read as a whole and not from left to right,   *)
(* and that the evaluator and the readers of its numbers give it that.     *)
(***************************************************************************)
EXTENDS XmlReaders

----------------------------------------------------------------------------
(* What an expression means.                                                *)

Binary == Operators \ {"_", "(", ")"}
Outside(expr, i) ==
  LET count(char) == Len(SelectSeq(SubSeq(expr, 1, i), LAMBDA c : c = char))
  IN  count("(") = count(")")
IsNumber(expr) ==
  expr # <<>> /\ \A i \in DOMAIN expr : expr[i] \in Digits /\ DigitValue[expr[i]] < 10
Inside(expr) == SubSeq(expr, 2, Len(expr) - 1)
Bracketed(expr) ==
  /\ Len(expr) > 2
  /\ expr[1] = "("
  /\ \A i \in DOMAIN expr : Outside(expr, i) <=> i = Len(expr)
Negative(expr) == Len(expr) > 1 /\ expr[1] = "_"
(* Where the operator stands that is applied last. *)
Splits(expr) ==
  {i \in 2 .. Len(expr) - 1 : expr[i] \in Binary /\ Outside(expr, i)}
LastApplied(expr) ==
  LET least == CHOOSE p \in {Precedence[expr[i]] : i \in Splits(expr)} :
                 \A i \in Splits(expr) : p <= Precedence[expr[i]]
      those == {i \in Splits(expr) : Precedence[expr[i]] = least}
  IN  CHOOSE i \in those :
        \A j \in those : IF expr[i] \in FromTheRight THEN i <= j ELSE i >= j

RECURSIVE WellFormed(_)
WellFormed(expr) ==
  \/ IsNumber(expr)
  \/ Bracketed(expr) /\ WellFormed(Inside(expr))
  \/ /\ Splits(expr) # {}
     /\ LET i == LastApplied(expr)
        IN  /\ WellFormed(SubSeq(expr, 1, i - 1))
            /\ WellFormed(SubSeq(expr, i + 1, Len(expr)))
  \/ Splits(expr) = {} /\ Negative(expr) /\ WellFormed(Tail(expr))

(* Its value, or <<>> when it divides by zero. *)
RECURSIVE Meaning(_)
Meaning(expr) ==
  CASE IsNumber(expr) -> Whole(NumberOf(expr))
    [] Bracketed(expr) -> Meaning(Inside(expr))
    [] Splits(expr) # {} ->
         LET i == LastApplied(expr)
             a == Meaning(SubSeq(expr, 1, i - 1))
             b == Meaning(SubSeq(expr, i + 1, Len(expr)))
         IN  IF a = <<>> \/ b = <<>> THEN <<>>
             ELSE IF expr[i] \in {"/", "%"} /\ IsZero(b) THEN <<>>
             ELSE Exactly(expr[i], a, b)
    [] OTHER -> LET a == Meaning(Tail(expr))
                IN  IF a = <<>> THEN <<>> ELSE Negated(a)

(* It, and all that has a value on the way to its own. *)
RECURSIVE Operands(_)
Operands(expr) ==
  {expr} \cup
    (CASE IsNumber(expr) -> {}
       [] Bracketed(expr) -> Operands(Inside(expr))
       [] Splits(expr) # {} ->
            LET i == LastApplied(expr)
            IN  Operands(SubSeq(expr, 1, i - 1))
                  \cup Operands(SubSeq(expr, i + 1, Len(expr)))
       [] OTHER -> Operands(Tail(expr)))

(* Nothing but parentheses follows a closing one. *)
ClosesLast(expr) ==
  \A i \in 1 .. Len(expr) - 1 : expr[i] = ")" => expr[i + 1] = ")"

(* No part of it has a value that a float does not hold, or not exactly, and *)
(* no exponent is negative or a fraction: it begins with a digit.           *)
Holds(q) ==
  /\ Abs(q[1]) < LongRange * q[2]
  /\ \E k \in 0 .. 4 :
       LET whole == <<q[1] * 2 ^ k, q[2]>>
       IN  whole[1] % whole[2] = 0 /\ Same(Rounded(whole), whole)
Fits(expr) ==
  /\ \A operand \in Operands(expr) :
       LET m == Meaning(operand) IN m = <<>> \/ Holds(m)
  /\ \A i \in 1 .. Len(expr) - 1 : expr[i] = "^" => IsNumber(<<expr[i + 1]>>)

(* What evaluators are given, and what of it has such a meaning. *)
Given == Expressions \cup {WithSectors(attr[2]) : attr \in RawAttributes}
Meant ==
  [expr \in {e \in Given : ClosesLast(e) /\ WellFormed(e) /\ Fits(e)} |-> Meaning(expr)]

(* evaluate gives an expression the value that the precedence and the       *)
(* associativity of its operators give it, and throws for a division by     *)
(* zero, as long as no operator follows a parenthesis, a float holds all    *)
(* values on the way, and no call that threw has left an operator: the      *)
(* values an earlier expression leaves, thrown for or not, spoil nothing.   *)
EvaluatesRight ==
  evaluated.fresh /\ evaluated.expr \in DOMAIN Meant =>
    LET m == Meant[evaluated.expr]
    IN  IF m = <<>> THEN ~evaluated.ok
        ELSE evaluated.ok /\ Same(evaluated.value, m)

IsLast(i) ==
  \A j \in DOMAIN lastRead.attrs :
    lastRead.attrs[j][1] = lastRead.attrs[i][1] => j <= i

(* What an attribute says: its number, or, in a raw program, the result of  *)
(* its sum, difference, product or quotient without the fraction.  A power, *)
(* a remainder or a number in parentheses alone is not calculated, and of   *)
(* 2^31 it depends on the processor what an int makes of it.                *)
Calculated(value) ==
  /\ \E i \in DOMAIN value : value[i] \in {"+", "-", "*", "/"}
  /\ value \in DOMAIN Meant
  /\ Meant[value] # <<>>
  /\ ~Same(Meant[value], Whole(IntRange \div 2))
Said(name, value) ==
  IF IsNumber(value) THEN {NumberOf(value)}
  ELSE IF name \in RawNumbers /\ Calculated(value)
  THEN {Truncated(Meant[value][1], Meant[value][2])}
  ELSE {}
(* m is what a field of that width holds of n. *)
Stores(name, m, n) ==
  /\ m \in (IF name \in SignedNames
            THEN -(FieldRange(name) \div 2) .. (FieldRange(name) \div 2) - 1
            ELSE 0 .. FieldRange(name) - 1)
  /\ (m - n) % FieldRange(name) = 0

(* A decimal number of an entry is the one that its own attribute says, as  *)
(* much of it as the field's type holds, whatever other entries and files   *)
(* were read before and whatever else their expressions left, unless one    *)
(* has thrown with an operator still on the evaluator's stack.              *)
EntriesAreTheirAttributes ==
  \A i \in DOMAIN lastRead.attrs :
    LET name == lastRead.attrs[i][1]
        value == IF name = "IMAGE_ID" THEN lastRead.attrs[i][2]
                 ELSE WithSectors(lastRead.attrs[i][2])
    IN  /\ name \in NumberNames \ {"START_BYTE_HEX"}
        /\ IsLast(i)
        /\ lastRead.attrs[i][3]
        => \A n \in Said(name, value) : Stores(name, lastRead.entry[name], n)
==============================================================================

---------------------------- MODULE MeidConverter ----------------------------
(***************************************************************************)
(* MeidConverter: an identity in two parts, given in digits of either base *)
(* and printed in both.  The form is known by the number of digits alone.  *)
(* Digits are numbers; a part is kept in as many bits as the code has.     *)
(***************************************************************************)
EXTENDS Integers, Sequences, SequencesExt

CONSTANTS
  HexBase, DecBase,    (* 16 and 10 in the code                             *)
  MeidHex, MeidDec,    (* digits of the two parts of a MEID: <<8, 6>> and   *)
                       (* <<10, 8>>                                         *)
  EsnHex,              (* those of an ESN: <<2, 6>>                         *)
  EsnDec,              (* where a decimal ESN is cut: <<8, 3>>              *)
  EsnDigits,           (* to how many a decimal ESN is filled up: 11        *)
  PartRange            (* 2^32                                              *)

VARIABLES
  first,         (* what was converted first                                *)
  printed,       (* history: the form it was printed in                     *)
  second         (* what was made of that                                   *)

meidVars == <<first, printed, second>>

Forms ==
  [meidHex |-> MeidHex, meidDec |-> MeidDec, esnHex |-> EsnHex, esnDec |-> EsnDec]
BaseOf(form) == IF form \in {"meidHex", "esnHex"} THEN HexBase ELSE DecBase
IsMeid(form) == form \in {"meidHex", "meidDec"}
FormsOf(digits) == {f \in DOMAIN Forms : Forms[f][1] + Forms[f][2] = Len(digits)}

Numeral(digits, base) == FoldLeft(LAMBDA n, d : n * base + d, 0, digits)
Valued(digits, base) == Numeral(digits, base) % PartRange

(* As operator<< prints a number: without zeros before it. *)
Shown(n, base) ==
  LET shown[m \in Nat] ==
        IF m < base THEN <<m>> ELSE Append(shown[m \div base], m % base)
  IN  shown[n]
Zeros(n) == [i \in 1 .. n |-> 0]

(* No number that a part can hold is printed with more digits than the      *)
(* first part of a MEID has.                                                *)
ASSUME MeidAssumption ==
  /\ {HexBase, DecBase} \subseteq Nat \ {0, 1}
  /\ PartRange \in Nat \ {0}
  /\ \A parts \in {MeidHex, MeidDec, EsnHex, EsnDec} : parts \in Nat \X Nat
  /\ Len(Shown(PartRange - 1, HexBase)) <= MeidHex[1]
  /\ Len(Shown(PartRange - 1, DecBase)) <= MeidDec[1]

(* convert *)
Converted(digits) ==
  LET form == CHOOSE f \in FormsOf(digits) : TRUE
      cut == Forms[form][1]
  IN  [form |-> form,
       p1 |-> Valued(SubSeq(digits, 1, cut), BaseOf(form)),
       p2 |-> Valued(SubSeq(digits, cut + 1, Len(digits)), BaseOf(form))]

Endless == <<-1>>
(* getMeidHex *)
MeidHexOf(info) ==
  IF ~IsMeid(info.form) THEN Zeros(MeidHex[1] + MeidHex[2])
  ELSE Shown(info.p1, HexBase) \o Shown(info.p2, HexBase)
(* getMeidDec: a loop that asks for the length of the first part and fills  *)
(* up the second one, until there is no more memory.  If it asked for that  *)
(* of both, as getEsnDec does:                                              *)
MeidDecOf_Filled(info) ==
  LET p1 == Shown(info.p1, DecBase)
      p2 == Shown(info.p2, DecBase)
  IN  IF ~IsMeid(info.form) THEN Zeros(MeidDec[1] + MeidDec[2])
      ELSE p1 \o Zeros(MeidDec[1] + MeidDec[2] - Len(p1) - Len(p2)) \o p2
MeidDecOf(info) ==
  IF ~IsMeid(info.form) THEN Zeros(MeidDec[1] + MeidDec[2])
  ELSE LET p1 == Shown(info.p1, DecBase)
       IN  IF Len(p1) < MeidDec[1] THEN Endless
           ELSE p1 \o Shown(info.p2, DecBase)
(* getEsnHex and getEsnDec of an ESN; that of a MEID is a hash of what      *)
(* getMeidHex gives.                                                        *)
EsnHexOf(info) == Shown(info.p1, HexBase) \o Shown(info.p2, HexBase)
EsnDecOf(info) ==
  LET p1 == Shown(info.p1, DecBase)
      p2 == Shown(info.p2, DecBase)
  IN  p1 \o Zeros(EsnDigits - Len(p1) - Len(p2)) \o p2

ShownAs(info, form) ==
  CASE form = "meidHex" -> MeidHexOf(info)
    [] form = "meidDec" -> MeidDecOf(info)
    [] form = "esnHex" -> EsnHexOf(info)
    [] form = "esnDec" -> EsnDecOf(info)

NotConverted == [form |-> "none", p1 |-> 0, p2 |-> 0]
MeidInit == first = NotConverted /\ printed = "none" /\ second = NotConverted
(* convert refuses what has the length of no form. *)
ConvertFirst ==
  /\ first = NotConverted
  /\ \E f \in DOMAIN Forms :
       \E digits \in [1 .. Forms[f][1] + Forms[f][2] -> 0 .. BaseOf(f) - 1] :
         first' = Converted(digits)
  /\ UNCHANGED <<printed, second>>
ConvertPrinted ==
  /\ first # NotConverted
  /\ second = NotConverted
  /\ \E form \in DOMAIN Forms :
       /\ IsMeid(form) = IsMeid(first.form)
       /\ printed' = form
       /\ LET digits == ShownAs(first, form)
          IN  /\ digits # Endless
              /\ FormsOf(digits) # {}
              /\ second' = Converted(digits)
  /\ UNCHANGED first
MeidNext == ConvertFirst \/ ConvertPrinted

(* A MEID that is printed in either base and taken for a MEID in that base  *)
(* is the same one, whatever zeros its parts begin with: what is printed    *)
(* too short is refused, or taken for something else, an ESN or, if it was  *)
(* decimal, a hexadecimal MEID.  The second part of a decimal one may be    *)
(* too large for its hexadecimal digits; then it is not.                    *)
MeidRoundTrips ==
  /\ IsMeid(printed)
  /\ second.form = printed
  /\ printed = "meidHex" => Len(Shown(first.p2, HexBase)) <= MeidHex[2]
  => second.p1 = first.p1 /\ second.p2 = first.p2
=============================================================================

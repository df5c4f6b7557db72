----------------------------- MODULE MCHdlcSerial -----------------------------
(* Six bytes: the flag, the escape, what they are masked to, and two more.  *)
(* The checksum takes every value, the flag and the escape included.        *)
EXTENDS HdlcSerial

SmallMask(b) == IF b % 2 = 0 THEN b + 1 ELSE b - 1
WeightedSum(s) ==
  FoldLeft(LAMBDA sum, i : sum + i * (s[i] + 1), 1, [i \in DOMAIN s |-> i])
SmallCrc(s) == <<WeightedSum(s) % 6, (WeightedSum(s) \div 2) % 6>>

ShortPayloads == UNION {[1 .. n -> Bytes] : n \in 1 .. 2}

=============================================================================

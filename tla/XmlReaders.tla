------------------------------ MODULE XmlReaders ------------------------------
(***************************************************************************)
(* RawProgramXmlReader and SaharaXmlReader, attribute by attribute, with   *)
(* the numbers of StringHelper.  A reader of raw programs has one          *)
(* evaluator for all it ever reads, and errno is the process's: toInt      *)
(* looks at it and does not clear it.                                      *)
(*                                                                         *)
(* A value is a sequence of characters, DiskSectors among them for the     *)
(* word NUM_DISK_SECTORS.                                                  *)
(***************************************************************************)
EXTENDS MathString

CONSTANTS
  RawAttributes,     (* attributes of a raw program file: <<name, value>>   *)
  SaharaAttributes,  (* those of a sahara_config file                       *)
  SectorDigits,      (* the disk's sectors, as the caller of parse has them *)
  IntRange,          (* 2^32 in the code: how far an int goes               *)
  MaxPerEntry,       (* bound: attributes of one entry                      *)
  MaxReads           (* bound: steps of the readers                         *)

ASSUME ReadersAssumption ==
  /\ \A attr \in RawAttributes \cup SaharaAttributes : attr[2] \in Seq(STRING)
  /\ SectorDigits \in Seq(STRING)
  /\ {IntRange, LongRange} \subseteq Nat \ {0}
  /\ LongRange % IntRange = 0

VARIABLES
  erange,        (* errno is ERANGE                                         *)
  reading,       (* the reader at work: "none", "raw" or "sahara"           *)
  attrs,         (* the attributes of the entry so far: name, value, and    *)
                 (* whether the evaluator, if it was used, was fresh        *)
  entry,         (* its fields so far; one that is missing has any value    *)
  lastRead,      (* the last entry put into a list: attributes and fields   *)
  reads          (* steps still to be made                                  *)

xmlVars == <<mathVars, erange, reading, attrs, entry, lastRead, reads>>

DiskSectors == "disk"
NoEntry == <<>>

RawNumbers ==
  {"SECTOR_SIZE_IN_BYTES", "FILE_SECTOR_OFFSET", "NUM_PARTITION_SECTORS",
   "PHYSICAL_PARTITION_NUMBER", "START_BYTE_HEX", "START_SECTOR"}
NumberNames == RawNumbers \cup {"IMAGE_ID"}
(* int and uint32_t; size_t and off_t are the others. *)
IntNames == {"NUM_PARTITION_SECTORS", "PHYSICAL_PARTITION_NUMBER", "IMAGE_ID"}
SignedNames ==
  {"FILE_SECTOR_OFFSET", "NUM_PARTITION_SECTORS", "PHYSICAL_PARTITION_NUMBER"}

(* A reader passes over the names of the other. *)
ASSUME NamesAssumption ==
  /\ \A attr \in RawAttributes : attr[1] # "IMAGE_ID"
  /\ \A attr \in SaharaAttributes : attr[1] \notin RawNumbers

XmlInit ==
  /\ MathInit
  /\ erange \in BOOLEAN
  /\ reading = "none"
  /\ attrs = NoEntry
  /\ entry = NoEntry
  /\ lastRead = [attrs |-> NoEntry, entry |-> NoEntry]
  /\ reads = MaxReads

----------------------------------------------------------------------------
(* StringHelper                                                             *)

ReplaceSectors(s, c) == IF c = DiskSectors THEN s \o SectorDigits ELSE Append(s, c)
WithSectors(value) == FoldLeft(ReplaceSectors, <<>>, value)

(* strtoull: spaces, a sign, 0x if hexadecimal, digits.                     *)
Unspaced(text) ==
  SubSeq(text, 1 + Cardinality({i \in DOMAIN text : \A j \in 1 .. i : text[j] = Space}),
         Len(text))
WithoutFirst(heads, text) ==
  IF \E head \in heads : IsStrictPrefix(head, text)
  THEN SubSeq(text, 1 + Len(CHOOSE head \in heads : IsStrictPrefix(head, text)), Len(text))
  ELSE text
TextNumber(text, base) ==
  LET signed == Unspaced(text)
      plain == WithoutFirst({<<"+">>, <<"-">>}, signed)
      n == NumberIn(base, IF base = 16 THEN WithoutFirst({<<"0", "x">>}, plain) ELSE plain)
  IN  IF IsStrictPrefix(<<"-">>, signed) THEN -n ELSE n
(* The decimal digits of a number, read as hexadecimal ones. *)
DigitsAsHex[n \in Nat] == IF n < 10 THEN n ELSE 16 * DigitsAsHex[n \div 10] + (n % 10)

(* toInt: what strtoull cannot hold leaves errno ERANGE, which toInt looks  *)
(* at; it is not clear before.  With errno cleared first:                   *)
Overflows(n) == Abs(n) >= LongRange
ToIntThrows_Cleared(errno, n) == Overflows(n)
ToIntThrows(errno, n) == errno \/ Overflows(n)
(* static_cast from unsigned long long to what the field is. *)
FieldRange(name) == IF name \in IntNames THEN IntRange ELSE LongRange
Cast(name, n) ==
  LET m == (n % LongRange) % FieldRange(name)
  IN  IF name \in SignedNames /\ 2 * m >= FieldRange(name) THEN m - FieldRange(name) ELSE m

----------------------------------------------------------------------------
(* One attribute.                                                           *)

Keeps(attr, n, clean) ==
  /\ attrs' = Append(attrs, <<attr[1], attr[2], clean>>)
  /\ entry' = (attr[1] :> n) @@ entry
  /\ UNCHANGED <<reading, lastRead>>
(* An exception ends the parse, and the entries read so far are lost. *)
Drops ==
  /\ reading' = "none"
  /\ attrs' = NoEntry
  /\ entry' = NoEntry
  /\ UNCHANGED lastRead

Converts(attr, n, clean, errno) ==
  /\ erange' = (errno \/ Overflows(n))
  /\ IF ToIntThrows(errno, n) THEN Drops ELSE Keeps(attr, Cast(attr[1], n), clean)
ReadsValue(attr, n, clean, errno) ==
  CASE attr[1] \in NumberNames -> Converts(attr, n, clean, errno)
    [] attr[1] = "SIZE_IN_KB" ->
         (* toFloat returns nothing, or does not return. *)
         /\ erange' = errno
         /\ IF errno \/ attr[2] = <<>> THEN Drops ELSE Keeps(attr, 0, clean) \/ Drops
    [] OTHER -> Keeps(attr, n, clean) /\ erange' = errno

(* START_BYTE_HEX is always read as hexadecimal: isHex says yes to all that *)
(* toInt takes.                                                             *)
Base(name) == IF name = "START_BYTE_HEX" THEN 16 ELSE 10
(* The text that a result is printed as, read again. *)
Reread(name, n) == IF Base(name) = 16 THEN Sign(n) * DigitsAsHex[Abs(n)] ELSE n
(* Without its fraction, when it is compared with an int.  2^31 is none:    *)
(* where the cast gives the nearest, it is taken for equal.                 *)
Printed(q) ==
  {Truncated(q[1], q[2])}
    \cup (IF Same(q, Whole(IntRange \div 2)) THEN {IntRange \div 2 - 1} ELSE {})

(* As RequiresEvaluation, of sums only. *)
RequiresEvaluation_Sums(value) ==
  \E i \in DOMAIN value : value[i] \in {"+", "-"}
RequiresEvaluation(value) ==
  \E i \in DOMAIN value : value[i] \in {"+", "-", "*", "/"}

(* An exception comes before, or after, a number too long is converted. *)
ReadsRaw ==
  /\ reading = "raw"
  /\ \E attr \in RawAttributes :
       LET value == WithSectors(attr[2])
       IN  IF RequiresEvaluation(value)
           THEN /\ Evaluates(value)
                /\ IF evaluated'.ok
                   THEN \E n \in Printed(evaluated'.value) :
                          ReadsValue(attr, Reread(attr[1], n), evaluated'.fresh,
                                     erange \/ Overlong(value))
                   ELSE Drops /\ erange' \in {erange, erange \/ Overlong(value)}
           ELSE /\ ReadsValue(attr, TextNumber(value, Base(attr[1])), TRUE, erange)
                /\ UNCHANGED <<evaluator, evaluated>>
ReadsSahara ==
  /\ reading = "sahara"
  /\ \E attr \in SaharaAttributes :
       IF attr[2] = <<>> /\ attr[1] # "PROGRAMMER"
       THEN UNCHANGED <<reading, attrs, entry, lastRead, erange>>
       ELSE ReadsValue(attr, TextNumber(attr[2], 10), TRUE, erange)
  /\ UNCHANGED <<evaluator, evaluated>>

----------------------------------------------------------------------------
(* parse: of a file by a new reader, or by the one there is.                *)

StartsFile ==
  /\ reading = "none"
  /\ reading' \in {"raw", "sahara"}
  /\ \/ UNCHANGED <<evaluator, evaluated>>
     \/ /\ evaluator' = NoStacks
        /\ evaluated' = NotEvaluated
  /\ UNCHANGED <<erange, attrs, entry, lastRead>>
EndsEntry ==
  /\ reading # "none"
  /\ lastRead' = [attrs |-> attrs, entry |-> entry]
  /\ attrs' = NoEntry
  /\ entry' = NoEntry
  /\ UNCHANGED <<reading, evaluator, evaluated, erange>>
EndsFile ==
  /\ reading # "none"
  /\ attrs = NoEntry
  /\ reading' = "none"
  /\ UNCHANGED <<attrs, entry, lastRead, evaluator, evaluated, erange>>

ReadsAttribute ==
  /\ Len(attrs) < MaxPerEntry
  /\ ReadsRaw \/ ReadsSahara
XmlNext ==
  /\ reads > 0
  /\ reads' = reads - 1
  /\ UNCHANGED evals
  /\ \/ StartsFile
     \/ ReadsAttribute
     \/ EndsEntry
     \/ EndsFile

----------------------------------------------------------------------------
(* A number that 64 bits do not hold: the attribute itself, or, where the   *)
(* value is evaluated, a number in it.                                      *)
OutOfRange(attr) ==
  LET value == IF attr[1] \in RawNumbers THEN WithSectors(attr[2]) ELSE attr[2]
  IN  IF attr[1] \in RawNumbers /\ RequiresEvaluation(value) THEN Overlong(value)
      ELSE Overflows(TextNumber(value, Base(attr[1])))

(* No entry is returned with a number made of one that 64 bits do not hold, *)
(* be it in an attribute of its own or in an expression, whose conversion   *)
(* looks at no error: errno keeps it for the toInt that comes next.  (A     *)
(* number that 64 bits hold and its field does not is cut off: see Cast.)   *)
RangeNeverPasses ==
  \A i \in DOMAIN lastRead.attrs :
    lastRead.attrs[i][1] \in NumberNames => ~OutOfRange(lastRead.attrs[i])
==============================================================================

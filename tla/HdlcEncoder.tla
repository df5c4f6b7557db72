----------------------------- MODULE HdlcEncoder -----------------------------
(***************************************************************************)
(* HdlcEncoder: frames of bytes that end with a flag and contain none.     *)
(*                                                                         *)
(* The alphabet is any set of bytes that Masked maps to itself; Crc is any *)
(* checksum of two bytes, the low one first.                               *)
(***************************************************************************)
EXTENDS Naturals, Sequences, SequencesExt

CONSTANTS
  Bytes,         (* the alphabet                                            *)
  Flag,          (* HDLC_CONTROL_CHAR                                       *)
  Esc,           (* HDLC_ESC_CHAR                                           *)
  Masked(_),     (* a byte xor HDLC_ESC_MASK                                *)
  Crc(_)         (* crc16                                                   *)

ASSUME AlphabetAssumption ==
  /\ {Flag, Esc} \subseteq Bytes
  /\ Flag # Esc
  /\ \A b \in Bytes : Masked(b) \in Bytes /\ Masked(Masked(b)) = b
  /\ {Masked(Flag), Masked(Esc)} \cap {Flag, Esc} = {}

CrcLength == 2

----------------------------------------------------------------------------
(* encode                                                                   *)

Escaped(b) == IF b \in {Flag, Esc} THEN <<Esc, Masked(b)>> ELSE <<b>>

Stuff(frame, b) == frame \o Escaped(b)
Stuffed(bytes) == FoldLeft(Stuff, <<>>, bytes)

(* As EncodeVector, but the checksum is not escaped. *)
EncodeVector_BareCrc(payload) ==
  <<Flag>> \o Stuffed(payload) \o Crc(payload) \o <<Flag>>

EncodeVector(payload) ==
  <<Flag>> \o Stuffed(payload \o Crc(payload)) \o <<Flag>>

EncodePointer(payload) ==
  IF payload = <<>> THEN <<>> ELSE EncodeVector(payload)

----------------------------------------------------------------------------
(* decode                                                                   *)

(* A checksum of less than no bytes runs through all of the memory. *)
Crashes == [how |-> "crash", data |-> <<>>]
Gives(data) == [how |-> "data", data |-> data]

(* The loops take one byte after the other; an escape stands for the byte   *)
(* after it, be it a flag.                                                  *)
Fresh == [bytes |-> <<>>, escaped |-> FALSE, erased |-> FALSE, ended |-> FALSE]

Unescape(acc, b) ==
  IF acc.escaped
  THEN [acc EXCEPT !.bytes = Append(@, Masked(b)), !.escaped = FALSE]
  ELSE IF b = Esc THEN [acc EXCEPT !.escaped = TRUE, !.erased = TRUE]
  ELSE [acc EXCEPT !.bytes = Append(@, b)]

UnescapeToFlag(acc, b) ==
  IF acc.ended \/ (b = Flag /\ ~acc.escaped) THEN [acc EXCEPT !.ended = TRUE]
  ELSE Unescape(acc, b)

(* An escape in the last place takes the byte that lies after the data. *)
Completed(acc, past) == IF acc.escaped THEN Unescape(acc, past) ELSE acc

CrcFits(bytes, n) == Crc(SubSeq(bytes, 1, n)) = SubSeq(bytes, n + 1, n + 2)

(* As DecodePointer, but a flag does not end the data. *)
DecodePointer_PastFlag(data, past) ==
  LET body == IF Head(data) = Flag THEN Tail(data) ELSE data
      bytes == Completed(FoldLeft(Unescape, Fresh, body), past).bytes
      n == Len(bytes) - CrcLength
  IN  IF Len(bytes) < CrcLength THEN Crashes
      ELSE Gives(IF CrcFits(bytes, n) THEN SubSeq(bytes, 1, n) ELSE bytes)

(* A wrong checksum is reported on the console and stays on the data. *)
DecodePointer(data, past) ==
  LET body == IF Head(data) = Flag THEN Tail(data) ELSE data
      bytes == Completed(FoldLeft(UnescapeToFlag, Fresh, body), past).bytes
      n == Len(bytes) - CrcLength
  IN  IF Len(bytes) < CrcLength THEN Crashes
      ELSE Gives(IF CrcFits(bytes, n) THEN SubSeq(bytes, 1, n) ELSE bytes)

(* The first flag may be of the payload: the escapes are gone by then.      *)
(* *data.end() is the byte after the data: what an erase has left behind,   *)
(* the old last byte, or else what memory happens to hold there.  An escape *)
(* in the last place erases the end of the vector.                          *)
DecodeVector(data, past) ==
  LET all == FoldLeft(Unescape, Fresh, data)
      opens == all.bytes # <<>> /\ Head(all.bytes) = Flag
      bytes == IF opens THEN Tail(all.bytes) ELSE all.bytes
      end == IF all.erased \/ opens THEN Last(data) ELSE past
      n == Len(bytes) - (CrcLength + IF end = Flag THEN 1 ELSE 0)
  IN  IF all.escaped \/ Len(bytes) < CrcLength + (IF end = Flag THEN 1 ELSE 0)
      THEN Crashes
      ELSE Gives(IF CrcFits(bytes, n) THEN SubSeq(bytes, 1, n) ELSE bytes)

=============================================================================

------------------------------ MODULE HdlcSerial ------------------------------
(***************************************************************************)
(* HdlcSerial: frames written to a device and read from it, over a line of *)
(* bytes that may fall silent anywhere.                                    *)
(*                                                                         *)
(* The serial library's readline returns what it read up to and including  *)
(* the flag; HdlcSerial appends another.  keepsFlag allows for a library   *)
(* that returns it without.                                                *)
(***************************************************************************)
EXTENDS HdlcEncoder

CONSTANTS
  Payloads,      (* what is sent in frames                                  *)
  Calls,         (* the overloads of read: "pointer", "vector"              *)
  Sizes,         (* the sizes of the buffers that are read into             *)
  KeepsFlag,     (* whether readline returns the flag                       *)
  DeviceOpens,   (* whether the device opens its frames with a flag         *)
  Faults,        (* "late": a read may time out before a frame;             *)
                 (* "stall": within one                                     *)
  MaxFrames      (* bound: frames sent, in both directions                  *)

ASSUME FramesAssumption ==
  /\ Payloads \subseteq Seq(Bytes) \ {<<>>}
  /\ \A p \in Payloads : Crc(p) \in Seq(Bytes) /\ Len(Crc(p)) = CrcLength
  /\ Calls \subseteq {"pointer", "vector"}
  /\ Sizes \subseteq Nat
  /\ KeepsFlag \subseteq BOOLEAN
  /\ DeviceOpens \in BOOLEAN
  /\ Faults \subseteq {"late", "stall"}
  /\ MaxFrames \in Nat

VARIABLES
  keepsFlag,
  requests,      (* history: what the host wrote                            *)
  toDevice,      (* the bytes of it the device has not taken                *)
  taken,         (* what the device made of the others                      *)
  answers,       (* history: what the device sent                           *)
  heard,         (* how many of them a read has ended behind                *)
  toHost,        (* the bytes of it the host has not read                   *)
  torn,          (* whether a read has ended within the next answer         *)
  last           (* the last read and what it returned                      *)

requestVars == <<requests, toDevice, taken>>
answerVars == <<answers, heard, toHost, torn, last>>
vars == <<keepsFlag, requestVars, answerVars>>

NoRead ==
  [call |-> "none", whole |-> FALSE, sent |-> <<>>, got |-> Gives(<<>>)]

Init ==
  /\ keepsFlag \in KeepsFlag
  /\ requests = <<>>
  /\ toDevice = <<>>
  /\ taken = <<>>
  /\ answers = <<>>
  /\ heard = 0
  /\ toHost = <<>>
  /\ torn = FALSE
  /\ last = NoRead

Alive == last.got.how # "crash"
MaySend == Len(requests) + Len(answers) < MaxFrames

WriteEncoded(payload, frame) ==
  /\ requests' = Append(requests, payload)
  /\ toDevice' = toDevice \o frame
  /\ UNCHANGED <<keepsFlag, taken, answerVars>>

Write ==
  /\ Alive
  /\ MaySend
  /\ \E p \in Payloads : \/ WriteEncoded(p, EncodePointer(p))
                         \/ WriteEncoded(p, EncodeVector(p))

----------------------------------------------------------------------------
(* The device.                                                              *)

FirstFlag(bytes) == CHOOSE n \in DOMAIN bytes :
  bytes[n] = Flag /\ \A i \in 1 .. n - 1 : bytes[i] # Flag

(* It takes what comes before a flag, when that is anything, for a frame,   *)
(* and drops one whose checksum is wrong.                                   *)
DeviceTakes ==
  /\ toDevice # <<>>
  /\ LET n == FirstFlag(toDevice)
         bytes == FoldLeft(Unescape, Fresh, SubSeq(toDevice, 1, n - 1)).bytes
         size == Len(bytes) - CrcLength
     IN  /\ toDevice' = SubSeq(toDevice, n + 1, Len(toDevice))
         /\ taken' = IF size > 0 /\ CrcFits(bytes, size)
                     THEN Append(taken, SubSeq(bytes, 1, size)) ELSE taken
  /\ UNCHANGED <<keepsFlag, requests, answerVars>>

DeviceSends ==
  /\ MaySend
  /\ \E p \in Payloads :
       /\ answers' = Append(answers, p)
       /\ toHost' = toHost \o (IF DeviceOpens THEN <<Flag>> ELSE <<>>)
                           \o Stuffed(p \o Crc(p)) \o <<Flag>>
  /\ UNCHANGED <<keepsFlag, requestVars, heard, torn, last>>

----------------------------------------------------------------------------
(* read                                                                     *)

(* What read decodes of a line that ended with a flag, and of one that did  *)
(* not.                                                                     *)
Line(bytes, flagged) ==
  (IF flagged /\ ~keepsFlag THEN SubSeq(bytes, 1, Len(bytes) - 1) ELSE bytes)
    \o <<Flag>>

(* As PointerRead, but a line that is too long is refused. *)
PointerRead_Refusing(line, size, past) ==
  IF Len(line) > size THEN [how |-> "refused", data |-> <<>>]
  ELSE DecodePointer(line, past)

(* A line longer than the buffer is decoded beyond the buffer's end: what   *)
(* comes of it, "undefined", may be anything.                               *)
PointerRead(line, size, past) ==
  IF Len(line) > size THEN [how |-> "undefined", data |-> <<>>]
  ELSE DecodePointer(line, past)

(* The buffer takes the size of the line, whatever size was asked for. *)
VectorRead(line, past) == DecodeVector(line, past)

Outcomes(call, line, size) ==
  {IF call = "pointer" THEN PointerRead(line, size, past)
                       ELSE VectorRead(line, past) : past \in Bytes}

Returns(line, whole, sent) ==
  \E size \in Sizes, call \in Calls :
    \E got \in Outcomes(call, line, size) :
      last' = [call |-> call, got |-> got, sent |-> sent,
               whole |-> whole /\ (call = "pointer" => Len(line) <= size)]

(* The line ends with a flag.  (When that is the flag that opens a frame,   *)
(* it is the last read: its line is too short to be decoded.)               *)
ReadToFlag ==
  /\ Alive
  /\ toHost # <<>>
  /\ LET n == FirstFlag(toHost) IN
       /\ Returns(Line(SubSeq(toHost, 1, n), TRUE), ~torn, answers[heard + 1])
       /\ toHost' = SubSeq(toHost, n + 1, Len(toHost))
  /\ heard' = heard + 1
  /\ torn' = FALSE
  /\ UNCHANGED <<keepsFlag, requestVars, answers>>

(* Where a read may run out of time. *)
Breaks ==
  (IF "late" \in Faults THEN {0} ELSE {})
    \cup (IF "stall" \in Faults /\ toHost # <<>>
          THEN 1 .. FirstFlag(toHost) - 1 ELSE {})

ReadTimesOut ==
  /\ Alive
  /\ \E n \in Breaks :
       /\ Returns(Line(SubSeq(toHost, 1, n), FALSE), FALSE, <<>>)
       /\ toHost' = SubSeq(toHost, n + 1, Len(toHost))
       /\ torn' = (torn \/ n > 0)
  /\ UNCHANGED <<keepsFlag, requestVars, answers, heard>>

Next == Write \/ DeviceTakes \/ DeviceSends \/ ReadToFlag \/ ReadTimesOut

Spec == Init /\ [][Next]_vars

----------------------------------------------------------------------------
TypeOK ==
  /\ keepsFlag \in BOOLEAN
  /\ \A payloads \in {requests, taken, answers} : payloads \in Seq(Seq(Bytes))
  /\ {toDevice, toHost, last.sent, last.got.data} \subseteq Seq(Bytes)
  /\ heard \in 0 .. Len(answers)
  /\ torn \in BOOLEAN
  /\ last.got.how \in {"data", "crash", "undefined"}

(* Requests of both write overloads, back to back on the line, reach the    *)
(* device one by one and unchanged, flags, escapes and checksums that look  *)
(* like them included.                                                      *)
RequestsArrive ==
  /\ IsPrefix(taken, requests)
  /\ toDevice = <<>> => taken = requests

(* A read into a buffer that holds the line gives the payload of the next   *)
(* answer, whether or not readline returns the flag; also after reads that  *)
(* timed out, once the rest of the answer they cut has been read.           *)
PointerReadDelivers ==
  last.call = "pointer" /\ last.whole => last.got = Gives(last.sent)

(* "Reads and unescpaes theCRC'ed HDLC packet" (hdlc_serial.h), of the      *)
(* vector overload.                                                         *)
VectorReadDelivers ==
  last.call = "vector" /\ last.whole => last.got = Gives(last.sent)

=============================================================================

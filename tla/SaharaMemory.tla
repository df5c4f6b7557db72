----------------------------- MODULE SaharaMemory -----------------------------
(***************************************************************************)
(* SaharaSerial::readMemory against a device in memory debug mode.         *)
(*                                                                         *)
(* The host asks for memory in requests of at most MaxRequest, and after   *)
(* each write reads for as long as available() says there is something to  *)
(* read.  Nothing in it waits for the answer: a device slower than the     *)
(* host's poll is simply asked again.                                      *)
(*                                                                         *)
(* The unit of memory is the size of a SaharaEndImageTransferResponse, by  *)
(* which the device refuses; the content of a unit is its own address.     *)
(***************************************************************************)
EXTENDS Integers, Sequences, SequencesExt

CONSTANTS
  MaxRequest,     (* SAHARA_MAX_MEMORY_REQUEST_SIZE                          *)
  Ranges,         (* the ranges [address, size] a program may ask for        *)
  Speeds,         (* "prompt": the device answers before the host polls or   *)
                  (* gives up a read; "slow": it may take longer than both   *)
  Refusals,       (* the requests, by number, the device may refuse          *)
  MaxUnanswered   (* bound: requests under way to the device at one time     *)

ASSUME MemoryAssumption ==
  /\ MaxRequest \in Nat \ {0}
  /\ Ranges \subseteq [address : Nat, size : Nat \ {0}]
  /\ Speeds \subseteq {"prompt", "slow"}
  /\ Refusals \subseteq Nat
  /\ MaxUnanswered \in Nat \ {0}

VARIABLES
  pc,             (* "write", "poll", "returned" or "threw"                  *)
  range,          (* address and size, the arguments                         *)
  readSoFar,      (* the locals of these names                               *)
  packetSize,
  buffer,
  out,            (* the vector the data is returned in                      *)
  speed,          (* the device's                                            *)
  toDevice,       (* requests it has not yet taken                           *)
  taken,          (* how many it has taken                                   *)
  sending,        (* what it has still to send                               *)
  rx              (* what the host has received and not read                 *)

hostVars == <<pc, range, readSoFar, packetSize, buffer, out>>
deviceVars == <<speed, taken, sending>>
vars == <<hostVars, deviceVars, toDevice, rx>>

Refusal == -1
Memory(address, size) == [i \in 1 .. size |-> address + i - 1]

Init ==
  /\ pc = "write"
  /\ range \in Ranges
  /\ readSoFar = 0
  /\ packetSize = 0
  /\ buffer = <<>>
  /\ out = <<>>
  /\ speed \in Speeds
  /\ toDevice = <<>>
  /\ taken = 0
  /\ sending = <<>>
  /\ rx = <<>>

----------------------------------------------------------------------------
(* The host. *)

(* As RequestSize, but all that is left is asked for at once. *)
RequestSize_NoMaximum(size, soFar) == size - soFar

(* As RequestSize, but the last request is as long as the others. *)
RequestSize_Whole(size, soFar) ==
  IF size > MaxRequest THEN MaxRequest ELSE size

(* A range that fits one request is asked for whole each time. *)
RequestSize(size, soFar) ==
  IF size <= MaxRequest THEN size
  ELSE IF size - soFar < MaxRequest THEN size - soFar ELSE MaxRequest

(* As Request, but from the start of the range. *)
Request_SameAddress(r, soFar) ==
  [address |-> r.address, size |-> RequestSize(r.size, soFar)]

Request(r, soFar) ==
  [address |-> r.address + soFar, size |-> RequestSize(r.size, soFar)]

Asks ==
  /\ readSoFar < range.size
  /\ Len(toDevice) < MaxUnanswered
  /\ packetSize' = RequestSize(range.size, readSoFar)
  /\ toDevice' = Append(toDevice, Request(range, readSoFar))
  /\ pc' = "poll"
  /\ UNCHANGED <<range, readSoFar, buffer, out, deviceVars, rx>>

(* As WriteRequest, but only while nothing has been read. *)
WriteRequest_Once == pc = "write" /\ buffer = <<>> /\ Asks

WriteRequest == pc = "write" /\ Asks

(* The time a poll or a read takes is not enough for what is still to come. *)
Silent == speed = "slow" \/ (toDevice = <<>> /\ sending = <<>>)

Poll_Nothing ==
  /\ pc = "poll"
  /\ rx = <<>>
  /\ Silent
  /\ pc' = "write"
  /\ UNCHANGED <<range, readSoFar, packetSize, buffer, out, deviceVars,
                 toDevice, rx>>

(* As IsErrorResponse, but a refusal is taken for memory. *)
IsErrorResponse_Never(buf, rxSize) == FALSE

(* isErrorResponse looks at the first bytes of buffer and the size of this  *)
(* read: the two are of one packet only in the first read.                  *)
IsErrorResponse(buf, rxSize) == buf[1] = Refusal /\ rxSize = 1

(* read() appends to the buffer, and empty() does not empty it. *)
Appended(buf, words) == buf \o words

Poll_Reads ==
  /\ pc = "poll"
  /\ rx # <<>>
  /\ Len(rx) >= packetSize \/ Silent
  /\ LET n == IF Len(rx) >= packetSize THEN packetSize ELSE Len(rx) IN
       /\ rx' = SubSeq(rx, n + 1, Len(rx))
       /\ readSoFar' = readSoFar + n
       /\ buffer' = Appended(buffer, SubSeq(rx, 1, n))
       /\ \/ /\ IsErrorResponse(buffer', n)
             /\ pc' = "threw"
             /\ UNCHANGED out
          \/ /\ ~IsErrorResponse(buffer', n)
             /\ out' = out \o buffer'
             /\ UNCHANGED pc
  /\ UNCHANGED <<range, packetSize, deviceVars, toDevice>>

Return ==
  /\ pc = "write"
  /\ readSoFar >= range.size
  /\ pc' = "returned"
  /\ UNCHANGED <<range, readSoFar, packetSize, buffer, out, deviceVars,
                 toDevice, rx>>

----------------------------------------------------------------------------
(* The device: it takes one request after the other, and what it sends      *)
(* arrives in pieces of any size.                                           *)

TakesRequest ==
  /\ sending = <<>>
  /\ toDevice # <<>>
  /\ toDevice' = Tail(toDevice)
  /\ taken' = taken + 1
  /\ \/ sending' = Memory(Head(toDevice).address, Head(toDevice).size)
     \/ taken' \in Refusals /\ sending' = <<Refusal>>
  /\ UNCHANGED <<hostVars, speed, rx>>

Sends ==
  /\ \E n \in 1 .. Len(sending) :
       /\ rx' = rx \o SubSeq(sending, 1, n)
       /\ sending' = SubSeq(sending, n + 1, Len(sending))
  /\ UNCHANGED <<hostVars, speed, taken, toDevice>>

----------------------------------------------------------------------------
Next ==
  \/ WriteRequest
  \/ Poll_Nothing
  \/ Poll_Reads
  \/ Return
  \/ TakesRequest
  \/ Sends

Spec == Init /\ [][Next]_vars

(* The call runs on and the device answers. *)
FairSpec ==
  /\ Spec
  /\ WF_vars(WriteRequest \/ Poll_Nothing \/ Poll_Reads \/ Return)
  /\ WF_vars(TakesRequest \/ Sends)

----------------------------------------------------------------------------
TypeOK ==
  /\ pc \in {"write", "poll", "returned", "threw"}
  /\ range \in Ranges
  /\ readSoFar \in Nat
  /\ packetSize \in 0 .. MaxRequest
  /\ \A s \in {buffer, out, sending, rx} : s \in Seq(Nat \cup {Refusal})
  /\ speed \in Speeds
  /\ toDevice \in Seq([address : Nat, size : 1 .. MaxRequest])
  /\ taken \in Nat

(* The device is never asked for memory outside of the caller's range: with *)
(* a prompt device, and with any device when the range takes several        *)
(* requests (the sizes readMemory computes from readSoFar).                 *)
AsksInRange ==
  speed = "prompt" \/ range.size > MaxRequest =>
    \A i \in DOMAIN toDevice :
      /\ toDevice[i].address >= range.address
      /\ toDevice[i].address + toDevice[i].size <= range.address + range.size

Asked == Memory(range.address, range.size)

(* With a prompt device that refuses nothing, the memory asked for is what  *)
(* the data returned by readMemory ends with, whole and in order: the last  *)
(* copy of its buffer holds all that was read.                              *)
EndsWithAsked ==
  (pc = "returned" /\ speed = "prompt" /\ Refusal \notin Range(buffer)) =>
    readSoFar = range.size /\ IsSuffix(Asked, out)

(* A refusal of the first request is reported by an exception, and so never *)
(* returned for memory, when the device is prompt.                          *)
FirstRefusalThrows ==
  speed = "prompt" /\ out # <<>> => out[1] = range.address

(* "Read size starting from address and store it in a vector buffer" (the   *)
(* comment on readMemory): what is returned is the memory asked for.        *)
MemoryIsRead == pc = "returned" /\ speed = "prompt" => out = Asked

(* The call comes to an end while the device answers. *)
CallEnds == <>(pc \in {"returned", "threw"})

=============================================================================

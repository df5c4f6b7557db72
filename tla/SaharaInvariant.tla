---------------------------- MODULE SaharaInvariant ----------------------------
(***************************************************************************)
(* Why the Sahara system is correct: until the device restarts, what the   *)
(* host believes of the session is what the device is doing.               *)
(*                                                                         *)
(* The two exchange a single token.  It is a write on its way to the       *)
(* device, or an answer on its way to the host, or the request the program *)
(* holds; never two of these, so an answer that is read is the answer to   *)
(* the last write although SaharaSerial hardly looks at what it reads.     *)
(***************************************************************************)
EXTENDS SaharaSystem

Quiet == rx = <<>> /\ toDevice = <<>>
Sent(msg) == rx = <<>> /\ toDevice = <<msg>>
Answered(words) == rx = words /\ toDevice = <<>>
Refused ==
  /\ Len(rx) = 4 /\ Answered(EndPacket(rx[3], StatusError))
  /\ phase \in {"halt", "ready"}

(* The port and the running call. *)
PortInUse ==
  /\ line # "broken"
  /\ line = "closed" => sess = "none"
  /\ pc # "idle" => line = "open" /\ threw = NoThrow

(* At most one write is under way; the device that waits for image data     *)
(* will find the data it waits for, or that the host gave up.               *)
Part(r) == FileData(r.imageId, r.offset, r.size)

OneWrite ==
  /\ Len(toDevice) <= 1
  /\ phase = "tx" /\ toDevice # <<>>
       => toDevice[1] \in {Part(asked), Packet(Reset, 0)}

(* The request it waits on is one it may make: never a request of nothing,  *)
(* which is what the program is given when the transfer has ended.          *)
AsksForSomething == phase = "tx" => asked \in Wanted

(* A hello that can be read is the device's last word. *)
HelloIsLatest ==
  rx # <<>> /\ rx[1] = Hello
    => Len(rx) = 12 /\ Answered(HelloPacket(rx[6])) /\ phase = "hello"

(* The request in the program's hands. *)
HoldsRequest ==
  /\ Quiet
  /\ \/ phase = "tx" /\ nextOffset = asked
     \/ phase = "ended" /\ AsksNothing(nextOffset)
                        /\ nextOffset.imageId = initialImage

(* What is known between two calls, while no call has failed. *)
IdleInStep ==
  /\ sess = "none" => HelloIsLatest
  /\ sess # "none" => Quiet
  /\ sess = "hello" => phase = "hello"
  /\ sess \in {"image", "reread"} => HoldsRequest
  /\ sess = "command" => phase = "ready"
  /\ sess = "memory" => phase = "memory"

(* What is known while a call blocks. *)
HelloInStep ==
  \/ Sent(Packet(HelloResponse, mode)) /\ phase = "hello"
  \/ Answered(ReadDataPacket(asked)) /\ phase = "tx" /\ mode = ImageTxPending
  \/ Answered(ReadyPacket) /\ phase = "ready" /\ mode = CommandMode
  \/ Answered(MemoryDebugPacket) /\ phase = "memory" /\ mode = MemoryDebugMode
  \/ Refused

IsResult(words) == \A i \in DOMAIN words : words[i] = DataWord(command)

ExecuteInStep ==
  /\ ret = <<>>
  /\ \/ Sent(Packet(Execute, command)) /\ phase = "ready"
     \/ /\ Answered(ExecutePacket(command, remaining))
        /\ phase = "exec" /\ executing = command /\ remaining > 0
     \/ Refused

ExecuteDataInStep ==
  /\ 4 * Len(ret) < dataSize
  /\ 4 * (Len(ret) + Len(rx) + remaining) = dataSize
  /\ IsResult(ret) /\ IsResult(rx)
  /\ executing = command
  /\ \/ Sent(Packet(ExecuteData, command)) /\ phase = "exec"
     \/ toDevice = <<>> /\ phase = IF remaining = 0 THEN "ready" ELSE "data"

ImageInStep ==
  \/ Sent(Part(asked)) /\ asked.imageId = initialImage /\ phase = "tx"
  \/ Answered(ReadDataPacket(asked)) /\ phase = "tx"
  \/ /\ Answered(EndPacket(initialImage, StatusSuccess))
     /\ phase = "ended"
  \/ Refused

DoneInStep ==
  \/ Sent(Packet(Done, 0)) /\ phase = "ended"
  \/ Answered(DonePacket) /\ phase = "left"
  \/ Refused

CallInStep ==
  /\ pc \in {"readHello", "switchReadHello"} => HelloIsLatest
  /\ pc = "sendHello" => HelloInStep
  /\ pc = "executeResponse" => ExecuteInStep
  /\ pc = "executeData" => ExecuteDataInStep
  /\ pc = "sendImage" => /\ Quiet /\ phase = "tx"
                         /\ nextOffset = asked
                         /\ nextOffset.imageId = initialImage
  /\ pc = "nextImageOffset" => ImageInStep
  /\ pc = "readNextImageOffset" => HoldsRequest
  /\ pc = "sendDone" => DoneInStep

(* A result that was returned is whole and of the last command. *)
ResultKept ==
  pc \notin {"executeResponse", "executeData"} /\ ret # <<>>
    => IsResult(ret) /\ 4 * Len(ret) = dataSize

(* Host and device are in step: the host's place in the protocol, the       *)
(* writes and answers under way and the device's phase agree, as long as    *)
(* the device has not restarted and reads end at the ends of packets.       *)
InStep ==
  restarts = 0 =>
    /\ PortInUse
    /\ OneWrite
    /\ AsksForSomething
    /\ ResultKept
    /\ sess = "over" => phase = "left"
    /\ Running => IdleInStep
    /\ CallInStep

=============================================================================

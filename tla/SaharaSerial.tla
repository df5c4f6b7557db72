----------------------------- MODULE SaharaSerial -----------------------------
(***************************************************************************)
(* The host: OpenPST::QC::SaharaSerial and the program that calls it.      *)
(*                                                                         *)
(* A public method is one action that makes the call (and its first write) *)
(* and one action for each read at which it blocks, named _Returns; pc     *)
(* says at which read the host is blocked.  An exception ends the call and *)
(* is recorded in threw; the program's catch blocks then close the port.   *)
(***************************************************************************)
EXTENDS SaharaLink

CONSTANTS
  FileSize,   (* the size of the file the program has for each image       *)
  Commands,   (* the client commands it may send                           *)
  Habits      (* "careful": calls sendImage again while the device asks    *)
              (*    for more of the same image                             *)
              (* "rereads": may call readNextImageOffset after sendHello   *)
              (* "aborts": may close or reset the session at any point     *)

ASSUME FileSizeAssumption ==
  /\ DOMAIN FileSize \subseteq Nat
  /\ \A image \in DOMAIN FileSize : FileSize[image] \in Nat \ {0}
ASSUME CommandsAssumption == Commands \subseteq Nat
ASSUME HabitsAssumption ==
  Habits \subseteq {"careful", "rereads", "aborts"}

VARIABLES
  pc,            (* "idle", or the read at which the running call blocks   *)
  threw,         (* the call that ended with an exception, and whether the *)
                 (* port itself failed                                     *)
  sess,          (* what the program knows of the session                  *)
  mode,          (* the mode in the last hello read or sent                *)
  nextOffset,    (* the device's read request in the program's hands       *)
  initialImage,  (* initialReadRequest.imageId of the last sendImage       *)
  totalSent,     (* sendImage's local of that name                         *)
  command,       (* the command of the last sendClientCommand              *)
  dataSize,      (* its local of that name, in bytes                       *)
  ret            (* its result so far, in words                            *)

imageVars == <<nextOffset, initialImage, totalSent>>
commandVars == <<command, dataSize, ret>>
hostVars == <<pc, threw, sess, mode, imageVars, commandVars>>

Images == DOMAIN FileSize
NoImage == -1
NoThrow == [at |-> "none", io |-> FALSE]
Calls == {"readHello", "switchReadHello", "sendHello", "executeResponse",
          "executeData", "sendImage", "nextImageOffset",
          "readNextImageOffset", "sendDone", "sendReset"}
Sessions == {"none", "hello", "reread", "image", "command", "memory", "over"}

HostInit ==
  /\ pc = "idle"
  /\ threw = NoThrow
  /\ sess = "none"
  /\ mode = ImageTxPending
  /\ nextOffset = NoRequest
  /\ initialImage = NoImage
  /\ totalSent = 0
  /\ command = 0
  /\ dataSize = 0
  /\ ret = <<>>

----------------------------------------------------------------------------
(* Calls, returns and exceptions.                                           *)

(* The program runs and may use its open port.  After an exception it only  *)
(* closes the port, as the catch blocks of the examples do.                 *)
Running == pc = "idle" /\ line = "open" /\ threw = NoThrow

Writes(msg) == toDevice' = Append(toDevice, msg)

(* The call made the write it starts with and blocks at a read. *)
Blocks(at) == pc' = at /\ UNCHANGED threw

ReturnsTo(session) ==
  /\ pc' = "idle"
  /\ sess' = session
  /\ UNCHANGED threw

(* As Throws, but the failure is only logged. *)
Throws_Logged == pc' = "idle" /\ UNCHANGED threw

Throws == pc' = "idle" /\ threw' = [at |-> pc, io |-> FALSE]

----------------------------------------------------------------------------
(* The port.                                                                *)

Open ==
  /\ pc = "idle"
  /\ line = "closed"
  /\ line' = "open"
  /\ rx' = <<>>
  /\ UNCHANGED <<toDevice, phase, hostVars>>

(* What close() and a caller that forgets the session leave behind. *)
PortCloses ==
  /\ line' = "closed"
  /\ rx' = <<>>
  /\ pc' = "idle"
  /\ threw' = NoThrow
  /\ sess' = "none"
  /\ initialImage' = NoImage

Close ==
  /\ pc = "idle"
  /\ line # "closed"
  /\ threw # NoThrow \/ sess = "over" \/ "aborts" \in Habits
  /\ PortCloses
  /\ UNCHANGED <<toDevice, phase, mode, nextOffset, totalSent, commandVars>>

(* A read or a write fails: GenericSerial turns every exception of the      *)
(* serial library into SerialError, which no method of SaharaSerial catches *)
(* but sendReset.  In particular sendHello's handler does not.              *)
PortFails ==
  /\ line = "broken"
  /\ pc \in Calls \ {"sendReset"} \/ (pc = "idle" /\ threw = NoThrow)
  /\ pc' = "idle"
  /\ threw' = [at |-> pc, io |-> TRUE]
  /\ UNCHANGED <<linkVars, sess, mode, imageVars, commandVars>>

----------------------------------------------------------------------------
(* The handshake.                                                           *)

ReadHello ==
  /\ Running
  /\ sess = "none"
  /\ Blocks("readHello")
  /\ UNCHANGED <<linkVars, sess, mode, imageVars, commandVars>>

(* readHello's read of one SaharaHelloRequest: on its own, or as the second *)
(* of switchModeAndHello's three steps, which goes on to send the answer.   *)
ReadHello_Returns ==
  /\ pc \in {"readHello", "switchReadHello"}
  /\ line = "open"
  /\ \E k \in ReadLengths(12) :
       LET buf == TakeWords(k) IN
       \/ /\ ~IsValidResponse(Hello, buf)
          /\ rx' = RestWords(k)
          /\ Throws
          /\ UNCHANGED <<toDevice, sess, mode>>
       \/ /\ IsValidResponse(Hello, buf)
          /\ rx' = Flushed(RestWords(k))
          /\ pc = "readHello"
          /\ mode' = Word(buf, 6)
          /\ ReturnsTo("hello")
          /\ UNCHANGED toDevice
       \/ /\ IsValidResponse(Hello, buf)
          /\ rx' = Flushed(RestWords(k))
          /\ pc = "switchReadHello"
          /\ Writes(Packet(HelloResponse, mode))
          /\ Blocks("sendHello")
          /\ UNCHANGED <<sess, mode>>
  /\ UNCHANGED <<line, phase, imageVars, commandVars>>

(* The device's hello can be answered with its own mode or command mode. *)
SendHello ==
  /\ Running
  /\ sess = "hello"
  /\ mode' \in {mode, CommandMode}
  /\ Writes(Packet(HelloResponse, mode'))
  /\ Blocks("sendHello")
  /\ UNCHANGED <<line, rx, phase, sess, imageVars, commandVars>>

(* The answer the requested mode calls for, each mode with its own. *)
HelloAccepted(buf) ==
  \/ mode = CommandMode /\ IsValidResponse(Ready, buf)
  \/ mode = ImageTxPending /\ IsValidResponse(ReadData, buf)
  \/ mode = MemoryDebugMode /\ IsValidResponse(MemoryDebug, buf)

SessionsIn(m) ==
  CASE m = CommandMode -> {"command"}
    [] m = MemoryDebugMode -> {"memory"}
    [] OTHER -> {"image"} \cup (IF "rereads" \in Habits THEN {"reread"} ELSE {})

(* As AsRequest, but a word that was not received is not a number at all. *)
AsRequest_Unset(buf, filler) ==
  LET w(i) == IF i \in DOMAIN buf THEN buf[i] ELSE -1
  IN  [imageId |-> w(3), offset |-> w(4), size |-> w(5)]

(* A buffer seen as a SaharaReadDataRequest; words past its end are filler. *)
AsRequest(buf, filler) ==
  LET w(i) == IF i \in DOMAIN buf THEN buf[i] ELSE filler
  IN  [imageId |-> w(3), offset |-> w(4), size |-> w(5)]

(* sendHello reads as much as a SaharaState (8 words), and copies a whole   *)
(* request out of the buffer however little it read: the words beyond are   *)
(* whatever the heap holds.                                                 *)
HeapWords == {0, 1}

SendHello_Returns ==
  /\ pc = "sendHello"
  /\ line = "open"
  /\ \E k \in ReadLengths(8) :
       LET buf == TakeWords(k) IN
       /\ rx' = Flushed(RestWords(k))
       /\ \/ /\ ~HelloAccepted(buf)
             /\ Throws
             /\ UNCHANGED <<sess, nextOffset>>
          \/ /\ HelloAccepted(buf)
             /\ \E next \in SessionsIn(mode) : ReturnsTo(next)
             /\ IF mode = ImageTxPending
                THEN \E heap \in HeapWords : nextOffset' = AsRequest(buf, heap)
                ELSE UNCHANGED nextOffset
  /\ UNCHANGED <<line, toDevice, phase, mode, initialImage, totalSent,
                 commandVars>>

(* switchMode returns once it has written; the program reads the new hello. *)
SwitchModeCall ==
  /\ Running
  /\ sess = "command"
  /\ \E m \in Modes :
       /\ Writes(Packet(SwitchMode, m))
       /\ mode' = m
  /\ ReturnsTo("none")
  /\ UNCHANGED <<line, rx, phase, imageVars, commandVars>>

SwitchModeAndHello ==
  /\ Running
  /\ sess = "command"
  /\ \E m \in Modes :
       /\ Writes(Packet(SwitchMode, m))
       /\ mode' = m
  /\ Blocks("switchReadHello")
  /\ UNCHANGED <<line, rx, phase, sess, imageVars, commandVars>>

----------------------------------------------------------------------------
(* Client commands.                                                         *)

SendClientCommand ==
  /\ Running
  /\ sess = "command"
  /\ command' \in Commands
  /\ Writes(Packet(Execute, command'))
  /\ dataSize' = 0
  /\ ret' = <<>>
  /\ Blocks("executeResponse")
  /\ UNCHANGED <<line, rx, phase, sess, mode, imageVars>>

(* The size of the data is taken from the response; the command the         *)
(* response names is not compared with the one that was sent.               *)
ExecuteResponse_Returns ==
  /\ pc = "executeResponse"
  /\ line = "open"
  /\ \E k \in ReadLengths(4) :
       LET buf == TakeWords(k) IN
       /\ rx' = Flushed(RestWords(k))
       /\ \/ /\ ~IsValidResponse(ExecuteResponse, buf)
             /\ Throws
             /\ UNCHANGED <<toDevice, dataSize>>
          \/ /\ IsValidResponse(ExecuteResponse, buf)
             /\ dataSize' = Word(buf, 4)
             /\ Writes(Packet(ExecuteData, command))
             /\ Blocks("executeData")
  /\ UNCHANGED <<line, phase, sess, mode, imageVars, command, ret>>

(* The loop reads until it has dataSize bytes, however many packets they    *)
(* come in.  What it validates is the vector object, never the bytes read:  *)
(* only a read of nothing ends the call with an exception.                  *)
MaxPacketWords == 256

(* As Incomplete, but one read is taken for the whole result. *)
Incomplete_OneRead(words) == FALSE

Incomplete(words) == 4 * Len(words) < dataSize

ExecuteData_Returns ==
  /\ pc = "executeData"
  /\ line = "open"
  /\ \E k \in ReadLengths(MaxPacketWords) :
       LET all == ret \o TakeWords(k) IN
       \/ /\ k = 0
          /\ ret' = <<>>
          /\ Throws
          /\ UNCHANGED <<rx, sess>>
       \/ /\ k > 0
          /\ ret' = all
          /\ Incomplete(all)
          /\ rx' = RestWords(k)
          /\ UNCHANGED <<pc, threw, sess>>
       \/ /\ k > 0
          /\ ret' = all
          /\ ~Incomplete(all)
          /\ rx' = Flushed(RestWords(k))
          /\ ReturnsTo("command")
  /\ UNCHANGED <<line, toDevice, phase, mode, imageVars, command, dataSize>>

----------------------------------------------------------------------------
(* Image transfer.                                                          *)

(* readNextImageOffset: any answer but an error packet passes for a read    *)
(* request; the device's EndImageTransfer becomes a request of nothing.     *)
NextOffset(buf) ==
  IF Word(buf, 1) = EndImageTransfer
  THEN [AsRequest(buf, 0) EXCEPT !.offset = 0, !.size = 0]
  ELSE AsRequest(buf, 0)

AsksNothing(r) == r.offset = 0 /\ r.size = 0

ReadNextImageOffset ==
  /\ Running
  /\ sess = "reread"
  /\ Blocks("readNextImageOffset")
  /\ UNCHANGED <<linkVars, sess, mode, imageVars, commandVars>>

ReadNextImageOffset_Returns ==
  /\ pc = "readNextImageOffset"
  /\ line = "open"
  /\ \E k \in ReadLengths(5) :
       LET buf == TakeWords(k) IN
       /\ rx' = Flushed(RestWords(k))
       /\ \/ /\ ~IsValidResponse(ReadData, buf)
             /\ Throws
             /\ UNCHANGED <<sess, nextOffset>>
          \/ /\ IsValidResponse(ReadData, buf)
             /\ nextOffset' = NextOffset(buf)
             /\ ReturnsTo("image")
  /\ UNCHANGED <<line, toDevice, phase, mode, initialImage, totalSent,
                 commandVars>>

(* The program sends the image the device asks for when the session begins, *)
(* another one when sendImage returns a request for another one, and, if it *)
(* is careful, the same one again when the device still asks for it.        *)
SendImage ==
  /\ Running
  /\ sess = "image"
  /\ nextOffset.imageId \in Images
  /\ \/ nextOffset.imageId # initialImage
     \/ "careful" \in Habits /\ ~AsksNothing(nextOffset)
  /\ initialImage' = nextOffset.imageId
  /\ totalSent' = 0
  /\ Blocks("sendImage")
  /\ UNCHANGED <<linkVars, sess, mode, nextOffset, commandVars>>

PastTheFile ==
  nextOffset.offset + nextOffset.size > FileSize[initialImage]

(* As EndsSendImage, but a request for another image goes unnoticed. *)
EndsSendImage_AnyImage(r) == AsksNothing(r)

(* As EndsSendImage, but the end of the transfer goes unnoticed. *)
EndsSendImage_NoEnd(r) == r.imageId # initialImage

(* The answers that end sendImage's loop whatever was sent so far. *)
EndsSendImage(r) == AsksNothing(r) \/ r.imageId # initialImage

(* One turn of sendImage's loop up to its read.  The loop ends when the     *)
(* bytes sent add up to the file's size, exactly.                           *)
SendImage_Turn ==
  /\ pc = "sendImage"
  /\ line = "open"
  /\ \/ /\ totalSent = FileSize[initialImage]
        /\ ReturnsTo("image")
        /\ UNCHANGED toDevice
     \/ /\ totalSent # FileSize[initialImage]
        /\ PastTheFile
        /\ Throws
        /\ UNCHANGED <<toDevice, sess>>
     \/ /\ totalSent # FileSize[initialImage]
        /\ ~PastTheFile
        /\ nextOffset.size > 0
        /\ Writes(FileData(initialImage, nextOffset.offset, nextOffset.size))
        /\ Blocks("nextImageOffset")
        /\ UNCHANGED sess
     \/ /\ totalSent # FileSize[initialImage]
        /\ ~PastTheFile
        /\ nextOffset.size = 0
        /\ Blocks("nextImageOffset")
        /\ UNCHANGED <<toDevice, sess>>
  /\ UNCHANGED <<line, rx, phase, mode, imageVars, commandVars>>

SendImage_Returns ==
  /\ pc = "nextImageOffset"
  /\ line = "open"
  /\ \E k \in ReadLengths(5) :
       LET buf == TakeWords(k) IN
       /\ rx' = Flushed(RestWords(k))
       /\ \/ /\ ~IsValidResponse(ReadData, buf)
             /\ Throws
             /\ UNCHANGED <<sess, nextOffset, totalSent>>
          \/ /\ IsValidResponse(ReadData, buf)
             /\ nextOffset' = NextOffset(buf)
             /\ totalSent' = totalSent + nextOffset.size
             /\ IF EndsSendImage(nextOffset')
                THEN ReturnsTo("image")
                ELSE Blocks("sendImage") /\ UNCHANGED sess
  /\ UNCHANGED <<line, toDevice, phase, mode, initialImage, commandVars>>

----------------------------------------------------------------------------
(* The end of the session.                                                  *)

SendDone ==
  /\ Running
  /\ sess = "image"
  /\ nextOffset.imageId = initialImage
  /\ "careful" \in Habits => AsksNothing(nextOffset)
  /\ Writes(Packet(Done, 0))
  /\ Blocks("sendDone")
  /\ UNCHANGED <<line, rx, phase, sess, mode, imageVars, commandVars>>

SendDone_Returns ==
  /\ pc = "sendDone"
  /\ line = "open"
  /\ \E k \in ReadLengths(3) :
       LET buf == TakeWords(k) IN
       /\ rx' = Flushed(RestWords(k))
       /\ \/ /\ ~IsValidResponse(DoneResponse, buf)
             /\ Throws
             /\ UNCHANGED sess
          \/ /\ IsValidResponse(DoneResponse, buf)
             /\ ReturnsTo("over")
  /\ UNCHANGED <<line, toDevice, phase, mode, imageVars, commandVars>>

SendReset ==
  /\ Running
  /\ sess # "none"
  /\ "aborts" \in Habits
  /\ Writes(Packet(Reset, 0))
  /\ Blocks("sendReset")
  /\ UNCHANGED <<line, rx, phase, sess, mode, imageVars, commandVars>>

(* The answer is validated outside the try block: silence or another packet *)
(* is an exception that leaves the port open.                               *)
SendReset_Returns ==
  /\ pc = "sendReset"
  /\ line = "open"
  /\ \E k \in ReadLengths(2) :
       LET buf == TakeWords(k) IN
       \/ /\ ~IsValidResponse(ResetResponse, buf)
          /\ rx' = RestWords(k)
          /\ Throws
          /\ UNCHANGED <<line, sess, initialImage>>
       \/ /\ IsValidResponse(ResetResponse, buf)
          /\ PortCloses
  /\ UNCHANGED <<toDevice, phase, mode, nextOffset, totalSent, commandVars>>

(* A port that fails under sendReset is closed, and the call succeeds. *)
SendReset_PortFails ==
  /\ pc = "sendReset"
  /\ line = "broken"
  /\ PortCloses
  /\ UNCHANGED <<toDevice, phase, mode, nextOffset, totalSent, commandVars>>

=============================================================================

---------------------------- MODULE StreamingDload ----------------------------
(***************************************************************************)
(* StreamingDloadSerial, a program that calls it, and the phone's flash    *)
(* programmer at the other end of the line.                                *)
(*                                                                         *)
(* HdlcSerial hands over whole packets, so rx is a queue of packets here.  *)
(* Each method writes one request and takes the next packet for its        *)
(* answer, whichever request that packet answers; it may also be a log.    *)
(* Flash is addressed in sectors, data is counted in units, a fraction of  *)
(* a sector.                                                               *)
(***************************************************************************)
EXTENDS Integers, Sequences

CONSTANTS
  SectorSize,    (* units in a sector, the same for program and device      *)
  MaxData,       (* STREAMING_DLOAD_MAX_DATA_SIZE                           *)
  LengthLimit,   (* what the 16-bit length of a read request counts up to   *)
  BlockSizes,    (* the block sizes a device may prefer                     *)
  Sectors,       (* the sectors of the flash                                *)
  Modes,         (* the modes that can be opened                            *)
  Reads,         (* the reads a program may make: [lba, amount]             *)
  Writes,        (* the writes                                              *)
  Trailers,      (* how much HdlcSerial's vector read may leave of checksum *)
                 (* and flags behind a packet: see VectorReadDelivers there *)
  Ignored,       (* the methods whose false result the program ignores      *)
  Faults,        (* "late": an answer may come after the host's read ended; *)
                 (* "log": the device may send a log packet; "error": it    *)
                 (* may refuse any request; "short": a hello may lack its   *)
                 (* last fields                                             *)
  MaxLogs,       (* bound: log packets in one behaviour                     *)
  MaxLate        (* requests the device may have left unhandled from before *)
                 (* when the port is opened.  More than a bound: from two   *)
                 (* on OpenedIsOpen and StoreKept fail, since nothing tells *)
                 (* an answer to an earlier session's request from one to   *)
                 (* this session's                                          *)

ASSUME SizesAssumption ==
  /\ SectorSize \in Nat \ {0}
  /\ MaxData \in Nat \ {0}
  /\ LengthLimit \in Nat \ {0}
  /\ BlockSizes \subseteq Nat
  /\ Sectors \in Nat
  /\ Trailers \subseteq Nat
ASSUME TransfersAssumption ==
  /\ Reads \subseteq [lba : Nat, amount : Nat \ {0}]
  /\ Writes \subseteq [lba : Nat, amount : Nat \ {0}]
ASSUME DloadFaultsAssumption ==
  /\ Faults \subseteq {"late", "log", "error", "short"}
  /\ MaxLogs \in Nat
  /\ MaxLate \in Nat

VARIABLES
  port,          (* whether the host's port is open                         *)
  pc,            (* "idle", or where the running call is                    *)
  mustClose,     (* a call failed or ended the session: the program closes  *)
  negotiated,    (* state.negotiated                                        *)
  maxBlock,      (* state.hello.maxPreferredBlockSize                       *)
  wanted,        (* the argument of the last openMode or openMultiImage     *)
  opened,        (* the mode the program believes to be open                *)
  loop,          (* the locals of readFlash(vector) or writeFlash           *)
  out,           (* its vector                                              *)
  file,          (* the locals of readFlash(stream), which calls the other  *)
  written,       (* its stream                                              *)
  toDevice,      (* requests the device has not handled                     *)
  rx,            (* packets the host has not read                           *)
  flash,         (* the flash's units                                       *)
  preferred,     (* the block size the device prefers                       *)
  deviceMode,    (* the mode it has open                                    *)
  logs,          (* log packets it sent                                     *)
  job, status, result    (* of FlashStore: what the program asked for last, *)
                         (* how it goes, and what was read                  *)

sessionVars == <<port, mustClose, negotiated, maxBlock, wanted, opened>>
loopVars == <<loop, out, file, written>>
hostVars == <<pc, sessionVars, loopVars>>
deviceVars == <<flash, preferred, deviceMode, logs>>
storeVars == <<job, status, result>>
vars == <<hostVars, toDevice, rx, deviceVars, storeVars>>

Store == INSTANCE FlashStore

----------------------------------------------------------------------------
(* Requests and their answers.                                              *)

(* The methods that are one request and one answer: the request's command,  *)
(* the one that is expected, and whether another throws or returns false.   *)
Method ==
  [sendUnlock          |-> <<"Unlock", "Unlocked", "false">>,
   setSecurityMode     |-> <<"SecurityMode", "SecurityModeReceived", "false">>,
   sendNop             |-> <<"Nop", "NopResponse", "throws">>,
   sendReset           |-> <<"Reset", "ResetAck", "throws">>,
   sendPowerOff        |-> <<"PowerOff", "PoweringDown", "throws">>,
   readEcc             |-> <<"GetEccState", "CurrentEccState", "throws">>,
   setEcc              |-> <<"SetEcc", "SetEccResponse", "false">>,
   openMode            |-> <<"Open", "Opened", "false">>,
   closeMode           |-> <<"Close", "Closed", "false">>,
   openMultiImage      |-> <<"OpenMultiImage", "OpenedMultiImage", "false">>,
   writePartitionTable |-> <<"PartitionTable", "PartitionTableReceived",
                             "throws">>,
   eraseFlash          |-> <<"EraseFlash", "FlashErased", "throws">>]
Methods == DOMAIN Method

AnswerTo(cmd) ==
  Method[CHOOSE m \in Methods : Method[m][1] = cmd][2]
Request(cmd, address, arg) == [cmd |-> cmd, address |-> address, arg |-> arg]
Answer(cmd, address, arg) == [cmd |-> cmd, address |-> address, arg |-> arg]

NoMode == "none"
NoLoop == [lba |-> 0, amount |-> 0, step |-> 0, total |-> 0, blocks |-> 0]

Init ==
  /\ port = "closed"
  /\ pc = "idle"
  /\ mustClose = FALSE
  /\ negotiated = FALSE
  /\ maxBlock = MaxData
  /\ wanted = NoMode
  /\ opened = NoMode
  /\ loop = NoLoop
  /\ out = <<>>
  /\ file = NoLoop
  /\ written = <<>>
  /\ toDevice = <<>>
  /\ rx = <<>>
  /\ flash = [u \in 0 .. Sectors * SectorSize - 1 |-> u]
  /\ preferred \in BlockSizes
  /\ deviceMode = NoMode
  /\ logs = 0
  /\ Store!Init

----------------------------------------------------------------------------
(* The session.                                                             *)

(* The locals of the chunk loops are there while a call runs. *)
LocalsEnd ==
  /\ loop' = NoLoop
  /\ out' = <<>>
  /\ file' = NoLoop
  /\ written' = <<>>

(* What a read returned is of no interest once the program goes on. *)
ResultIsUsed ==
  IF status = "done"
  THEN job' = Store!NoJob /\ status' = "none" /\ result' = <<>>
  ELSE UNCHANGED storeVars

Running == port = "open" /\ pc = "idle" /\ ~mustClose

Open ==
  /\ port = "closed"
  /\ Len(toDevice) <= MaxLate
  /\ port' = "open"
  /\ UNCHANGED <<pc, mustClose, negotiated, maxBlock, wanted, opened, loopVars,
                 toDevice, rx, deviceVars, storeVars>>

(* close() clears the whole session state, maxPreferredBlockSize too. *)
SessionEnds ==
  /\ port' = "closed"
  /\ rx' = <<>>
  /\ mustClose' = FALSE
  /\ negotiated' = FALSE
  /\ maxBlock' = 0
  /\ opened' = NoMode

Close ==
  /\ port = "open"
  /\ pc = "idle"
  /\ SessionEnds
  /\ ResultIsUsed
  /\ UNCHANGED <<pc, wanted, loopVars, toDevice, deviceVars>>

Busy == pc \in {"file", "read", "readAnswer", "write", "writeAnswer"}

(* A read that got nothing: HdlcSerial decodes the lone flag it appended,   *)
(* which ends the program, not only the call.  It can be started again.     *)
TimesOut ==
  /\ pc \notin {"idle", "file", "read", "write"}
  /\ "late" \in Faults
  /\ rx = <<>>
  /\ pc' = "idle"
  /\ SessionEnds
  /\ LocalsEnd
  /\ status' = IF Busy THEN "failed" ELSE status
  /\ UNCHANGED <<wanted, toDevice, deviceVars, job, result>>

Sends(request) == toDevice' = Append(toDevice, request)
Receives == rx # <<>> /\ rx' = Tail(rx)
Received == Head(rx)

SendHello ==
  /\ Running
  /\ Sends(Request("Hello", 0, 0))
  /\ pc' = "sendHello"
  /\ ResultIsUsed
  /\ UNCHANGED <<sessionVars, loopVars, rx, deviceVars>>

(* As BlockSizeOf, but in another byte order. *)
BlockSizeOf_Swapped(hello) == 256 * hello.address

BlockSizeOf(hello) == hello.address

(* The header is in state.hello before the fields after it are looked for. *)
SendHello_Returns ==
  /\ pc = "sendHello"
  /\ Receives
  /\ pc' = "idle"
  /\ \/ /\ Received.cmd # "HelloResponse"
        /\ mustClose' = TRUE
        /\ UNCHANGED <<negotiated, maxBlock>>
     \/ /\ Received.cmd = "HelloResponse"
        /\ maxBlock' = BlockSizeOf(Received)
        /\ IF Received.arg = "whole"
           THEN negotiated' = TRUE /\ UNCHANGED mustClose
           ELSE mustClose' = TRUE /\ UNCHANGED negotiated
  /\ UNCHANGED <<port, wanted, opened, loopVars, toDevice, deviceVars,
                 storeVars>>

Call(m) ==
  /\ Running
  /\ negotiated
  /\ wanted' \in IF m \in {"openMode", "openMultiImage"} THEN Modes
                                                         ELSE {wanted}
  /\ opened' = IF m \in {"closeMode", "sendReset", "sendPowerOff"} THEN NoMode
                                                                   ELSE opened
  /\ Sends(Request(Method[m][1], 0, wanted'))
  /\ pc' = m
  /\ ResultIsUsed
  /\ UNCHANGED <<port, mustClose, negotiated, maxBlock, loopVars, rx,
                 deviceVars>>

(* As IsExpected, but any answer that is no error will do. *)
IsExpected_NoError(m, packet) == packet.cmd # "Error"

(* validateResponse and isValidResponse: nothing but the command counts. *)
IsExpected(m, packet) == packet.cmd = Method[m][2]

Call_Returns(m) ==
  /\ pc = m
  /\ Receives
  /\ pc' = "idle"
  /\ \/ /\ IsExpected(m, Received)
        /\ opened' = IF m \in {"openMode", "openMultiImage"} THEN wanted
                                                             ELSE opened
        /\ mustClose' = (m \in {"sendReset", "sendPowerOff"})
     \/ /\ ~IsExpected(m, Received)
        /\ mustClose' = (Method[m][3] = "throws" \/ m \notin Ignored)
        /\ UNCHANGED opened
  /\ UNCHANGED <<port, negotiated, maxBlock, wanted, loopVars, toDevice,
                 deviceVars, storeVars>>

----------------------------------------------------------------------------
(* The chunk loops.                                                         *)

(* As StepFor, but a device that names no block size is not provided for. *)
StepFor_AnyBlock(amount) ==
  IF negotiated /\ amount > maxBlock THEN maxBlock
  ELSE IF amount > MaxData THEN MaxData ELSE amount

(* The size of a chunk: the session's block size cuts what is larger, and   *)
(* MaxData what is not.                                                     *)
StepFor(amount) ==
  IF negotiated /\ maxBlock # 0 /\ amount > maxBlock THEN maxBlock
  ELSE IF amount > MaxData THEN MaxData ELSE amount

Least(a, b) == IF a < b THEN a ELSE b
Aligned(amount) == ((amount + SectorSize - 1) \div SectorSize) * SectorSize

ReadLoop(lba, amount) ==
  [lba |-> lba, amount |-> Aligned(amount), step |-> StepFor(amount),
   total |-> 0, blocks |-> 0]

(* As Advanced, but a sector is one further for every chunk. *)
Advanced_ByChunk(l, n) ==
  [l EXCEPT !.total = @ + n, !.blocks = @ + 1]

Advanced(l, n) ==
  [l EXCEPT !.total = @ + n, !.blocks = @ + n \div SectorSize]

Begins(newJob, at) ==
  /\ Running
  /\ negotiated
  /\ pc' = at
  /\ job' = newJob
  /\ status' = "busy"
  /\ result' = <<>>
  /\ UNCHANGED <<sessionVars, toDevice, rx, deviceVars>>

Returns(data) ==
  /\ pc' = "idle"
  /\ LocalsEnd
  /\ status' = "done"
  /\ result' = data
  /\ UNCHANGED <<sessionVars, toDevice, rx, deviceVars, job>>

Throws ==
  /\ pc' = "idle"
  /\ LocalsEnd
  /\ mustClose' = TRUE
  /\ status' = "failed"
  /\ UNCHANGED <<port, negotiated, maxBlock, wanted, opened>>

ReadJob(r) ==
  [op |-> "read", base |-> r.lba * SectorSize, amount |-> r.amount,
   data |-> <<>>]

ReadFlash ==
  \E r \in Reads :
    /\ Begins(ReadJob(r), "read")
    /\ loop' = ReadLoop(r.lba, r.amount)
    /\ UNCHANGED <<out, file, written>>

ReadFlashToFile ==
  \E r \in Reads :
    /\ Begins(ReadJob(r), "file")
    /\ file' = ReadLoop(r.lba, r.amount)
    /\ UNCHANGED <<loop, out, written>>

(* A turn of readFlash(stream): it reads the next part with the other one. *)
File_Turn ==
  /\ pc = "file"
  /\ \/ /\ file.total < file.amount
        /\ LET step == Least(file.step, file.amount - file.total) IN
             /\ file' = [file EXCEPT !.step = step]
             /\ loop' = ReadLoop(file.lba + file.blocks, step)
        /\ out' = <<>>
        /\ pc' = "read"
        /\ UNCHANGED <<sessionVars, written, toDevice, rx, deviceVars,
                       storeVars>>
     \/ /\ file.total >= file.amount
        /\ Returns(written)

Read_Turn ==
  /\ pc = "read"
  /\ \/ /\ loop.total < loop.amount
        /\ Sends(Request("Read", loop.lba + loop.blocks,
                           loop.step % LengthLimit))
        /\ pc' = "readAnswer"
        /\ UNCHANGED <<sessionVars, loopVars, rx, deviceVars, storeVars>>
     \/ /\ loop.total >= loop.amount
        /\ file = NoLoop
        /\ Returns(out)
     \/ /\ loop.total >= loop.amount
        /\ file # NoLoop
        /\ written' = written \o out
        /\ file' = Advanced(file, Len(out))
        /\ pc' = "file"
        /\ UNCHANGED <<sessionVars, loop, out, toDevice, rx, deviceVars,
                       storeVars>>

(* As IsData, but the address is not compared. *)
IsData_AnyAddress(packet) == packet.cmd = "ReadData"

IsData(packet) ==
  packet.cmd = "ReadData" /\ packet.address = loop.lba + loop.blocks

Garbage == -2
WithTrailer(data, n) == data \o [i \in 1 .. n |-> Garbage]

Read_Returns ==
  /\ pc = "readAnswer"
  /\ Receives
  /\ \/ /\ ~IsData(Received)
        /\ Throws
        /\ UNCHANGED result
     \/ /\ IsData(Received)
        /\ \E n \in Trailers : LET data == WithTrailer(Received.arg, n) IN
             /\ out' = out \o data
             /\ loop' = Advanced(loop, Len(data))
        /\ pc' = "read"
        /\ UNCHANGED <<sessionVars, file, written, status, result>>
  /\ UNCHANGED <<toDevice, deviceVars, job>>

(* What a program writes: unit by unit different from what the flash held. *)
WriteData(w) == [i \in 1 .. w.amount |-> 100 + w.lba * SectorSize + i]

WriteFlash ==
  \E w \in Writes :
    /\ Begins([op |-> "write", base |-> w.lba * SectorSize,
               amount |-> w.amount, data |-> WriteData(w)], "write")
    /\ loop' = [lba |-> w.lba, amount |-> w.amount,
                step |-> StepFor(w.amount), total |-> 0, blocks |-> 0]
    /\ UNCHANGED <<out, file, written>>

Write_Turn ==
  /\ pc = "write"
  /\ \/ /\ loop.total < loop.amount
        /\ LET step == Least(loop.step, loop.amount - loop.total) IN
             /\ loop' = [loop EXCEPT !.step = step]
             /\ Sends(Request("StreamWrite", loop.lba + loop.blocks,
                          SubSeq(job.data, loop.total + 1, loop.total + step)))
        /\ pc' = "writeAnswer"
        /\ UNCHANGED <<sessionVars, out, file, written, rx, deviceVars,
                       storeVars>>
     \/ /\ loop.total >= loop.amount
        /\ Returns(result)

IsBlockWritten(packet) ==
  packet.cmd = "BlockWritten" /\ packet.address = loop.lba + loop.blocks

Write_Returns ==
  /\ pc = "writeAnswer"
  /\ Receives
  /\ \/ /\ ~IsBlockWritten(Received)
        /\ Throws
     \/ /\ IsBlockWritten(Received)
        /\ loop' = Advanced(loop, loop.step)
        /\ pc' = "write"
        /\ UNCHANGED <<sessionVars, out, file, written, status>>
  /\ UNCHANGED <<toDevice, deviceVars, job, result>>

----------------------------------------------------------------------------
(* The device: it handles one request after the other.                      *)

Takes == toDevice # <<>> /\ toDevice' = Tail(toDevice)
Taken == Head(toDevice)
Says(packet) == rx' = IF port = "open" THEN Append(rx, packet) ELSE rx
Refuses == Says(Answer("Error", 0, 0))

Takes_Hello ==
  /\ Takes
  /\ Taken.cmd = "Hello"
  /\ \E extent \in {"whole"} \cup (Faults \cap {"short"}) :
       Says(Answer("HelloResponse", preferred, extent))
  /\ UNCHANGED <<hostVars, deviceVars, storeVars>>

(* A mode is opened when none is open, and refused with an error packet.    *)
(* (An OpenedMultiImage with the status of a failure, which openMultiImage  *)
(* takes for success, is not among the answers.)                            *)
Takes_Open ==
  /\ Takes
  /\ Taken.cmd \in {"Open", "OpenMultiImage"}
  /\ \/ /\ deviceMode = NoMode
        /\ deviceMode' = Taken.arg
        /\ Says(Answer(AnswerTo(Taken.cmd), 0, 0))
     \/ /\ deviceMode # NoMode
        /\ Refuses
        /\ UNCHANGED deviceMode
  /\ UNCHANGED <<hostVars, flash, preferred, logs, storeVars>>

(* The requests that end what is open. *)
Takes_Close ==
  /\ Takes
  /\ Taken.cmd \in {"Close", "Reset", "PowerOff"}
  /\ deviceMode' = NoMode
  /\ Says(Answer(AnswerTo(Taken.cmd), 0, 0))
  /\ UNCHANGED <<hostVars, flash, preferred, logs, storeVars>>

Takes_Erase ==
  /\ Takes
  /\ Taken.cmd = "EraseFlash"
  /\ flash' = [u \in DOMAIN flash |-> Store!Erased]
  /\ Says(Answer("FlashErased", 0, 0))
  /\ UNCHANGED <<hostVars, preferred, deviceMode, logs, storeVars>>

(* The requests that leave mode and flash alone. *)
Takes_Other ==
  /\ Takes
  /\ Taken.cmd \in {Method[m][1] : m \in Methods}
                     \ {"Open", "OpenMultiImage", "Close", "Reset",
                        "PowerOff", "EraseFlash"}
  /\ Says(Answer(AnswerTo(Taken.cmd), 0, 0))
  /\ UNCHANGED <<hostVars, deviceVars, storeVars>>

InFlash(address, n) == address * SectorSize + n <= Sectors * SectorSize

Takes_Read ==
  /\ Takes
  /\ Taken.cmd = "Read"
  /\ IF deviceMode # NoMode /\ InFlash(Taken.address, Taken.arg)
     THEN Says(Answer("ReadData", Taken.address,
                      Store!Contents(flash, Taken.address * SectorSize,
                                     Taken.arg)))
     ELSE Refuses
  /\ UNCHANGED <<hostVars, deviceVars, storeVars>>

Takes_Write ==
  /\ Takes
  /\ Taken.cmd = "StreamWrite"
  /\ IF deviceMode # NoMode /\ InFlash(Taken.address, Len(Taken.arg))
     THEN /\ flash' = Store!Overlay(flash, Taken.address * SectorSize,
                                    Taken.arg)
          /\ Says(Answer("BlockWritten", Taken.address, 0))
     ELSE Refuses /\ UNCHANGED flash
  /\ UNCHANGED <<hostVars, preferred, deviceMode, logs, storeVars>>

Takes_Refusing ==
  /\ "error" \in Faults
  /\ Takes
  /\ Refuses
  /\ UNCHANGED <<hostVars, deviceVars, storeVars>>

(* A log packet, on its own or in front of an answer. *)
SendsLog ==
  /\ "log" \in Faults
  /\ logs < MaxLogs
  /\ logs' = logs + 1
  /\ Says(Answer("Log", 0, 0))
  /\ UNCHANGED <<hostVars, toDevice, flash, preferred, deviceMode, storeVars>>

----------------------------------------------------------------------------
HostStep ==
  \/ TimesOut
  \/ SendHello_Returns
  \/ \E m \in Methods : Call_Returns(m)
  \/ File_Turn
  \/ Read_Turn
  \/ Read_Returns
  \/ Write_Turn
  \/ Write_Returns

DeviceStep ==
  \/ Takes_Hello
  \/ Takes_Open
  \/ Takes_Close
  \/ Takes_Erase
  \/ Takes_Other
  \/ Takes_Read
  \/ Takes_Write
  \/ Takes_Refusing

Next ==
  \/ Open
  \/ Close
  \/ SendHello
  \/ \E m \in Methods : Call(m)
  \/ ReadFlash
  \/ ReadFlashToFile
  \/ WriteFlash
  \/ HostStep
  \/ DeviceStep
  \/ SendsLog

Spec == Init /\ [][Next]_vars

(* A running call goes on and the device answers; the program need not call *)
(* anything and the device need not log.                                    *)
FairSpec == Spec /\ WF_vars(HostStep) /\ WF_vars(DeviceStep)

----------------------------------------------------------------------------
TypeOK ==
  /\ port \in {"open", "closed"}
  /\ pc \in Methods \cup {"idle", "sendHello", "file", "read", "readAnswer",
                          "write", "writeAnswer"}
  /\ {mustClose, negotiated} \subseteq BOOLEAN
  /\ maxBlock \in BlockSizes \cup {0, MaxData}
  /\ {wanted, opened, deviceMode} \subseteq Modes \cup {NoMode}
  /\ {loop, file} \subseteq [lba : Nat, amount : Nat, step : Nat, total : Nat,
                             blocks : Nat]
  /\ \A s \in {out, written, result, job.data} : s \in Seq(Int)
  /\ DOMAIN flash = 0 .. Sectors * SectorSize - 1
  /\ logs \in 0 .. MaxLogs

(* A program that closes the port when a call fails believes a mode to be   *)
(* open only while it is: openMode's and openMultiImage's true is about the *)
(* request it answers, as long as an earlier session left the device at     *)
(* most one request to handle (MaxLate) and the program heeds their false.  *)
OpenedIsOpen ==
  port = "open" /\ ~mustClose /\ opened # NoMode => deviceMode = opened

(* readFlash and writeFlash do to the flash what FlashStore says, under the *)
(* same conditions, for chunks of whole sectors whose length the request    *)
(* can hold, and packets read without a trailer.                            *)
StoreKept == Store!Spec

(* "Stream write data starting at specified LBA" (the comment on            *)
(* writeFlash): when it returns, the data is in the flash from there on.    *)
WrittenFromLba ==
  status = "done" /\ job.op = "write" =>
    Store!Contents(flash, job.base, job.amount) = job.data

(* A call ends, with its result or an exception, when the device answers. *)
CallsEnd == pc # "idle" ~> pc = "idle"

=============================================================================

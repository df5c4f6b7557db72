------------------------------ MODULE SaharaLink ------------------------------
(***************************************************************************)
(* The Sahara packets, the serial line that carries them, and the two      *)
(* predicates by which SaharaSerial judges an answer.                      *)
(*                                                                         *)
(* Every Sahara packet is a sequence of 32-bit words: the command, the     *)
(* length in bytes, then the command's own fields.  What the device sends  *)
(* reaches the host as a stream of words (rx) in which the packets'        *)
(* boundaries are lost: a read may cut a packet short, run on into the     *)
(* next one or start in the middle of one, as SaharaSerial's reads do.     *)
(* What the host sends is a queue of writes (toDevice).                    *)
(***************************************************************************)
EXTENDS Integers, Sequences

CONSTANTS
  Faults,        (* "late": an answer may come after the host's read timed  *)
                 (* out; "stall": a read may time out inside a packet;      *)
                 (* "unplug": the port fails when the device restarts       *)
  FlushDiscards  (* whether serial::Serial::flush() drops received bytes    *)

ASSUME FaultsAssumption == Faults \subseteq {"late", "stall", "unplug"}
ASSUME FlushAssumption == FlushDiscards \in BOOLEAN

VARIABLES
  line,          (* the host's port: "closed", "open" or "broken"           *)
  rx,            (* the words received and not yet read                     *)
  toDevice,      (* the host's writes the device has not yet handled        *)
  phase          (* what the device is doing                                *)

linkVars == <<line, rx, toDevice, phase>>

----------------------------------------------------------------------------
(* Commands (enum SaharaCommand) and modes (enum SaharaMode).               *)

Hello            == 1
HelloResponse    == 2
ReadData         == 3
EndImageTransfer == 4
Done             == 5
DoneResponse     == 6
Reset            == 7
ResetResponse    == 8
MemoryDebug      == 9
Ready            == 11
SwitchMode       == 12
Execute          == 13
ExecuteResponse  == 14
ExecuteData      == 15

ImageTxPending  == 0
ImageTxComplete == 1
MemoryDebugMode == 2
CommandMode     == 3
Modes == {ImageTxPending, ImageTxComplete, MemoryDebugMode, CommandMode}

(* enum SaharaStatusCode: Success, one representative error, kSaharaStatusMax *)
StatusSuccess == 0
StatusError   == 1
StatusMax     == 39

----------------------------------------------------------------------------
(* The packets the device sends, word by word.                              *)

HelloPacket(mode) == <<Hello, 48, 2, 1, 1024, mode, 0, 0, 0, 0, 0, 0>>
ReadDataPacket(r) == <<ReadData, 20, r.imageId, r.offset, r.size>>
EndPacket(image, status) == <<EndImageTransfer, 16, image, status>>
DonePacket == <<DoneResponse, 12, 0>>
ResetPacket == <<ResetResponse, 8>>
ReadyPacket == <<Ready, 12, 0>>
MemoryDebugPacket == <<MemoryDebug, 16, 0, 0>>
ExecutePacket(command, words) == <<ExecuteResponse, 16, command, 4 * words>>

(* What the host sends: a packet, of which the model keeps the command and  *)
(* its one argument, or the raw bytes of a part of an image file.           *)
Packet(cmd, arg) == [kind |-> "packet", cmd |-> cmd, arg |-> arg]
FileData(image, offset, size) ==
  [kind |-> "data", image |-> image, offset |-> offset, size |-> size]

Packets == [kind : {"packet"}, cmd : Nat, arg : Nat]
Data == [kind : {"data"}, image : Nat, offset : Nat, size : Nat]

(* The read request a buffer holds, as SaharaReadDataRequest lays it out;   *)
(* the struct is zeroed before the read, so a word never received is 0.     *)
Requests == [imageId : Nat, offset : Nat, size : Nat]
NoRequest == [imageId |-> 0, offset |-> 0, size |-> 0]

Word(buf, i) == IF i \in DOMAIN buf THEN buf[i] ELSE 0

----------------------------------------------------------------------------
(* GenericSerial::read of at most n words, on an open port.  The read       *)
(* returns when it has n words or when its timeout expires.  It expires on  *)
(* an empty buffer when the device is silent, or merely late; it expires on *)
(* a short one at a packet's end, or inside a packet when the line stalls.  *)

DeviceSilent == toDevice = <<>> /\ phase \notin {"boot", "data"}

ReadLengths(n) ==
  {k \in 0 .. n :
     /\ k <= Len(rx)
     /\ \/ k = n
        \/ k = Len(rx) /\ (k > 0 \/ "late" \in Faults \/ DeviceSilent)
        \/ k > 0 /\ "stall" \in Faults}

TakeWords(k) == SubSeq(rx, 1, k)
RestWords(k) == SubSeq(rx, k + 1, Len(rx))

(* flush() is called on what is left after a read. *)
Flushed(words) == IF FlushDiscards THEN <<>> ELSE words

----------------------------------------------------------------------------
(* SaharaSerial::isErrorResponse and isValidResponse on the words received. *)

(* As IsErrorResponse, but a failed transfer is taken for an ended one. *)
IsErrorResponse_Never(buf) == FALSE

IsErrorResponse(buf) ==
  /\ Word(buf, 1) = EndImageTransfer
  /\ Len(buf) = 4
  /\ Word(buf, 4) # StatusSuccess
  /\ Word(buf, 4) < StatusMax

(* As IsValidResponse, but for the comparison of the commands. *)
IsValidResponse_NoCommandCheck(expected, buf) ==
  Len(buf) > 0 /\ ~IsErrorResponse(buf)

(* expected = 0 is validateResponse(NULL, ...): any command will do. *)
IsValidResponse(expected, buf) ==
  /\ Len(buf) > 0
  /\ ~IsErrorResponse(buf)
  /\ \/ expected = 0
     \/ Word(buf, 1) = expected
     \/ expected = ReadData

=============================================================================

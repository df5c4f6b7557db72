----------------------------- MODULE SaharaProofs -----------------------------
(***************************************************************************)
(* Type correctness of the Sahara system, and what it promises while the   *)
(* device does not restart, for every choice of its constants, the second  *)
(* within three assumptions, which TLC shows to be needed.                 *)
(*                                                                         *)
(* TypeOK alone is not inductive: the part of a file that sendImage writes *)
(* has the type of a write only if the image it was opened for is a number.*)
(* IInv adds that.  The promises are not inductive either: that the device *)
(* stores the part it asked for depends on what is on the line, on the     *)
(* request the host holds and on where in sendImage's loop it is.  Their   *)
(* strengthening is InStep.                                                *)
(***************************************************************************)
EXTENDS SaharaInvariant, SequenceTheorems, TLAPS

ImageChosen ==
  pc \in {"sendImage", "nextImageOffset"} => initialImage \in Images

IInv == TypeOK /\ ImageChosen

----------------------------------------------------------------------------
(* The packets of the device are sequences of words. *)

LEMMA FixedPacketsTyped ==
  /\ \A m \in Nat : HelloPacket(m) \in Seq(Nat)
  /\ \A r \in Requests : ReadDataPacket(r) \in Seq(Nat)
  /\ \A image, status \in Nat : EndPacket(image, status) \in Seq(Nat)
  /\ DonePacket \in Seq(Nat)
  /\ ResetPacket \in Seq(Nat)
  /\ ReadyPacket \in Seq(Nat)
  /\ MemoryDebugPacket \in Seq(Nat)
  /\ \A cmd, words \in Nat : ExecutePacket(cmd, words) \in Seq(Nat)
  /\ \A cmd, words \in Nat : Result(cmd, words) \in Seq(Nat)
<1>1. \A m \in Nat : HelloPacket(m) \in Seq(Nat)
  BY DEF HelloPacket, Hello
<1>2. \A r \in Requests : ReadDataPacket(r) \in Seq(Nat)
  BY DEF ReadDataPacket, Requests, ReadData
<1>3. \A image, status \in Nat : EndPacket(image, status) \in Seq(Nat)
  BY DEF EndPacket, EndImageTransfer
<1>4. /\ DonePacket \in Seq(Nat)
      /\ ResetPacket \in Seq(Nat)
      /\ ReadyPacket \in Seq(Nat)
      /\ MemoryDebugPacket \in Seq(Nat)
  BY DEF DonePacket, ResetPacket, ReadyPacket, MemoryDebugPacket,
         DoneResponse, ResetResponse, Ready, MemoryDebug
<1>5. \A cmd, words \in Nat : ExecutePacket(cmd, words) \in Seq(Nat)
  BY DEF ExecutePacket, ExecuteResponse
<1>6. ASSUME NEW cmd \in Nat, NEW words \in Nat
      PROVE  Result(cmd, words) \in Seq(Nat)
  <2>1. DataWord(cmd) \in Nat
    BY DEF DataWord
  <2>2. \A i \in 1 .. words : DataWord(cmd) \in Nat
    BY <2>1
  <2> QED
    BY <2>1 DEF Result
<1> QED
  BY <1>1, <1>2, <1>3, <1>4, <1>5, <1>6

(* What a read takes from the line and what it leaves. *)
LEMMA ReadTyped ==
  ASSUME rx \in Seq(Nat), NEW n \in Nat, NEW k \in ReadLengths(n)
  PROVE  /\ k \in 0 .. Len(rx)
         /\ TakeWords(k) \in Seq(Nat)
         /\ Len(TakeWords(k)) = k
         /\ RestWords(k) \in Seq(Nat)
         /\ Flushed(RestWords(k)) \in Seq(Nat)
<1>1. k \in 0 .. Len(rx) /\ Len(rx) \in Nat
  BY DEF ReadLengths
<1>2. \A i \in 1 .. k : rx[i] \in Nat
  BY <1>1, ElementOfSeq
<1>3. \A i \in k + 1 .. Len(rx) : rx[i] \in Nat
  BY <1>1, ElementOfSeq
<1>4. TakeWords(k) \in Seq(Nat) /\ Len(TakeWords(k)) = k
  BY <1>1, <1>2, SubSeqProperties DEF TakeWords
<1>5. RestWords(k) \in Seq(Nat)
  BY <1>1, <1>3, SubSeqProperties DEF RestWords
<1> QED
  BY <1>1, <1>4, <1>5 DEF Flushed

LEMMA WordTyped ==
  ASSUME NEW buf \in Seq(Nat), NEW i \in Nat
  PROVE  Word(buf, i) \in Nat
<1>1. DOMAIN buf = 1 .. Len(buf)
  BY LenProperties
<1> QED
  BY <1>1, ElementOfSeq DEF Word

LEMMA RequestTyped ==
  ASSUME NEW buf \in Seq(Nat), NEW filler \in Nat
  PROVE  AsRequest(buf, filler) \in Requests /\ NextOffset(buf) \in Requests
<1>1. DOMAIN buf = 1 .. Len(buf)
  BY LenProperties
<1>2. \A i \in DOMAIN buf : buf[i] \in Nat
  BY <1>1, ElementOfSeq
<1>3. \A f \in Nat : AsRequest(buf, f) \in Requests
  BY <1>2 DEF AsRequest, Requests
<1>4. NextOffset(buf) \in Requests
  BY <1>3 DEF NextOffset, Requests
<1> QED
  BY <1>3, <1>4

----------------------------------------------------------------------------
(* The helpers by which the actions touch the line. *)

LEMMA WritesTyped ==
  ASSUME toDevice \in Seq(Packets \cup Data),
         NEW msg \in Packets \cup Data, Writes(msg)
  PROVE  toDevice' \in Seq(Packets \cup Data)
BY DEF Writes

LEMMA SaysTyped ==
  ASSUME rx \in Seq(Nat), NEW words \in Seq(Nat), Says(words)
  PROVE  rx' \in Seq(Nat)
BY DEF Says

LEMMA TakesTyped ==
  ASSUME toDevice \in Seq(Packets \cup Data), Takes
  PROVE  /\ Taken \in Packets \cup Data
         /\ toDevice' \in Seq(Packets \cup Data)
BY HeadTailProperties DEF Takes, Taken

LEMMA PacketTyped ==
  ASSUME NEW cmd \in Nat, NEW arg \in Nat
  PROVE  Packet(cmd, arg) \in Packets
BY DEF Packet, Packets

----------------------------------------------------------------------------
(* The initial state. *)

LEMMA InitTyped == Init => IInv
BY DEF Init, HostInit, DeviceInit, IInv, TypeOK, ImageChosen, Phases, Calls,
       NoThrow, Sessions, NoRequest, Requests, NoImage, ImageTxPending

----------------------------------------------------------------------------
(* The steps of the host.  Each is proved for the variables it changes; the *)
(* device's own are not among them.                                         *)

LEMMA CommandsTyped ==
  /\ {Hello, HelloResponse, ReadData, Done, DoneResponse, Reset, ResetResponse,
      Ready, SwitchMode, Execute, ExecuteResponse, ExecuteData} \subseteq Nat
  /\ Modes \subseteq Nat
  /\ CommandMode \in Nat /\ ImageTxPending \in Nat
BY DEF Hello, HelloResponse, ReadData, Done, DoneResponse, Reset, ResetResponse,
       Ready, SwitchMode, Execute, ExecuteResponse, ExecuteData, Modes,
       ImageTxPending, ImageTxComplete, MemoryDebugMode, CommandMode

LEMMA HostCallTyped == IInv /\ HostCall => IInv'
<1> SUFFICES ASSUME IInv, HostCall PROVE IInv'
  OBVIOUS
<1> USE CommandsTyped DEF IInv, TypeOK
<1>1. CASE Open /\ UNCHANGED deviceVars
  BY <1>1, EmptySeq DEF Open, hostVars, imageVars, commandVars, deviceVars,
       imageTxVars, executeVars, ImageChosen
<1>2. CASE Close /\ UNCHANGED deviceVars
  BY <1>2, EmptySeq DEF Close, PortCloses, commandVars, deviceVars,
       imageTxVars, executeVars, ImageChosen, NoThrow, NoImage, Sessions, Calls
<1>3. CASE ReadHello /\ UNCHANGED deviceVars
  BY <1>3 DEF ReadHello, Blocks, linkVars, imageVars, commandVars, deviceVars,
       imageTxVars, executeVars, ImageChosen, Calls
<1>4. CASE SendHello /\ UNCHANGED deviceVars
  <2>1. mode' \in Nat
    BY <1>4 DEF SendHello
  <2>2. toDevice' \in Seq(Packets \cup Data)
    BY <1>4, <2>1, WritesTyped, PacketTyped DEF SendHello
  <2> QED
    BY <1>4, <2>1, <2>2 DEF SendHello, Blocks, imageVars, commandVars,
         deviceVars, imageTxVars, executeVars, ImageChosen, Calls
<1>5. CASE SwitchModeCall /\ UNCHANGED deviceVars
  <2> PICK m \in Modes : Writes(Packet(SwitchMode, m)) /\ mode' = m
    BY <1>5 DEF SwitchModeCall
  <2>1. mode' \in Nat /\ toDevice' \in Seq(Packets \cup Data)
    BY WritesTyped, PacketTyped
  <2> QED
    BY <1>5, <2>1 DEF SwitchModeCall, ReturnsTo, imageVars, commandVars,
         deviceVars, imageTxVars, executeVars, ImageChosen, Sessions
<1>6. CASE SwitchModeAndHello /\ UNCHANGED deviceVars
  <2> PICK m \in Modes : Writes(Packet(SwitchMode, m)) /\ mode' = m
    BY <1>6 DEF SwitchModeAndHello
  <2>1. mode' \in Nat /\ toDevice' \in Seq(Packets \cup Data)
    BY WritesTyped, PacketTyped
  <2> QED
    BY <1>6, <2>1 DEF SwitchModeAndHello, Blocks, imageVars, commandVars,
         deviceVars, imageTxVars, executeVars, ImageChosen, Calls
<1>7. CASE SendClientCommand /\ UNCHANGED deviceVars
  <2>1. command' \in Nat
    BY <1>7, CommandsAssumption DEF SendClientCommand
  <2>2. toDevice' \in Seq(Packets \cup Data)
    BY <1>7, <2>1, WritesTyped, PacketTyped DEF SendClientCommand
  <2> QED
    BY <1>7, <2>1, <2>2, EmptySeq DEF SendClientCommand, Blocks, imageVars,
         deviceVars, imageTxVars, executeVars, ImageChosen, Calls
<1>8. CASE ReadNextImageOffset /\ UNCHANGED deviceVars
  BY <1>8 DEF ReadNextImageOffset, Blocks, linkVars, imageVars, commandVars,
       deviceVars, imageTxVars, executeVars, ImageChosen, Calls
<1>9. CASE SendImage /\ UNCHANGED deviceVars
  <2>1. initialImage' \in Images /\ initialImage' \in Nat
    BY <1>9 DEF SendImage, Requests
  <2> QED
    BY <1>9, <2>1 DEF SendImage, Blocks, linkVars, commandVars, deviceVars,
         imageTxVars, executeVars, ImageChosen, Calls
<1>10. CASE SendDone /\ UNCHANGED deviceVars
  <2>1. toDevice' \in Seq(Packets \cup Data)
    BY <1>10, WritesTyped, PacketTyped DEF SendDone
  <2> QED
    BY <1>10, <2>1 DEF SendDone, Blocks, imageVars, commandVars, deviceVars,
         imageTxVars, executeVars, ImageChosen, Calls
<1>11. CASE SendReset /\ UNCHANGED deviceVars
  <2>1. toDevice' \in Seq(Packets \cup Data)
    BY <1>11, WritesTyped, PacketTyped DEF SendReset
  <2> QED
    BY <1>11, <2>1 DEF SendReset, Blocks, imageVars, commandVars, deviceVars,
         imageTxVars, executeVars, ImageChosen, Calls
<1> QED
  BY <1>1, <1>2, <1>3, <1>4, <1>5, <1>6, <1>7, <1>8, <1>9, <1>10, <1>11
  DEF HostCall

(* How a call ends: with an exception, with a return, or not yet. *)
Throwable == [at : Calls \cup {"idle", "none"}, io : BOOLEAN]
Control == pc \in Calls \cup {"idle"} /\ threw \in Throwable /\ sess \in Sessions

LEMMA EndsTyped ==
  /\ Control /\ pc \in Calls /\ Throws /\ sess' = sess => Control'
  /\ \A s \in Sessions : Control /\ ReturnsTo(s) => Control'
  /\ \A c \in Calls : Control /\ Blocks(c) /\ sess' = sess => Control'
<1>1. Control /\ pc \in Calls /\ Throws /\ sess' = sess => Control'
  <2> SUFFICES ASSUME Control, pc \in Calls, Throws, sess' = sess
               PROVE  Control'
    OBVIOUS
  <2>1. threw' \in Throwable
    BY DEF Throws, Throwable
  <2> QED
    BY <2>1 DEF Throws, Control
<1>2. \A s \in Sessions : Control /\ ReturnsTo(s) => Control'
  BY DEF ReturnsTo, Control
<1>3. \A c \in Calls : Control /\ Blocks(c) /\ sess' = sess => Control'
  BY DEF Blocks, Control
<1> QED
  BY <1>1, <1>2, <1>3

LEMMA TypeOKControl == TypeOK => Control
BY DEF TypeOK, Control, Throwable

LEMMA ControlNext == Control' <=> /\ pc' \in Calls \cup {"idle"}
                                 /\ threw' \in [at : Calls \cup {"idle", "none"}, io : BOOLEAN]
                                 /\ sess' \in Sessions
BY DEF Control, Throwable

(* The types of the variables no step of the host changes, and of the rest. *)
LEMMA HostAssembled ==
  ASSUME TypeOK, UNCHANGED <<phase, deviceVars>>,
         line' \in {"closed", "open", "broken"},
         rx' \in Seq(Nat), toDevice' \in Seq(Packets \cup Data), Control',
         mode' \in Nat, nextOffset' \in Requests,
         initialImage' \in Nat \cup {NoImage}, totalSent' \in Nat,
         command' \in Nat, dataSize' \in Nat, ret' \in Seq(Nat)
  PROVE  TypeOK'
BY ControlNext DEF TypeOK, deviceVars, imageTxVars, executeVars

LEMMA CallNames ==
  /\ {"readHello", "switchReadHello", "sendHello", "executeResponse",
      "executeData", "sendImage", "nextImageOffset", "readNextImageOffset",
      "sendDone", "sendReset"} = Calls
  /\ {"hello", "image", "command", "over", "none"} \subseteq Sessions
BY DEF Calls, Sessions

LEMMA PortFailsTyped == IInv /\ PortFails /\ UNCHANGED deviceVars => IInv'
<1> SUFFICES ASSUME IInv, PortFails, UNCHANGED deviceVars PROVE IInv'
  OBVIOUS
<1>1. threw' \in Throwable
  BY CallNames DEF PortFails, Throwable, IInv, TypeOK
<1>2. Control'
  BY <1>1, TypeOKControl DEF Control, PortFails, IInv
<1> QED
  BY <1>2, HostAssembled DEF PortFails, IInv, TypeOK, linkVars, imageVars,
       commandVars, ImageChosen

LEMMA ReadHelloTyped == IInv /\ ReadHello_Returns /\ UNCHANGED deviceVars => IInv'
<1> SUFFICES ASSUME IInv, ReadHello_Returns, UNCHANGED deviceVars PROVE IInv'
  OBVIOUS
<1> USE DEF IInv
<1>1. PICK k \in ReadLengths(12) : ReadHello_Returns!3!(k)
  BY DEF ReadHello_Returns
<1>2. /\ TakeWords(k) \in Seq(Nat)
      /\ RestWords(k) \in Seq(Nat)
      /\ Flushed(RestWords(k)) \in Seq(Nat)
  BY ReadTyped DEF TypeOK
<1>3. rx' \in Seq(Nat) /\ mode' \in Nat
  BY <1>1, <1>2, WordTyped DEF TypeOK
<1>4. toDevice' \in Seq(Packets \cup Data)
  BY <1>1, CommandsTyped, WritesTyped, PacketTyped DEF TypeOK
<1>5. Control' /\ pc' \notin {"sendImage", "nextImageOffset"}
  BY <1>1, TypeOKControl, EndsTyped, CallNames
  DEF ReadHello_Returns, Throws, ReturnsTo, Blocks
<1> QED
  BY <1>3, <1>4, <1>5, HostAssembled DEF ReadHello_Returns, TypeOK, imageVars,
       commandVars, ImageChosen

LEMMA SendHelloTyped == IInv /\ SendHello_Returns /\ UNCHANGED deviceVars => IInv'
<1> SUFFICES ASSUME IInv, SendHello_Returns, UNCHANGED deviceVars PROVE IInv'
  OBVIOUS
<1> USE DEF IInv
<1>1. PICK k \in ReadLengths(8) : SendHello_Returns!3!(k)
  BY DEF SendHello_Returns
<1>2. /\ TakeWords(k) \in Seq(Nat)
      /\ RestWords(k) \in Seq(Nat)
      /\ Flushed(RestWords(k)) \in Seq(Nat)
  BY ReadTyped DEF TypeOK
<1>3. rx' \in Seq(Nat)
  BY <1>1, <1>2 DEF TypeOK
<1>4. \A heap \in HeapWords : AsRequest(TakeWords(k), heap) \in Requests
  BY <1>2, RequestTyped DEF HeapWords
<1>5. nextOffset' \in Requests
  BY <1>1, <1>4 DEF TypeOK
<1>6. SessionsIn(mode) \subseteq Sessions
  BY DEF SessionsIn, Sessions
<1>7. Control' /\ pc' = "idle"
  BY <1>1, <1>6, TypeOKControl, EndsTyped, CallNames
  DEF SendHello_Returns, Throws, ReturnsTo
<1> QED
  BY <1>3, <1>5, <1>7, HostAssembled DEF SendHello_Returns, TypeOK, commandVars,
       ImageChosen

LEMMA ExecuteResponseTyped == IInv /\ ExecuteResponse_Returns /\ UNCHANGED deviceVars => IInv'
<1> SUFFICES ASSUME IInv, ExecuteResponse_Returns, UNCHANGED deviceVars PROVE IInv'
  OBVIOUS
<1> USE DEF IInv
<1>1. PICK k \in ReadLengths(4) : ExecuteResponse_Returns!3!(k)
  BY DEF ExecuteResponse_Returns
<1>2. /\ TakeWords(k) \in Seq(Nat)
      /\ RestWords(k) \in Seq(Nat)
      /\ Flushed(RestWords(k)) \in Seq(Nat)
  BY ReadTyped DEF TypeOK
<1>3. rx' \in Seq(Nat) /\ dataSize' \in Nat
  BY <1>1, <1>2, WordTyped DEF TypeOK
<1>4. toDevice' \in Seq(Packets \cup Data)
  BY <1>1, CommandsTyped, WritesTyped, PacketTyped DEF TypeOK
<1>5. Control' /\ pc' \in {"idle", "executeData"}
  BY <1>1, TypeOKControl, EndsTyped, CallNames
  DEF ExecuteResponse_Returns, Throws, Blocks
<1> QED
  BY <1>3, <1>4, <1>5, HostAssembled DEF ExecuteResponse_Returns, TypeOK,
       imageVars, ImageChosen

LEMMA ExecuteDataTyped == IInv /\ ExecuteData_Returns /\ UNCHANGED deviceVars => IInv'
<1> SUFFICES ASSUME IInv, ExecuteData_Returns, UNCHANGED deviceVars PROVE IInv'
  OBVIOUS
<1> USE DEF IInv
<1>1. PICK k \in ReadLengths(MaxPacketWords) : ExecuteData_Returns!3!(k)
  BY DEF ExecuteData_Returns
<1>2. /\ TakeWords(k) \in Seq(Nat)
      /\ RestWords(k) \in Seq(Nat)
      /\ Flushed(RestWords(k)) \in Seq(Nat)
  BY ReadTyped DEF TypeOK, MaxPacketWords
<1>3. rx' \in Seq(Nat)
  BY <1>1, <1>2 DEF TypeOK
<1>4. ret \o TakeWords(k) \in Seq(Nat) /\ <<>> \in Seq(Nat)
  BY <1>2, ConcatProperties, EmptySeq DEF TypeOK
<1>5. ret' \in Seq(Nat)
  BY <1>1, <1>4
<1>6. Control' /\ pc' \in {"idle", "executeData"}
  BY <1>1, TypeOKControl, EndsTyped, CallNames
  DEF ExecuteData_Returns, Throws, ReturnsTo, Control
<1> QED
  BY <1>3, <1>5, <1>6, HostAssembled DEF ExecuteData_Returns, TypeOK,
       imageVars, ImageChosen

LEMMA ReadNextTyped == IInv /\ ReadNextImageOffset_Returns /\ UNCHANGED deviceVars => IInv'
<1> SUFFICES ASSUME IInv, ReadNextImageOffset_Returns, UNCHANGED deviceVars PROVE IInv'
  OBVIOUS
<1> USE DEF IInv
<1>1. PICK k \in ReadLengths(5) : ReadNextImageOffset_Returns!3!(k)
  BY DEF ReadNextImageOffset_Returns
<1>2. /\ TakeWords(k) \in Seq(Nat)
      /\ RestWords(k) \in Seq(Nat)
      /\ Flushed(RestWords(k)) \in Seq(Nat)
  BY ReadTyped DEF TypeOK
<1>3. rx' \in Seq(Nat) /\ nextOffset' \in Requests
  BY <1>1, <1>2, RequestTyped DEF TypeOK
<1>4. Control' /\ pc' = "idle"
  BY <1>1, TypeOKControl, EndsTyped, CallNames
  DEF ReadNextImageOffset_Returns, Throws, ReturnsTo
<1> QED
  BY <1>3, <1>4, HostAssembled DEF ReadNextImageOffset_Returns, TypeOK,
       commandVars, ImageChosen

LEMMA SendImageTurnTyped == IInv /\ SendImage_Turn /\ UNCHANGED deviceVars => IInv'
<1> SUFFICES ASSUME IInv, SendImage_Turn, UNCHANGED deviceVars PROVE IInv'
  OBVIOUS
<1> USE DEF IInv
<1>1. initialImage \in Nat /\ initialImage \in Images
  BY FileSizeAssumption DEF SendImage_Turn, ImageChosen, Images
<1>2. FileData(initialImage, nextOffset.offset, nextOffset.size) \in Data
  BY <1>1 DEF TypeOK, FileData, Data, Requests
<1>3. toDevice' \in Seq(Packets \cup Data)
  BY <1>2, WritesTyped DEF SendImage_Turn, TypeOK
<1>4. Control'
  BY TypeOKControl, EndsTyped, CallNames DEF SendImage_Turn
<1> QED
  BY <1>1, <1>3, <1>4, HostAssembled DEF SendImage_Turn, TypeOK, imageVars,
       commandVars, ImageChosen

LEMMA SendImageReturnsTyped == IInv /\ SendImage_Returns /\ UNCHANGED deviceVars => IInv'
<1> SUFFICES ASSUME IInv, SendImage_Returns, UNCHANGED deviceVars PROVE IInv'
  OBVIOUS
<1> USE DEF IInv
<1>1. PICK k \in ReadLengths(5) : SendImage_Returns!3!(k)
  BY DEF SendImage_Returns
<1>2. /\ TakeWords(k) \in Seq(Nat)
      /\ RestWords(k) \in Seq(Nat)
      /\ Flushed(RestWords(k)) \in Seq(Nat)
  BY ReadTyped DEF TypeOK
<1>3. rx' \in Seq(Nat) /\ nextOffset' \in Requests
  BY <1>1, <1>2, RequestTyped DEF TypeOK
<1>4. nextOffset.size \in Nat
  BY DEF TypeOK, Requests
<1>5. totalSent' \in Nat
  BY <1>1, <1>4 DEF TypeOK
<1>6. Control'
  BY <1>1, TypeOKControl, EndsTyped, CallNames DEF SendImage_Returns
<1> QED
  BY <1>3, <1>5, <1>6, HostAssembled DEF SendImage_Returns, TypeOK,
       commandVars, ImageChosen

LEMMA SendDoneTyped == IInv /\ SendDone_Returns /\ UNCHANGED deviceVars => IInv'
<1> SUFFICES ASSUME IInv, SendDone_Returns, UNCHANGED deviceVars PROVE IInv'
  OBVIOUS
<1> USE DEF IInv
<1>1. PICK k \in ReadLengths(3) : SendDone_Returns!3!(k)
  BY DEF SendDone_Returns
<1>2. /\ TakeWords(k) \in Seq(Nat)
      /\ RestWords(k) \in Seq(Nat)
      /\ Flushed(RestWords(k)) \in Seq(Nat)
  BY ReadTyped DEF TypeOK
<1>3. rx' \in Seq(Nat)
  BY <1>1, <1>2
<1>4. Control' /\ pc' = "idle"
  BY <1>1, TypeOKControl, EndsTyped, CallNames
  DEF SendDone_Returns, Throws, ReturnsTo
<1> QED
  BY <1>3, <1>4, HostAssembled DEF SendDone_Returns, TypeOK, imageVars,
       commandVars, ImageChosen

LEMMA PortClosesTyped ==
  PortCloses => /\ line' = "closed" /\ rx' \in Seq(Nat) /\ pc' = "idle"
                /\ Control' /\ initialImage' \in Nat \cup {NoImage}
<1> SUFFICES ASSUME PortCloses PROVE threw' \in Throwable /\ rx' \in Seq(Nat)
  BY CallNames DEF PortCloses, Control
<1>1. NoThrow \in Throwable
  BY DEF NoThrow, Throwable
<1> QED
  BY <1>1, EmptySeq DEF PortCloses

LEMMA SendResetTyped == IInv /\ SendReset_Returns /\ UNCHANGED deviceVars => IInv'
<1> SUFFICES ASSUME IInv, SendReset_Returns, UNCHANGED deviceVars PROVE IInv'
  OBVIOUS
<1> USE DEF IInv
<1>1. PICK k \in ReadLengths(2) : SendReset_Returns!3!(k)
  BY DEF SendReset_Returns
<1>2. /\ TakeWords(k) \in Seq(Nat)
      /\ RestWords(k) \in Seq(Nat)
      /\ Flushed(RestWords(k)) \in Seq(Nat)
  BY ReadTyped DEF TypeOK
<1>3. CASE PortCloses
  BY <1>3, PortClosesTyped, HostAssembled DEF SendReset_Returns, TypeOK,
       commandVars, ImageChosen
<1>4. CASE rx' = RestWords(k) /\ Throws /\ UNCHANGED <<line, sess, initialImage>>
  <2>1. Control' /\ pc' = "idle"
    BY <1>4, TypeOKControl, EndsTyped, CallNames DEF SendReset_Returns, Throws
  <2> QED
    BY <1>2, <1>4, <2>1, HostAssembled DEF SendReset_Returns, TypeOK,
         commandVars, ImageChosen
<1> QED
  BY <1>1, <1>3, <1>4

LEMMA ResetFailsTyped == IInv /\ SendReset_PortFails /\ UNCHANGED deviceVars => IInv'
BY PortClosesTyped, HostAssembled DEF SendReset_PortFails, IInv, TypeOK,
     commandVars, ImageChosen

LEMMA HostStepTyped == IInv /\ HostStep => IInv'
BY PortFailsTyped, ReadHelloTyped, SendHelloTyped, ExecuteResponseTyped,
   ExecuteDataTyped, ReadNextTyped, SendImageTurnTyped, SendImageReturnsTyped,
   SendDoneTyped, SendResetTyped, ResetFailsTyped DEF HostStep

----------------------------------------------------------------------------
(* The steps of the device. *)

LEMMA DeviceAssembled ==
  ASSUME IInv, UNCHANGED hostVars, line' \in {"closed", "open", "broken"},
         rx' \in Seq(Nat), toDevice' \in Seq(Packets \cup Data),
         phase' \in Phases, asked' \in Requests,
         stored' \subseteq [asked : Requests, took : Packets \cup Data],
         executing' \in Nat, remaining' \in Nat, requests' \in Nat,
         restarts' \in Nat
  PROVE  IInv'
BY DEF IInv, TypeOK, ImageChosen, hostVars, imageVars, commandVars

LEMMA WantedTyped == Wanted \subseteq Requests
BY WantedAssumption DEF Requests

LEMMA AsksForTyped ==
  ASSUME TypeOK, NEW r \in Wanted, AsksFor(r)
  PROVE  /\ rx' \in Seq(Nat)
         /\ phase' \in Phases
         /\ asked' \in Requests
         /\ requests' \in Nat
<1>1. r \in Requests
  BY WantedTyped
<1>2. ReadDataPacket(r) \in Seq(Nat)
  BY <1>1, FixedPacketsTyped
<1> QED
  BY <1>1, <1>2, SaysTyped DEF AsksFor, TypeOK, Phases

LEMMA RefusesTyped ==
  ASSUME TypeOK, NEW image \in Nat, NEW next \in Phases, RefusesWith(image, next)
  PROVE  rx' \in Seq(Nat) /\ phase' \in Phases
BY FixedPacketsTyped, SaysTyped DEF RefusesWith, TypeOK, StatusError

LEMMA PhaseNames ==
  /\ {"boot", "hello", "tx", "ended", "ready", "exec", "data", "memory",
      "left", "halt"} = Phases
BY DEF Phases

LEMMA DeviceStepTyped == IInv /\ DeviceStep => IInv'
<1> SUFFICES ASSUME IInv, DeviceStep PROVE IInv'
  OBVIOUS
<1>0. TypeOK /\ asked.imageId \in Nat
  BY DEF IInv, TypeOK, Requests
<1>1. CASE DeviceGreets /\ UNCHANGED hostVars
  <2>1. PICK m \in BootModes : Says(HelloPacket(m))
    BY <1>1 DEF DeviceGreets
  <2>2. m \in Nat
    BY BootModesAssumption, CommandsTyped
  <2>3. rx' \in Seq(Nat)
    BY <1>0, <2>1, <2>2, FixedPacketsTyped, SaysTyped DEF TypeOK
  <2> QED
    BY <1>0, <1>1, <2>3, EmptySeq, PhaseNames, DeviceAssembled
    DEF DeviceGreets, TypeOK, deviceVars, imageTxVars, executeVars
<1>2. CASE TakesHelloResponse /\ UNCHANGED hostVars
  <2>1. toDevice' \in Seq(Packets \cup Data)
    BY <1>0, <1>2, TakesTyped DEF TakesHelloResponse, TypeOK
  <2>2. ASSUME NEW r \in Wanted, AsksFor(r)
        PROVE  /\ rx' \in Seq(Nat) /\ phase' \in Phases
               /\ asked' \in Requests /\ requests' \in Nat
    BY <1>0, <2>2, AsksForTyped
  <2>3. Says(ReadyPacket) \/ Says(MemoryDebugPacket) => rx' \in Seq(Nat)
    BY <1>0, FixedPacketsTyped, SaysTyped DEF TypeOK
  <2>4. /\ rx' \in Seq(Nat) /\ phase' \in Phases
        /\ asked' \in Requests /\ requests' \in Nat
    BY <1>0, <1>2, <2>2, <2>3, PhaseNames DEF TakesHelloResponse, TypeOK
  <2> QED
    BY <1>0, <1>2, <2>1, <2>4, DeviceAssembled
    DEF TakesHelloResponse, Takes, TypeOK, executeVars
<1>3. CASE TakesImageData /\ UNCHANGED hostVars
  <2>1. Taken \in Packets \cup Data /\ toDevice' \in Seq(Packets \cup Data)
    BY <1>0, <1>3, TakesTyped DEF TakesImageData, TypeOK
  <2>2. stored' \subseteq [asked : Requests, took : Packets \cup Data]
    BY <1>0, <1>3, <2>1 DEF TakesImageData, TypeOK
  <2>3. ASSUME NEW r \in Wanted, AsksFor(r)
        PROVE  /\ rx' \in Seq(Nat) /\ phase' \in Phases
               /\ asked' \in Requests /\ requests' \in Nat
    BY <1>0, <2>3, AsksForTyped
  <2>4. Says(EndPacket(asked.imageId, StatusSuccess)) => rx' \in Seq(Nat)
    BY <1>0, FixedPacketsTyped, SaysTyped DEF TypeOK, StatusSuccess
  <2>5. RefusesWith(asked.imageId, "halt")
          => rx' \in Seq(Nat) /\ phase' \in Phases
    BY <1>0, RefusesTyped, PhaseNames
  <2>6. /\ rx' \in Seq(Nat) /\ phase' \in Phases
        /\ asked' \in Requests /\ requests' \in Nat
    BY <1>0, <1>3, <2>3, <2>4, <2>5, PhaseNames DEF TakesImageData, TypeOK
  <2> QED
    BY <1>0, <1>3, <2>1, <2>2, <2>6, DeviceAssembled
    DEF TakesImageData, Takes, TypeOK, executeVars
<1>4. CASE TakesDone /\ UNCHANGED hostVars
  <2>1. toDevice' \in Seq(Packets \cup Data) /\ rx' \in Seq(Nat)
    BY <1>0, <1>4, TakesTyped, SaysTyped, FixedPacketsTyped
    DEF TakesDone, TypeOK
  <2> QED
    BY <1>0, <1>4, <2>1, PhaseNames, DeviceAssembled
    DEF TakesDone, Takes, TypeOK, deviceVars, imageTxVars, executeVars
<1>5. CASE TakesExecute /\ UNCHANGED hostVars
  <2>1. toDevice' \in Seq(Packets \cup Data) /\ Taken \in Packets \cup Data
    BY <1>0, <1>5, TakesTyped DEF TakesExecute, TypeOK
  <2>2. Taken.arg \in Nat
    BY <1>5, <2>1 DEF TakesExecute, IsPacket, Packets, Data
  <2>3. PICK n \in ResultSizes : /\ Says(ExecutePacket(Taken.arg, n))
                                 /\ executing' = Taken.arg
                                 /\ remaining' = n
    BY <1>5 DEF TakesExecute
  <2>4. n \in Nat
    BY ResultSizesAssumption
  <2>5. rx' \in Seq(Nat)
    BY <1>0, <2>2, <2>3, <2>4, SaysTyped, FixedPacketsTyped DEF TypeOK
  <2> QED
    BY <1>0, <1>5, <2>1, <2>2, <2>3, <2>4, <2>5, PhaseNames, DeviceAssembled
    DEF TakesExecute, Takes, TypeOK, imageTxVars
<1>6. CASE TakesExecuteData /\ UNCHANGED hostVars
  <2>1. toDevice' \in Seq(Packets \cup Data)
    BY <1>0, <1>6, TakesTyped DEF TakesExecuteData, TypeOK
  <2> QED
    BY <1>0, <1>6, <2>1, PhaseNames, DeviceAssembled
    DEF TakesExecuteData, Takes, TypeOK, deviceVars, imageTxVars, executeVars
<1>7. CASE SendsResult /\ UNCHANGED hostVars
  <2>1. PICK n \in 1 .. remaining :
          /\ Says(Result(executing, n))
          /\ remaining' = remaining - n
          /\ phase' = IF n = remaining THEN "ready" ELSE "data"
    BY <1>7 DEF SendsResult
  <2>2. n \in Nat /\ remaining' \in Nat /\ executing \in Nat
    BY <1>0, <2>1 DEF TypeOK
  <2>3. rx' \in Seq(Nat)
    BY <1>0, <2>1, <2>2, SaysTyped, FixedPacketsTyped DEF TypeOK
  <2>4. phase' \in Phases
    BY <2>1, PhaseNames
  <2> QED
    BY <1>0, <1>7, <2>2, <2>3, <2>4, DeviceAssembled
    DEF SendsResult, TypeOK, imageTxVars
<1>8. CASE TakesSwitchMode /\ UNCHANGED hostVars
  <2>1. toDevice' \in Seq(Packets \cup Data) /\ Taken \in Packets \cup Data
    BY <1>0, <1>8, TakesTyped DEF TakesSwitchMode, TypeOK
  <2>2. Taken.arg \in Nat
    BY <1>8, <2>1 DEF TakesSwitchMode, IsPacket, Packets, Data
  <2>3. rx' \in Seq(Nat)
    BY <1>0, <1>8, <2>2, SaysTyped, FixedPacketsTyped
    DEF TakesSwitchMode, TypeOK
  <2> QED
    BY <1>0, <1>8, <2>1, <2>3, PhaseNames, DeviceAssembled
    DEF TakesSwitchMode, Takes, TypeOK, deviceVars, imageTxVars, executeVars
<1>9. CASE TakesReset /\ UNCHANGED hostVars
  <2>1. toDevice' \in Seq(Packets \cup Data) /\ rx' \in Seq(Nat)
    BY <1>0, <1>9, TakesTyped, SaysTyped, FixedPacketsTyped
    DEF TakesReset, TypeOK
  <2> QED
    BY <1>0, <1>9, <2>1, PhaseNames, DeviceAssembled
    DEF TakesReset, Takes, TypeOK, deviceVars, imageTxVars, executeVars
<1>10. CASE Refuses /\ UNCHANGED hostVars
  <2>1. toDevice' \in Seq(Packets \cup Data)
    BY <1>0, <1>10, TakesTyped DEF Refuses, TypeOK
  <2>2. rx' \in Seq(Nat) /\ phase' \in Phases
    BY <1>0, <1>10, RefusesTyped, PhaseNames DEF Refuses
  <2> QED
    BY <1>0, <1>10, <2>1, <2>2, DeviceAssembled
    DEF Refuses, Takes, TypeOK, deviceVars, imageTxVars, executeVars
<1>11. CASE TakesUnexpected /\ UNCHANGED hostVars
  <2>1. toDevice' \in Seq(Packets \cup Data)
    BY <1>0, <1>11, TakesTyped DEF TakesUnexpected, TypeOK
  <2>2. rx' \in Seq(Nat) /\ phase' \in Phases
    BY <1>0, <1>11, RefusesTyped, PhaseNames DEF TakesUnexpected
  <2> QED
    BY <1>0, <1>11, <2>1, <2>2, DeviceAssembled
    DEF TakesUnexpected, Takes, TypeOK, deviceVars, imageTxVars, executeVars
<1>12. CASE Ignores /\ UNCHANGED hostVars
  <2>1. toDevice' \in Seq(Packets \cup Data)
    BY <1>0, <1>12, TakesTyped DEF Ignores, TypeOK
  <2> QED
    BY <1>0, <1>12, <2>1, DeviceAssembled
    DEF Ignores, Takes, TypeOK, deviceVars, imageTxVars, executeVars
<1> QED
  BY <1>1, <1>2, <1>3, <1>4, <1>5, <1>6, <1>7, <1>8, <1>9, <1>10, <1>11, <1>12
  DEF DeviceStep

LEMMA RestartsTyped == IInv /\ Restarts /\ UNCHANGED hostVars => IInv'
<1> SUFFICES ASSUME IInv, Restarts, UNCHANGED hostVars PROVE IInv'
  OBVIOUS
<1>1. TypeOK /\ restarts' \in Nat
  BY DEF IInv, TypeOK, Restarts
<1>2. toDevice' \in Seq(Packets \cup Data) /\ phase' \in Phases
  BY EmptySeq, PhaseNames DEF Restarts
<1>3. line' \in {"closed", "open", "broken"}
  BY <1>1 DEF Restarts, TypeOK
<1> QED
  BY <1>1, <1>2, <1>3, DeviceAssembled
  DEF Restarts, TypeOK, imageTxVars, executeVars

----------------------------------------------------------------------------

LEMMA StutterTyped == IInv /\ UNCHANGED vars => IInv'
BY DEF IInv, TypeOK, ImageChosen, vars, linkVars, hostVars, imageVars,
       commandVars, deviceVars, imageTxVars, executeVars

(* Every variable of the system keeps its type for every set of images,     *)
(* commands, requests and faults.  The fields the host takes from the line  *)
(* unchecked (sendHello's and readNextImageOffset's request, the size in    *)
(* sendClientCommand) are words whatever was received, and what sendImage   *)
(* writes names the image of a file it has open.                            *)
THEOREM TypeCorrect == Spec => []TypeOK
<1>1. Init => IInv
  BY InitTyped
<1>2. IInv /\ [Next]_vars => IInv'
  BY HostCallTyped, HostStepTyped, DeviceStepTyped, RestartsTyped,
     StutterTyped DEF Next
<1>3. IInv => TypeOK
  BY DEF IInv
<1> QED
  BY <1>1, <1>2, <1>3, PTL DEF Spec


----------------------------------------------------------------------------
(* While the device does not restart.                                      *)

(* A read ends where a packet ends; the program answers a request of the    *)
(* same image again; ExecuteData is not answered with an error, which the   *)
(* loop of sendClientCommand takes for a part of the result.                *)
StepAssumption ==
  /\ "stall" \notin Faults
  /\ "careful" \in Habits
  /\ "exec" \notin ErrorPhases

----------------------------------------------------------------------------
(* Reads on a line that does not stall. *)

LEMMA ReadsNothing ==
  ASSUME rx = <<>>, NEW n \in Nat, NEW k \in ReadLengths(n)
  PROVE  TakeWords(k) = <<>>
<1>1. k = 0
  BY DEF ReadLengths
<1> QED
  BY <1>1, SubSeqEmpty DEF TakeWords

LEMMA ReadsToTheEnd ==
  ASSUME rx \in Seq(Nat), "stall" \notin Faults, NEW n \in Nat,
         Len(rx) <= n, NEW k \in ReadLengths(n)
  PROVE  /\ TakeWords(k) = rx
         /\ RestWords(k) = <<>>
         /\ Flushed(RestWords(k)) = <<>>
<1>1. k = Len(rx) /\ k \in Nat
  BY DEF ReadLengths
<1>2. TakeWords(k) = rx
  BY <1>1, SubSeqFull DEF TakeWords
<1>3. RestWords(k) = <<>>
  BY <1>1, SubSeqEmpty DEF RestWords
<1> QED
  BY <1>2, <1>3 DEF Flushed

(* Silence and refusals are no valid answers. *)
LEMMA NotValid ==
  /\ \A c : ~IsValidResponse(c, <<>>)
  /\ \A c, image : ~IsValidResponse(c, EndPacket(image, StatusError))
<1>1. \A c : ~IsValidResponse(c, <<>>)
  BY DEF IsValidResponse
<1>2. ASSUME NEW image PROVE IsErrorResponse(EndPacket(image, StatusError))
  BY DEF IsErrorResponse, EndPacket, Word, StatusError, StatusSuccess,
         StatusMax, EndImageTransfer
<1> QED
  BY <1>1, <1>2 DEF IsValidResponse

LEMMA AnswerLengths ==
  /\ \A r : Len(ReadDataPacket(r)) = 5
  /\ \A image, status : Len(EndPacket(image, status)) = 4
  /\ \A cmd, words : Len(ExecutePacket(cmd, words)) = 4
  /\ Len(DonePacket) = 3 /\ Len(ReadyPacket) = 3 /\ Len(MemoryDebugPacket) = 4
<1>1. \A r : Len(ReadDataPacket(r)) = 5
  BY DEF ReadDataPacket
<1>2. \A image, status : Len(EndPacket(image, status)) = 4
  BY DEF EndPacket
<1>3. \A cmd, words : Len(ExecutePacket(cmd, words)) = 4
  BY DEF ExecutePacket
<1>4. Len(DonePacket) = 3 /\ Len(ReadyPacket) = 3 /\ Len(MemoryDebugPacket) = 4
  BY DEF DonePacket, ReadyPacket, MemoryDebugPacket
<1> QED
  BY <1>1, <1>2, <1>3, <1>4

(* A request read whole is the request that was made. *)
LEMMA RequestRead ==
  ASSUME NEW r \in Requests, NEW filler
  PROVE  /\ AsRequest(ReadDataPacket(r), filler) = r
         /\ NextOffset(ReadDataPacket(r)) = r
<1>1. \A f : AsRequest(ReadDataPacket(r), f) = r
  BY DEF AsRequest, ReadDataPacket, Requests
<1>2. Word(ReadDataPacket(r), 1) # EndImageTransfer
  BY DEF Word, ReadDataPacket, ReadData, EndImageTransfer
<1> QED
  BY <1>1, <1>2 DEF NextOffset

(* The end of a transfer is read as a request of nothing. *)
LEMMA EndRead ==
  ASSUME NEW image, NEW status
  PROVE  /\ AsksNothing(NextOffset(EndPacket(image, status)))
         /\ NextOffset(EndPacket(image, status)).imageId = image
BY DEF AsksNothing, NextOffset, EndPacket, Word, AsRequest

----------------------------------------------------------------------------
(* How a call's step preserves InStep. *)

LEMMA CallEnds ==
  ASSUME TypeOK, InStep, restarts = 0, pc \in Calls, line = "open",
         UNCHANGED <<line, toDevice, phase, asked, restarts>>, sess' = sess,
         Throws, ResultKept'
  PROVE  InStep'
<1>1. PortInUse /\ OneWrite /\ AsksForSomething /\ (sess = "over" => phase = "left")
  BY DEF InStep
<1>2. threw' # NoThrow
  BY DEF Throws, NoThrow, Calls
<1>3. pc' = "idle"
  BY DEF Throws
<1>4. PortInUse'
  BY <1>1, <1>3 DEF PortInUse
<1>5. OneWrite' /\ AsksForSomething'
  BY <1>1 DEF OneWrite, AsksForSomething, Part
<1>6. CallInStep'
  BY <1>3 DEF CallInStep
<1> QED
  BY <1>1, <1>2, <1>4, <1>5, <1>6 DEF InStep, Running

LEMMA CallReturns ==
  ASSUME InStep, restarts = 0, line = "open",
         UNCHANGED <<line, phase, asked, restarts>>, pc' = "idle",
         OneWrite', ResultKept', IdleInStep', sess' = "over" => phase = "left"
  PROVE  InStep'
<1>1. AsksForSomething
  BY DEF InStep
<1>2. PortInUse' /\ CallInStep'
  BY DEF PortInUse, CallInStep
<1>3. AsksForSomething'
  BY <1>1 DEF AsksForSomething
<1> QED
  BY <1>2, <1>3 DEF InStep

LEMMA CallBlocks ==
  ASSUME InStep, restarts = 0, line = "open", threw' = NoThrow, pc' # "idle",
         UNCHANGED <<line, phase, asked, restarts>>, sess' = sess,
         OneWrite', ResultKept', CallInStep'
  PROVE  InStep'
<1>1. AsksForSomething /\ (sess = "over" => phase = "left")
  BY DEF InStep
<1>2. PortInUse' /\ ~Running'
  BY DEF PortInUse, Running
<1>3. AsksForSomething'
  BY <1>1 DEF AsksForSomething
<1> QED
  BY <1>1, <1>2, <1>3 DEF InStep

LEMMA NoWriteUnderWay == toDevice' = <<>> => OneWrite'
BY DEF OneWrite

LEMMA WritesOne ==
  ASSUME toDevice = <<>>, NEW msg, Writes(msg)
  PROVE  toDevice' = <<msg>>
BY DEF Writes

(* A result the call does not touch is kept. *)
LEMMA ResultUntouched ==
  ASSUME InStep, restarts = 0, UNCHANGED commandVars,
         pc \notin {"executeResponse", "executeData"}
  PROVE  ResultKept'
BY DEF InStep, ResultKept, IsResult, commandVars, DataWord

----------------------------------------------------------------------------
(* The steps of the host. *)

LEMMA HostCallInStep ==
  ASSUME StepAssumption, IInv, InStep, restarts = 0, HostCall
  PROVE  InStep'
<1>0. UNCHANGED <<deviceVars, asked, restarts, phase>> /\ TypeOK
  BY DEF HostCall, IInv, deviceVars, imageTxVars, Open, Close, ReadHello,
         SendHello, SwitchModeCall, SwitchModeAndHello, SendClientCommand,
         ReadNextImageOffset, SendImage, SendDone, SendReset, linkVars
<1>1. /\ PortInUse /\ OneWrite /\ AsksForSomething /\ ResultKept
      /\ sess = "over" => phase = "left"
      /\ Running => IdleInStep
      /\ CallInStep
  BY DEF InStep
<1>2. CASE Open
  <2>1. IdleInStep' /\ PortInUse' /\ CallInStep'
    BY <1>1, <1>2 DEF Open, IdleInStep, HelloIsLatest, PortInUse, hostVars,
                      CallInStep
  <2>2. OneWrite' /\ ResultKept' /\ AsksForSomething'
    BY <1>0, <1>1, <1>2
    DEF Open, OneWrite, ResultKept, IsResult, AsksForSomething, Part, DataWord,
        FileData, hostVars, commandVars
  <2> QED
    BY <1>0, <1>1, <1>2, <2>1, <2>2 DEF InStep, Open, hostVars
<1>3. CASE Close
  <2>1. PortInUse' /\ CallInStep' /\ ~Running'
    BY <1>3 DEF Close, PortCloses, PortInUse, CallInStep, Running
  <2>2. OneWrite' /\ AsksForSomething'
    BY <1>0, <1>1, <1>3 DEF Close, OneWrite, AsksForSomething, Part, FileData
  <2>3. ResultKept'
    BY <1>1, <1>3 DEF Close, ResultKept, IsResult, DataWord, commandVars
  <2> QED
    BY <1>0, <1>1, <1>3, <2>1, <2>2, <2>3 DEF InStep, Close, PortCloses
<1>4. CASE ReadHello
  <2>1. HelloIsLatest
    BY <1>1, <1>4 DEF ReadHello, IdleInStep
  <2>2. CallInStep' /\ threw' = NoThrow /\ pc' # "idle"
    BY <1>0, <1>4, <2>1
    DEF ReadHello, Blocks, Running, CallInStep, HelloIsLatest, Answered, linkVars
  <2>3. OneWrite'
    BY <1>0, <1>1, <1>4 DEF ReadHello, OneWrite, Part, FileData, linkVars
  <2>4. ResultKept'
    BY <1>4, ResultUntouched DEF ReadHello, Running
  <2> QED
    BY <1>0, <1>4, <2>2, <2>3, <2>4, CallBlocks DEF ReadHello, Running, linkVars
<1>5. CASE SendHello
  <2>1. Quiet /\ phase = "hello"
    BY <1>1, <1>5 DEF SendHello, IdleInStep
  <2>2. toDevice' = <<Packet(HelloResponse, mode')>> /\ rx' = <<>>
    BY <1>5, <2>1, WritesOne DEF SendHello, Quiet
  <2>3. OneWrite'
    BY <1>0, <2>1, <2>2 DEF OneWrite
  <2>4. CallInStep' /\ threw' = NoThrow /\ pc' # "idle"
    BY <1>0, <1>5, <2>1, <2>2
    DEF SendHello, Blocks, Running, CallInStep, HelloInStep, Sent
  <2>5. ResultKept'
    BY <1>5, ResultUntouched DEF SendHello, Running
  <2> QED
    BY <1>0, <1>5, <2>3, <2>4, <2>5, CallBlocks DEF SendHello, Running
<1>6. CASE SwitchModeCall
  <2>1. Quiet /\ phase = "ready"
    BY <1>1, <1>6 DEF SwitchModeCall, IdleInStep
  <2>2. PICK m \in Modes : Writes(Packet(SwitchMode, m))
    BY <1>6 DEF SwitchModeCall
  <2>3. toDevice' = <<Packet(SwitchMode, m)>> /\ rx' = <<>>
    BY <1>6, <2>1, <2>2, WritesOne DEF SwitchModeCall, Quiet
  <2>4. OneWrite'
    BY <1>0, <2>1, <2>3 DEF OneWrite
  <2>5. IdleInStep' /\ sess' # "over" /\ pc' = "idle"
    BY <1>6, <2>3 DEF SwitchModeCall, ReturnsTo, IdleInStep, HelloIsLatest
  <2>6. ResultKept'
    BY <1>6, ResultUntouched DEF SwitchModeCall, Running
  <2> QED
    BY <1>0, <1>6, <2>4, <2>5, <2>6, CallReturns DEF SwitchModeCall, Running
<1>7. CASE SwitchModeAndHello
  <2>1. Quiet /\ phase = "ready"
    BY <1>1, <1>7 DEF SwitchModeAndHello, IdleInStep
  <2>2. PICK m \in Modes : Writes(Packet(SwitchMode, m))
    BY <1>7 DEF SwitchModeAndHello
  <2>3. toDevice' = <<Packet(SwitchMode, m)>> /\ rx' = <<>>
    BY <1>7, <2>1, <2>2, WritesOne DEF SwitchModeAndHello, Quiet
  <2>4. OneWrite'
    BY <1>0, <2>1, <2>3 DEF OneWrite
  <2>5. CallInStep' /\ threw' = NoThrow /\ pc' # "idle"
    BY <1>7, <2>3
    DEF SwitchModeAndHello, Blocks, Running, CallInStep, HelloIsLatest
  <2>6. ResultKept'
    BY <1>7, ResultUntouched DEF SwitchModeAndHello, Running
  <2> QED
    BY <1>0, <1>7, <2>4, <2>5, <2>6, CallBlocks DEF SwitchModeAndHello, Running
<1>8. CASE SendClientCommand
  <2>1. Quiet /\ phase = "ready"
    BY <1>1, <1>8 DEF SendClientCommand, IdleInStep
  <2>2. toDevice' = <<Packet(Execute, command')>> /\ rx' = <<>>
    BY <1>8, <2>1, WritesOne DEF SendClientCommand, Quiet
  <2>3. OneWrite'
    BY <1>0, <2>1, <2>2 DEF OneWrite
  <2>4. /\ CallInStep' /\ threw' = NoThrow /\ pc' # "idle"
        /\ ResultKept'
    BY <1>0, <1>8, <2>1, <2>2
    DEF SendClientCommand, Blocks, Running, CallInStep, ExecuteInStep, Sent,
        ResultKept
  <2> QED
    BY <1>0, <1>8, <2>3, <2>4, CallBlocks DEF SendClientCommand, Running
<1>9. CASE ReadNextImageOffset
  <2>1. HoldsRequest
    BY <1>1, <1>9 DEF ReadNextImageOffset, IdleInStep
  <2>2. OneWrite'
    BY <1>9, <2>1, NoWriteUnderWay DEF ReadNextImageOffset, HoldsRequest, Quiet, linkVars
  <2>3. CallInStep' /\ threw' = NoThrow /\ pc' # "idle"
    BY <1>0, <1>9, <2>1
    DEF ReadNextImageOffset, Blocks, Running, CallInStep, HoldsRequest, Quiet,
        AsksNothing, linkVars, imageVars
  <2>4. ResultKept'
    BY <1>9, ResultUntouched DEF ReadNextImageOffset, Running
  <2> QED
    BY <1>0, <1>9, <2>2, <2>3, <2>4, CallBlocks
    DEF ReadNextImageOffset, Running, linkVars
<1>10. CASE SendImage
  <2>1. HoldsRequest
    BY <1>1, <1>10 DEF SendImage, IdleInStep
  <2>2. Quiet /\ phase = "tx" /\ nextOffset = asked
    BY <1>10, <2>1 DEF SendImage, HoldsRequest, StepAssumption
  <2>3. OneWrite'
    BY <1>10, <2>2, NoWriteUnderWay DEF SendImage, Quiet, linkVars
  <2>4. CallInStep' /\ threw' = NoThrow /\ pc' # "idle"
    BY <1>0, <1>10, <2>2
    DEF SendImage, Blocks, Running, CallInStep, Quiet, linkVars
  <2>5. ResultKept'
    BY <1>10, ResultUntouched DEF SendImage, Running
  <2> QED
    BY <1>0, <1>10, <2>3, <2>4, <2>5, CallBlocks DEF SendImage, Running, linkVars
<1>11. CASE SendDone
  <2>1. HoldsRequest /\ AsksNothing(nextOffset)
    BY <1>1, <1>11 DEF SendDone, IdleInStep, StepAssumption
  <2>2. phase # "tx"
    BY <1>1, <2>1, WantedAssumption
    DEF HoldsRequest, AsksForSomething, AsksNothing
  <2>3. Quiet /\ phase = "ended"
    BY <2>1, <2>2 DEF HoldsRequest
  <2>4. toDevice' = <<Packet(Done, 0)>> /\ rx' = <<>>
    BY <1>11, <2>3, WritesOne DEF SendDone, Quiet
  <2>5. OneWrite'
    BY <1>0, <2>3, <2>4 DEF OneWrite
  <2>6. CallInStep' /\ threw' = NoThrow /\ pc' # "idle"
    BY <1>0, <1>11, <2>3, <2>4
    DEF SendDone, Blocks, Running, CallInStep, DoneInStep, Sent
  <2>7. ResultKept'
    BY <1>11, ResultUntouched DEF SendDone, Running
  <2> QED
    BY <1>0, <1>11, <2>5, <2>6, <2>7, CallBlocks DEF SendDone, Running
<1>12. CASE SendReset
  <2>1. Quiet
    BY <1>1, <1>12 DEF SendReset, IdleInStep
  <2>2. toDevice' = <<Packet(Reset, 0)>>
    BY <1>12, <2>1, WritesOne DEF SendReset, Quiet
  <2>3. OneWrite'
    BY <2>2 DEF OneWrite
  <2>4. CallInStep' /\ threw' = NoThrow /\ pc' # "idle"
    BY <1>12 DEF SendReset, Blocks, Running, CallInStep
  <2>5. ResultKept'
    BY <1>12, ResultUntouched DEF SendReset, Running
  <2> QED
    BY <1>0, <1>12, <2>3, <2>4, <2>5, CallBlocks DEF SendReset, Running
<1> QED
  BY <1>2, <1>3, <1>4, <1>5, <1>6, <1>7, <1>8, <1>9, <1>10, <1>11, <1>12
  DEF HostCall

(* What every step of a running call may use. *)
LEMMA Blocked ==
  ASSUME StepAssumption, IInv, InStep, restarts = 0, HostStep
  PROVE  /\ line = "open" /\ threw = NoThrow /\ pc \in Calls
         /\ OneWrite /\ ResultKept /\ CallInStep /\ TypeOK
         /\ UNCHANGED <<asked, restarts, phase>>
<1>1. PortInUse /\ OneWrite /\ ResultKept /\ CallInStep /\ TypeOK
  BY DEF InStep, IInv
<1>2. pc \in Calls
  BY <1>1 DEF HostStep, PortFails, ReadHello_Returns, SendHello_Returns,
      ExecuteResponse_Returns, ExecuteData_Returns, ReadNextImageOffset_Returns,
      SendImage_Turn, SendImage_Returns, SendDone_Returns, SendReset_Returns,
      SendReset_PortFails, Calls, PortInUse
<1>3. line = "open" /\ threw = NoThrow
  BY <1>1, <1>2 DEF PortInUse, Calls
<1>4. UNCHANGED <<asked, restarts, phase>>
  BY DEF HostStep, PortFails, ReadHello_Returns, SendHello_Returns,
      ExecuteResponse_Returns, ExecuteData_Returns, ReadNextImageOffset_Returns,
      SendImage_Turn, SendImage_Returns, SendDone_Returns, SendReset_Returns,
      SendReset_PortFails, linkVars, deviceVars, imageTxVars
<1> QED
  BY <1>1, <1>2, <1>3, <1>4

LEMMA ReadHelloInStep ==
  ASSUME StepAssumption, IInv, InStep, restarts = 0, HostStep,
         ReadHello_Returns
  PROVE  InStep'
<1>0. /\ line = "open" /\ threw = NoThrow /\ pc \in Calls
      /\ OneWrite /\ ResultKept /\ CallInStep /\ TypeOK
      /\ UNCHANGED <<line, asked, restarts, phase>>
  BY Blocked DEF ReadHello_Returns
<1>1. HelloIsLatest /\ rx \in Seq(Nat)
  BY <1>0 DEF CallInStep, ReadHello_Returns, TypeOK
<1>2. ResultKept'
  BY ResultUntouched DEF ReadHello_Returns
<1>3. PICK k \in ReadLengths(12) : ReadHello_Returns!3!(k)
  BY DEF ReadHello_Returns
<1>4. CASE ~IsValidResponse(Hello, TakeWords(k))
  <2>1. Throws /\ UNCHANGED <<toDevice, sess>>
    BY <1>3, <1>4
  <2> QED
    BY <1>0, <1>2, <2>1, CallEnds
<1>5. CASE IsValidResponse(Hello, TakeWords(k))
  <2>1. rx # <<>> /\ rx[1] = Hello
    <3>1. rx # <<>>
      BY <1>5, ReadsNothing, NotValid
    <3>2. k \in 1 .. Len(rx)
      BY <1>1, <1>5, ReadTyped, NotValid, EmptySeq DEF IsValidResponse
    <3>3. Len(TakeWords(k)) = k /\ TakeWords(k) \in Seq(Nat)
      BY <1>1, ReadTyped
    <3>4. TakeWords(k)[1] = rx[1]
      BY <1>1, <3>2, <3>3 DEF TakeWords
    <3>5. TakeWords(k)[1] = Hello
      BY <1>5, <3>2, <3>3 DEF IsValidResponse, Word, Hello, ReadData
    <3> QED
      BY <3>1, <3>4, <3>5
  <2>2. Len(rx) = 12 /\ toDevice = <<>> /\ phase = "hello"
    BY <1>1, <2>1 DEF HelloIsLatest, Answered
  <2>3. rx' = <<>>
    BY <1>1, <1>3, <1>5, <2>2, ReadsToTheEnd DEF StepAssumption
  <2>4. CASE pc = "readHello"
    <3>1. ReturnsTo("hello") /\ UNCHANGED toDevice
      BY <1>3, <1>5, <2>4
    <3>2. OneWrite'
      BY <2>2, <3>1, NoWriteUnderWay
    <3>3. IdleInStep' /\ pc' = "idle" /\ sess' # "over"
      BY <1>0, <2>2, <2>3, <3>1 DEF ReturnsTo, IdleInStep, Quiet
    <3> QED
      BY <1>0, <1>2, <3>2, <3>3, CallReturns
  <2>5. CASE pc = "switchReadHello"
    <3>1. /\ Writes(Packet(HelloResponse, mode)) /\ Blocks("sendHello")
          /\ UNCHANGED <<sess, mode>>
      BY <1>3, <1>5, <2>5
    <3>2. toDevice' = <<Packet(HelloResponse, mode')>>
      BY <2>2, <3>1, WritesOne
    <3>3. OneWrite'
      BY <1>0, <2>2, <3>2 DEF OneWrite
    <3>4. CallInStep' /\ threw' = NoThrow /\ pc' # "idle"
      BY <1>0, <2>2, <2>3, <3>1, <3>2
      DEF Blocks, CallInStep, HelloInStep, Sent
    <3> QED
      BY <1>0, <1>2, <3>1, <3>3, <3>4, CallBlocks
  <2> QED
    BY <2>4, <2>5 DEF ReadHello_Returns
<1> QED
  BY <1>4, <1>5

LEMMA SendHelloInStep ==
  ASSUME StepAssumption, IInv, InStep, restarts = 0, HostStep,
         SendHello_Returns
  PROVE  InStep'
<1>0. /\ line = "open" /\ threw = NoThrow /\ pc \in Calls
      /\ OneWrite /\ ResultKept /\ CallInStep /\ TypeOK
      /\ UNCHANGED <<line, asked, restarts, phase, toDevice, mode, initialImage>>
  BY Blocked DEF SendHello_Returns
<1>1. HelloInStep /\ rx \in Seq(Nat)
  BY <1>0 DEF CallInStep, SendHello_Returns, TypeOK
<1>2. ResultKept'
  BY ResultUntouched DEF SendHello_Returns
<1>3. PICK k \in ReadLengths(8) : SendHello_Returns!3!(k)
  BY DEF SendHello_Returns
<1>4. CASE ~HelloAccepted(TakeWords(k))
  <2>1. Throws /\ UNCHANGED sess
    BY <1>3, <1>4
  <2> QED
    BY <1>0, <1>2, <2>1, CallEnds
<1>5. CASE HelloAccepted(TakeWords(k))
  <2>1. ~Sent(Packet(HelloResponse, mode))
    BY <1>5, ReadsNothing, NotValid DEF Sent, HelloAccepted
  <2>2. Len(rx) <= 8 /\ toDevice = <<>>
    <3>1. \/ Answered(ReadDataPacket(asked)) \/ Answered(ReadyPacket)
          \/ Answered(MemoryDebugPacket) \/ Refused
      BY <1>1, <2>1 DEF HelloInStep
    <3>2. (Len(rx) = 3 \/ Len(rx) = 4 \/ Len(rx) = 5) /\ toDevice = <<>>
      BY <3>1, AnswerLengths DEF Answered, Refused
    <3>3. \A n \in Nat : n \in {3, 4, 5} => n <= 8
      OBVIOUS
    <3>4. Len(rx) \in Nat
      BY <1>1
    <3> QED
      BY <3>2, <3>3, <3>4
  <2>3. TakeWords(k) = rx /\ rx' = <<>>
    BY <1>1, <1>3, <2>2, ReadsToTheEnd DEF StepAssumption
  <2>4. ~Refused
    BY <1>5, <2>3, NotValid DEF Refused, Answered, HelloAccepted
  <2>5. OneWrite'
    BY <1>0, <2>2, NoWriteUnderWay
  <2>6. PICK next \in SessionsIn(mode) : ReturnsTo(next)
    BY <1>3, <1>5
  <2>7. pc' = "idle" /\ sess' = next /\ next # "over" /\ Quiet'
    BY <1>0, <2>2, <2>3, <2>6 DEF ReturnsTo, SessionsIn, Quiet
  <2>8. CASE mode = ImageTxPending
    <3>1. Answered(ReadDataPacket(asked)) /\ phase = "tx"
      BY <1>1, <2>1, <2>4, <2>8
      DEF HelloInStep, ImageTxPending, CommandMode, MemoryDebugMode
    <3>2. PICK heap \in HeapWords : nextOffset' = AsRequest(rx, heap)
      BY <1>3, <1>5, <2>3, <2>8
    <3>3. nextOffset' = asked
      BY <1>0, <3>1, <3>2, RequestRead DEF Answered, TypeOK
    <3>4. HoldsRequest' /\ next \in {"image", "reread"}
      BY <1>0, <2>6, <2>7, <2>8, <3>1, <3>3
      DEF HoldsRequest, SessionsIn, ImageTxPending, CommandMode, MemoryDebugMode
    <3>5. IdleInStep'
      BY <2>7, <3>4 DEF IdleInStep
    <3> QED
      BY <1>0, <1>2, <2>5, <2>7, <3>5, CallReturns
  <2>9. CASE mode = CommandMode
    <3>1. phase = "ready"
      BY <1>1, <2>1, <2>4, <2>9
      DEF HelloInStep, ImageTxPending, CommandMode, MemoryDebugMode
    <3>2. IdleInStep'
      BY <1>0, <2>6, <2>7, <2>9, <3>1
      DEF IdleInStep, SessionsIn, CommandMode, MemoryDebugMode
    <3> QED
      BY <1>0, <1>2, <2>5, <2>7, <3>2, CallReturns
  <2>10. CASE mode = MemoryDebugMode
    <3>1. phase = "memory"
      BY <1>1, <2>1, <2>4, <2>10
      DEF HelloInStep, ImageTxPending, CommandMode, MemoryDebugMode
    <3>2. IdleInStep'
      BY <1>0, <2>6, <2>7, <2>10, <3>1
      DEF IdleInStep, SessionsIn, CommandMode, MemoryDebugMode
    <3> QED
      BY <1>0, <1>2, <2>5, <2>7, <3>2, CallReturns
  <2> QED
    BY <1>5, <2>8, <2>9, <2>10 DEF HelloAccepted
<1> QED
  BY <1>4, <1>5

LEMMA ExecuteResponseInStep ==
  ASSUME StepAssumption, IInv, InStep, restarts = 0, HostStep,
         ExecuteResponse_Returns, executing' = executing, remaining' = remaining
  PROVE  InStep'
<1>0. /\ line = "open" /\ threw = NoThrow /\ pc \in Calls
      /\ OneWrite /\ ResultKept /\ CallInStep /\ TypeOK
      /\ UNCHANGED <<line, asked, restarts, phase, sess, command, ret>>
  BY Blocked DEF ExecuteResponse_Returns
<1>1. ExecuteInStep /\ rx \in Seq(Nat)
  BY <1>0 DEF CallInStep, ExecuteResponse_Returns, TypeOK
<1>2. ResultKept'
  BY <1>0, <1>1 DEF ResultKept, ExecuteInStep
<1>3. PICK k \in ReadLengths(4) : ExecuteResponse_Returns!3!(k)
  BY DEF ExecuteResponse_Returns
<1>4. CASE ~IsValidResponse(ExecuteResponse, TakeWords(k))
  <2>1. Throws /\ UNCHANGED toDevice
    BY <1>3, <1>4
  <2> QED
    BY <1>0, <1>2, <2>1, CallEnds
<1>5. CASE IsValidResponse(ExecuteResponse, TakeWords(k))
  <2>1. ~Sent(Packet(Execute, command))
    BY <1>5, ReadsNothing, NotValid DEF Sent
  <2>2. Len(rx) = 4 /\ toDevice = <<>>
    BY <1>1, <2>1, AnswerLengths DEF ExecuteInStep, Answered, Refused
  <2>3. TakeWords(k) = rx /\ rx' = <<>>
    BY <1>1, <1>3, <2>2, ReadsToTheEnd DEF StepAssumption
  <2>4. ~Refused
    BY <1>5, <2>3, NotValid DEF Refused, Answered
  <2>5. /\ Answered(ExecutePacket(command, remaining))
        /\ phase = "exec" /\ executing = command /\ remaining > 0
    BY <1>1, <2>1, <2>4 DEF ExecuteInStep
  <2>6. /\ dataSize' = Word(rx, 4) /\ Writes(Packet(ExecuteData, command))
        /\ Blocks("executeData")
    BY <1>3, <1>5, <2>3
  <2>7. dataSize' = 4 * remaining
    BY <2>5, <2>6 DEF Answered, ExecutePacket, Word
  <2>8. toDevice' = <<Packet(ExecuteData, command')>>
    BY <1>0, <2>2, <2>6, WritesOne
  <2>9. OneWrite'
    BY <1>0, <2>5, <2>8 DEF OneWrite
  <2>10. ExecuteDataInStep'
    <3>1. ret' = <<>> /\ rx' = <<>> /\ Len(<<>>) = 0 /\ remaining \in Nat
      BY <1>0, <1>1, <2>3 DEF ExecuteInStep, TypeOK
    <3>2. /\ 4 * Len(ret') < dataSize'
          /\ 4 * (Len(ret') + Len(rx') + remaining') = dataSize'
      BY <2>5, <2>7, <3>1
    <3>3. IsResult(ret)' /\ IsResult(rx)'
      BY <3>1 DEF IsResult
    <3>4. Sent(Packet(ExecuteData, command))' /\ phase' = "exec"
      BY <1>0, <2>5, <2>8, <3>1 DEF Sent
    <3> QED
      BY <1>0, <2>5, <3>2, <3>3, <3>4 DEF ExecuteDataInStep
  <2>11. CallInStep' /\ threw' = NoThrow /\ pc' # "idle"
    BY <1>0, <2>6, <2>10 DEF Blocks, CallInStep
  <2> QED
    BY <1>0, <1>2, <2>9, <2>11, CallBlocks
<1> QED
  BY <1>4, <1>5

(* Reading on a result keeps it one, whole or not. *)
LEMMA ResultGrows ==
  ASSUME ret \in Seq(Nat), rx \in Seq(Nat), NEW k \in 0 .. Len(rx),
         IsResult(ret), IsResult(rx)
  PROVE  /\ IsResult(ret \o TakeWords(k))
         /\ IsResult(RestWords(k))
         /\ Len(ret \o TakeWords(k)) = Len(ret) + k
         /\ Len(RestWords(k)) = Len(rx) - k
<1>1. /\ TakeWords(k) \in Seq(Nat) /\ Len(TakeWords(k)) = k
      /\ \A i \in 1 .. k : TakeWords(k)[i] = rx[i]
  <2>1. \A i \in 1 .. k : rx[i] \in Nat
    BY ElementOfSeq
  <2> QED
    BY <2>1, SubSeqProperties DEF TakeWords
<1>2. /\ RestWords(k) \in Seq(Nat) /\ Len(RestWords(k)) = Len(rx) - k
      /\ \A i \in 1 .. Len(rx) - k : RestWords(k)[i] = rx[i + k]
  <2>1. \A i \in k + 1 .. Len(rx) : rx[i] \in Nat
    BY ElementOfSeq
  <2> QED
    BY <2>1, SubSeqProperties, LenProperties DEF RestWords
<1>3. /\ \A i \in 1 .. Len(ret) : ret[i] = DataWord(command)
      /\ \A i \in 1 .. Len(rx) : rx[i] = DataWord(command)
  BY LenProperties DEF IsResult
<1>4. /\ ret \o TakeWords(k) \in Seq(Nat)
      /\ Len(ret \o TakeWords(k)) = Len(ret) + k
      /\ \A i \in 1 .. Len(ret) + k :
           (ret \o TakeWords(k))[i]
             = IF i <= Len(ret) THEN ret[i] ELSE TakeWords(k)[i - Len(ret)]
  <2>1. \A t \in Seq(Nat) :
          /\ ret \o t \in Seq(Nat)
          /\ Len(ret \o t) = Len(ret) + Len(t)
          /\ \A i \in 1 .. Len(ret) + Len(t) :
               (ret \o t)[i] = IF i <= Len(ret) THEN ret[i] ELSE t[i - Len(ret)]
    BY ConcatProperties
  <2> QED
    BY <1>1, <2>1
<1>5. ASSUME NEW i \in 1 .. Len(ret) + k
      PROVE  (ret \o TakeWords(k))[i] = DataWord(command)
  <2>1. CASE i <= Len(ret)
    BY <1>3, <1>4, <2>1
  <2>2. CASE ~(i <= Len(ret))
    <3>1. i - Len(ret) \in 1 .. k /\ i - Len(ret) \in 1 .. Len(rx)
      BY <2>2
    <3> QED
      BY <1>1, <1>3, <1>4, <2>2, <3>1
  <2> QED
    BY <2>1, <2>2
<1>6. ASSUME NEW i \in 1 .. Len(rx) - k
      PROVE  RestWords(k)[i] = DataWord(command)
  <2>1. i + k \in 1 .. Len(rx)
    OBVIOUS
  <2> QED
    BY <1>2, <1>3, <2>1
<1>7. IsResult(ret \o TakeWords(k))
  BY <1>4, <1>5, LenProperties DEF IsResult
<1>8. IsResult(RestWords(k))
  BY <1>2, <1>6, LenProperties DEF IsResult
<1> QED
  BY <1>2, <1>4, <1>7, <1>8

LEMMA ExecuteDataInStepKept ==
  ASSUME StepAssumption, IInv, InStep, restarts = 0, HostStep,
         ExecuteData_Returns, executing' = executing, remaining' = remaining
  PROVE  InStep'
<1>0. /\ line = "open" /\ threw = NoThrow /\ pc \in Calls
      /\ OneWrite /\ ResultKept /\ CallInStep /\ TypeOK
      /\ UNCHANGED <<line, toDevice, asked, restarts, phase, command, dataSize>>
  BY Blocked DEF ExecuteData_Returns
<1>1. ExecuteDataInStep /\ rx \in Seq(Nat) /\ ret \in Seq(Nat) /\ remaining \in Nat
  BY <1>0 DEF CallInStep, ExecuteData_Returns, TypeOK
<1>2. PICK k \in ReadLengths(MaxPacketWords) : ExecuteData_Returns!3!(k)
  BY DEF ExecuteData_Returns
<1>3. k \in 0 .. Len(rx)
  BY <1>1, ReadTyped DEF MaxPacketWords
<1>4. CASE k = 0
  <2>1. Throws /\ ret' = <<>> /\ UNCHANGED <<rx, sess>>
    BY <1>2, <1>4
  <2>2. ResultKept'
    BY <2>1 DEF ResultKept
  <2> QED
    BY <1>0, <2>1, <2>2, CallEnds
<1>5. CASE k > 0
  <2> DEFINE all == ret \o TakeWords(k)
  <2>1. /\ IsResult(all) /\ IsResult(RestWords(k))
        /\ Len(all) = Len(ret) + k /\ Len(RestWords(k)) = Len(rx) - k
    BY <1>1, <1>3, ResultGrows DEF ExecuteDataInStep
  <2>2. ret' = all
    BY <1>2, <1>5
  <2>3. toDevice = <<>> /\ phase = IF remaining = 0 THEN "ready" ELSE "data"
    <3>1. rx # <<>>
      BY <1>3, <1>5
    <3> QED
      BY <1>1, <3>1 DEF ExecuteDataInStep, Sent
  <2>4. OneWrite'
    BY <1>0, <2>3, NoWriteUnderWay
  <2>5. dataSize = 4 * (Len(ret) + Len(rx) + remaining) /\ executing = command
    BY <1>1 DEF ExecuteDataInStep
  <2>6. CASE Incomplete(all)
    <3>1. rx' = RestWords(k) /\ UNCHANGED <<pc, threw, sess>>
      BY <1>2, <1>5, <2>5, <2>6, <1>1, <1>3, <2>1 DEF Incomplete
    <3>2. 4 * Len(ret') < dataSize'
      BY <1>0, <2>2, <2>6 DEF Incomplete
    <3>3. 4 * (Len(ret') + Len(rx') + remaining') = dataSize'
      <4>1. Len(ret') = Len(ret) + k /\ Len(rx') = Len(rx) - k
        BY <2>1, <2>2, <3>1
      <4>2. Len(ret) \in Nat /\ Len(rx) \in Nat /\ k \in Nat
        BY <1>1, <1>3
      <4>3. Len(ret') + Len(rx') = Len(ret) + Len(rx)
        BY <4>1, <4>2
      <4> QED
        BY <1>0, <2>5, <4>3
    <3>4. IsResult(ret)' /\ IsResult(rx)'
      BY <1>0, <2>1, <2>2, <3>1 DEF IsResult, DataWord
    <3>5. ExecuteDataInStep'
      BY <1>0, <2>3, <2>5, <3>2, <3>3, <3>4 DEF ExecuteDataInStep
    <3>6. CallInStep' /\ ResultKept' /\ pc' # "idle" /\ threw' = NoThrow
      BY <1>0, <3>1, <3>5 DEF CallInStep, ResultKept, ExecuteData_Returns
    <3> QED
      BY <1>0, <2>4, <3>1, <3>6, CallBlocks
  <2>7. CASE ~Incomplete(all)
    <3>1. rx' = Flushed(RestWords(k)) /\ ReturnsTo("command")
      BY <1>2, <1>5, <2>7, <2>1, <1>1, <1>3 DEF Incomplete
    <3>2. Len(rx) = k /\ remaining = 0
      BY <1>1, <1>3, <2>1, <2>5, <2>7 DEF Incomplete
    <3>3. RestWords(k) = <<>>
      BY <1>1, <3>2, SubSeqEmpty DEF RestWords
    <3>4. Quiet' /\ phase' = "ready"
      BY <1>0, <2>3, <3>1, <3>2, <3>3 DEF Quiet, Flushed
    <3>5. IdleInStep' /\ pc' = "idle" /\ sess' # "over"
      BY <3>1, <3>4 DEF ReturnsTo, IdleInStep
    <3>6. IsResult(ret)' /\ 4 * Len(ret') = dataSize'
      <4>1. IsResult(ret)'
        BY <1>0, <2>1, <2>2 DEF IsResult, DataWord
      <4>2. Len(ret') = Len(ret) + k /\ Len(ret) \in Nat /\ k \in Nat
        BY <1>1, <1>3, <2>1, <2>2
      <4>3. dataSize' = 4 * (Len(ret) + k)
        BY <1>0, <2>5, <3>2, <4>2
      <4> QED
        BY <4>1, <4>2, <4>3
    <3>7. ResultKept'
      BY <3>6 DEF ResultKept
    <3> QED
      BY <1>0, <2>4, <3>5, <3>7, CallReturns
  <2> QED
    BY <2>6, <2>7
<1> QED
  BY <1>3, <1>4, <1>5

LEMMA ReadNextInStep ==
  ASSUME StepAssumption, IInv, InStep, restarts = 0, HostStep,
         ReadNextImageOffset_Returns
  PROVE  InStep'
<1>0. /\ line = "open" /\ threw = NoThrow /\ pc \in Calls
      /\ OneWrite /\ ResultKept /\ CallInStep /\ TypeOK
      /\ UNCHANGED <<line, toDevice, asked, restarts, phase>>
  BY Blocked DEF ReadNextImageOffset_Returns
<1>1. rx = <<>>
  BY <1>0 DEF CallInStep, ReadNextImageOffset_Returns, HoldsRequest, Quiet
<1>2. ResultKept'
  BY ResultUntouched DEF ReadNextImageOffset_Returns
<1>3. PICK k \in ReadLengths(5) : ReadNextImageOffset_Returns!3!(k)
  BY DEF ReadNextImageOffset_Returns
<1>4. ~IsValidResponse(ReadData, TakeWords(k))
  BY <1>1, ReadsNothing, NotValid
<1>5. Throws /\ UNCHANGED sess
  BY <1>3, <1>4
<1> QED
  BY <1>0, <1>2, <1>5, CallEnds

LEMMA SendImageTurnInStep ==
  ASSUME StepAssumption, IInv, InStep, restarts = 0, HostStep, SendImage_Turn
  PROVE  InStep'
<1>0. /\ line = "open" /\ threw = NoThrow /\ pc \in Calls
      /\ OneWrite /\ ResultKept /\ CallInStep /\ TypeOK
      /\ AsksForSomething /\ Quiet /\ phase = "tx"
      /\ nextOffset = asked /\ nextOffset.imageId = initialImage
      /\ UNCHANGED <<line, asked, restarts, phase, rx, nextOffset, initialImage>>
  BY Blocked DEF SendImage_Turn, InStep, CallInStep, imageVars
<1>1. ResultKept'
  BY ResultUntouched DEF SendImage_Turn
<1>2. nextOffset.size > 0
  BY <1>0, WantedAssumption DEF AsksForSomething
<1>3. CASE ReturnsTo("image") /\ UNCHANGED toDevice
  <2>1. HoldsRequest' /\ OneWrite'
    BY <1>0, <1>3, NoWriteUnderWay DEF HoldsRequest, Quiet
  <2>2. IdleInStep' /\ pc' = "idle" /\ sess' # "over"
    BY <1>3, <2>1 DEF ReturnsTo, IdleInStep, HoldsRequest
  <2> QED
    BY <1>0, <1>1, <2>1, <2>2, CallReturns
<1>4. CASE Throws /\ UNCHANGED <<toDevice, sess>>
  BY <1>0, <1>1, <1>4, CallEnds
<1>5. CASE /\ Writes(FileData(initialImage, nextOffset.offset, nextOffset.size))
           /\ Blocks("nextImageOffset")
           /\ UNCHANGED sess
  <2>1. toDevice' = <<FileData(initialImage, nextOffset.offset, nextOffset.size)>>
    BY <1>0, <1>5, WritesOne DEF Quiet
  <2>2. toDevice' = <<Part(asked')>>
    BY <1>0, <2>1 DEF Part
  <2>3. OneWrite'
    BY <2>2 DEF OneWrite
  <2>4. ImageInStep'
    BY <1>0, <2>2 DEF ImageInStep, Sent, Quiet
  <2>5. CallInStep' /\ pc' # "idle" /\ threw' = NoThrow
    BY <1>0, <1>5, <2>4 DEF Blocks, CallInStep
  <2> QED
    BY <1>0, <1>1, <1>5, <2>3, <2>5, CallBlocks
<1> QED
  BY <1>2, <1>3, <1>4, <1>5 DEF SendImage_Turn

LEMMA SendImageReturnsInStep ==
  ASSUME StepAssumption, IInv, InStep, restarts = 0, HostStep,
         SendImage_Returns
  PROVE  InStep'
<1>0. /\ line = "open" /\ threw = NoThrow /\ pc \in Calls
      /\ OneWrite /\ ResultKept /\ CallInStep /\ TypeOK /\ AsksForSomething
      /\ UNCHANGED <<line, toDevice, asked, restarts, phase, initialImage>>
  BY Blocked DEF SendImage_Returns, InStep
<1>1. ImageInStep /\ rx \in Seq(Nat) /\ asked \in Requests
  BY <1>0 DEF CallInStep, SendImage_Returns, TypeOK
<1>2. ResultKept'
  BY ResultUntouched DEF SendImage_Returns
<1>3. PICK k \in ReadLengths(5) : SendImage_Returns!3!(k)
  BY DEF SendImage_Returns
<1>4. CASE ~IsValidResponse(ReadData, TakeWords(k))
  <2>1. Throws /\ UNCHANGED sess
    BY <1>3, <1>4
  <2> QED
    BY <1>0, <1>2, <2>1, CallEnds
<1>5. CASE IsValidResponse(ReadData, TakeWords(k))
  <2>1. \/ Answered(ReadDataPacket(asked)) /\ phase = "tx"
        \/ /\ Answered(EndPacket(initialImage, StatusSuccess))
           /\ phase = "ended"
        \/ Refused
    BY <1>1, <1>5, ReadsNothing, NotValid DEF ImageInStep, Sent
  <2>2. Len(rx) <= 5 /\ toDevice = <<>>
    <3>1. (Len(rx) = 4 \/ Len(rx) = 5) /\ toDevice = <<>>
      BY <2>1, AnswerLengths DEF Answered, Refused
    <3>2. \A n \in Nat : n \in {4, 5} => n <= 5
      OBVIOUS
    <3>3. Len(rx) \in Nat
      BY <1>1
    <3> QED
      BY <3>1, <3>2, <3>3
  <2>3. TakeWords(k) = rx /\ rx' = <<>>
    BY <1>1, <1>3, <2>2, ReadsToTheEnd DEF StepAssumption
  <2>4. ~Refused
    BY <1>5, <2>3, NotValid DEF Refused, Answered
  <2>5. OneWrite' /\ Quiet'
    BY <1>0, <2>2, <2>3, NoWriteUnderWay DEF Quiet
  <2>6. nextOffset' = NextOffset(rx)
    BY <1>3, <1>5, <2>3
  <2>7. \/ phase = "tx" /\ nextOffset' = asked
        \/ phase = "ended" /\ AsksNothing(nextOffset')
                           /\ nextOffset'.imageId = initialImage
    BY <1>1, <2>1, <2>4, <2>6, RequestRead, EndRead DEF Answered
  <2>8. CASE EndsSendImage(nextOffset')
    <3>1. ReturnsTo("image")
      BY <1>3, <1>5, <2>8
    <3>2. HoldsRequest'
      BY <1>0, <2>5, <2>7 DEF HoldsRequest
    <3>3. IdleInStep' /\ pc' = "idle" /\ sess' # "over"
      BY <2>5, <3>1, <3>2 DEF ReturnsTo, IdleInStep
    <3> QED
      BY <1>0, <1>2, <2>5, <3>3, CallReturns
  <2>9. CASE ~EndsSendImage(nextOffset')
    <3>1. Blocks("sendImage") /\ UNCHANGED sess
      BY <1>3, <1>5, <2>9
    <3>2. phase = "tx" /\ nextOffset' = asked /\ nextOffset'.imageId = initialImage
      BY <2>7, <2>9 DEF EndsSendImage
    <3>3. CallInStep' /\ pc' # "idle" /\ threw' = NoThrow
      BY <1>0, <2>5, <3>1, <3>2 DEF Blocks, CallInStep
    <3> QED
      BY <1>0, <1>2, <2>5, <3>1, <3>3, CallBlocks
  <2> QED
    BY <2>8, <2>9
<1> QED
  BY <1>4, <1>5

LEMMA SendDoneInStep ==
  ASSUME StepAssumption, IInv, InStep, restarts = 0, HostStep,
         SendDone_Returns
  PROVE  InStep'
<1>0. /\ line = "open" /\ threw = NoThrow /\ pc \in Calls
      /\ OneWrite /\ ResultKept /\ CallInStep /\ TypeOK
      /\ UNCHANGED <<line, toDevice, asked, restarts, phase>>
  BY Blocked DEF SendDone_Returns
<1>1. DoneInStep /\ rx \in Seq(Nat)
  BY <1>0 DEF CallInStep, SendDone_Returns, TypeOK
<1>2. ResultKept'
  BY ResultUntouched DEF SendDone_Returns
<1>3. PICK k \in ReadLengths(3) : SendDone_Returns!3!(k)
  BY DEF SendDone_Returns
<1>4. CASE ~IsValidResponse(DoneResponse, TakeWords(k))
  <2>1. Throws /\ UNCHANGED sess
    BY <1>3, <1>4
  <2> QED
    BY <1>0, <1>2, <2>1, CallEnds
<1>5. CASE IsValidResponse(DoneResponse, TakeWords(k))
  <2>1. (Answered(DonePacket) /\ phase = "left") \/ Refused
    BY <1>1, <1>5, ReadsNothing, NotValid DEF DoneInStep, Sent
  <2>2. ~Refused
    <3> SUFFICES ASSUME Refused PROVE FALSE
      OBVIOUS
    <3>1. rx[1] = EndImageTransfer
      BY DEF Refused, Answered, EndPacket
    <3>2. Len(TakeWords(k)) = k /\ TakeWords(k) \in Seq(Nat) /\ k \in 0 .. Len(rx)
      BY <1>1, ReadTyped
    <3>3. k > 0
      BY <1>5, <3>2, EmptySeq DEF IsValidResponse
    <3>4. TakeWords(k)[1] = rx[1]
      BY <1>1, <3>2, <3>3 DEF TakeWords
    <3>5. Word(TakeWords(k), 1) = EndImageTransfer
      BY <3>1, <3>2, <3>3, <3>4 DEF Word
    <3> QED
      BY <1>5, <3>5
      DEF IsValidResponse, DoneResponse, EndImageTransfer, ReadData
  <2>3. Len(rx) = 3 /\ toDevice = <<>> /\ phase = "left"
    BY <2>1, <2>2, AnswerLengths DEF Answered
  <2>4. rx' = <<>>
    BY <1>1, <1>3, <2>3, ReadsToTheEnd DEF StepAssumption
  <2>5. ReturnsTo("over")
    BY <1>3, <1>5
  <2>6. OneWrite' /\ Quiet'
    BY <1>0, <2>3, <2>4, NoWriteUnderWay DEF Quiet
  <2>7. IdleInStep' /\ pc' = "idle"
    BY <2>5, <2>6 DEF ReturnsTo, IdleInStep
  <2> QED
    BY <1>0, <1>2, <2>3, <2>6, <2>7, CallReturns
<1> QED
  BY <1>4, <1>5

LEMMA SendResetInStep ==
  ASSUME StepAssumption, IInv, InStep, restarts = 0, HostStep,
         SendReset_Returns
  PROVE  InStep'
<1>0. /\ line = "open" /\ threw = NoThrow /\ pc \in Calls
      /\ OneWrite /\ ResultKept /\ AsksForSomething /\ TypeOK
      /\ UNCHANGED <<toDevice, asked, restarts, phase>>
  BY Blocked DEF SendReset_Returns, InStep
<1>1. ResultKept'
  BY ResultUntouched DEF SendReset_Returns
<1>2. PICK k \in ReadLengths(2) : SendReset_Returns!3!(k)
  BY DEF SendReset_Returns
<1>3. CASE PortCloses
  <2>1. PortInUse' /\ CallInStep' /\ ~Running' /\ sess' # "over"
    BY <1>3 DEF PortCloses, PortInUse, CallInStep, Running
  <2>2. OneWrite' /\ AsksForSomething'
    BY <1>0 DEF OneWrite, AsksForSomething, Part, FileData
  <2> QED
    BY <1>1, <2>1, <2>2 DEF InStep
<1>4. CASE Throws /\ UNCHANGED <<line, sess>>
  BY <1>0, <1>1, <1>4, CallEnds
<1> QED
  BY <1>2, <1>3, <1>4

LEMMA HostStepInStep ==
  ASSUME StepAssumption, IInv, InStep, restarts = 0, HostStep
  PROVE  InStep'
<1>1. line = "open" /\ executing' = executing /\ remaining' = remaining
  BY Blocked DEF HostStep, deviceVars, executeVars
<1>2. ~PortFails /\ ~SendReset_PortFails
  BY <1>1 DEF PortFails, SendReset_PortFails
<1> QED
  BY <1>1, <1>2, ReadHelloInStep, SendHelloInStep, ExecuteResponseInStep,
     ExecuteDataInStepKept, ReadNextInStep, SendImageTurnInStep,
     SendImageReturnsInStep, SendDoneInStep, SendResetInStep DEF HostStep

----------------------------------------------------------------------------
(* The steps of the device. *)

(* The device acts on what the call that blocks has written to it, or while *)
(* nobody knows what it is doing. *)
LEMMA Awaited ==
  ASSUME StepAssumption, IInv, InStep, restarts = 0, DeviceStep
  PROVE  /\ TypeOK /\ OneWrite /\ AsksForSomething
         /\ pc # "idle" => line = "open"
         /\ Running => sess = "none" /\ HelloIsLatest
         /\ pc \in {"readHello", "switchReadHello"} => HelloIsLatest
         /\ pc \notin {"sendImage", "readNextImageOffset"}
         /\ pc = "sendHello" =>
              Sent(Packet(HelloResponse, mode)) /\ phase = "hello"
         /\ pc = "executeResponse" =>
              /\ ret = <<>>
              /\ Sent(Packet(Execute, command)) /\ phase = "ready"
         /\ pc = "executeData" =>
              /\ ExecuteDataInStep
              /\ \/ Sent(Packet(ExecuteData, command)) /\ phase = "exec"
                 \/ toDevice = <<>> /\ phase = "data"
         /\ pc = "nextImageOffset" =>
              /\ Sent(Part(asked)) /\ asked.imageId = initialImage
              /\ phase = "tx"
         /\ pc = "sendDone" => Sent(Packet(Done, 0)) /\ phase = "ended"
         /\ sess = "over" => phase = "left"
         /\ UNCHANGED <<line, restarts, hostVars>>
<1>1. /\ PortInUse /\ OneWrite /\ AsksForSomething /\ TypeOK
      /\ sess = "over" => phase = "left"
      /\ Running => IdleInStep
      /\ CallInStep
  BY DEF InStep, IInv
<1>2. toDevice # <<>> \/ phase = "boot" \/ phase = "data"
  BY DEF DeviceStep, DeviceGreets, TakesHelloResponse, TakesImageData,
         TakesDone, TakesExecute, TakesExecuteData, SendsResult,
         TakesSwitchMode, TakesReset, Refuses, TakesUnexpected, Ignores, Takes
<1>3. phase = "left" => toDevice # <<>>
  BY <1>2
<1>4. Running => sess = "none" /\ HelloIsLatest
  <2>1. Running => \/ sess = "none"
                   \/ Quiet /\ phase \in {"hello", "tx", "ended", "ready",
                                         "memory", "left"}
    BY <1>1 DEF IdleInStep, HoldsRequest, TypeOK, Sessions
  <2> QED
    BY <1>1, <1>2, <2>1 DEF IdleInStep, Quiet
<1>5. pc \notin {"sendImage", "readNextImageOffset"}
  BY <1>1, <1>2 DEF CallInStep, HoldsRequest, Quiet
<1>6. ~Refused
  BY <1>2 DEF Refused, Answered
<1>7. pc = "sendHello" => Sent(Packet(HelloResponse, mode)) /\ phase = "hello"
  BY <1>1, <1>2, <1>6 DEF CallInStep, HelloInStep, Answered
<1>8. pc = "executeResponse" =>
        ret = <<>> /\ Sent(Packet(Execute, command)) /\ phase = "ready"
  BY <1>1, <1>2, <1>6 DEF CallInStep, ExecuteInStep, Answered
<1>9. pc = "executeData" =>
        /\ ExecuteDataInStep
        /\ \/ Sent(Packet(ExecuteData, command)) /\ phase = "exec"
           \/ toDevice = <<>> /\ phase = "data"
  BY <1>1, <1>2 DEF CallInStep, ExecuteDataInStep
<1>10. pc = "nextImageOffset" =>
         Sent(Part(asked)) /\ asked.imageId = initialImage /\ phase = "tx"
  BY <1>1, <1>2, <1>6 DEF CallInStep, ImageInStep, Answered
<1>11. pc = "sendDone" => Sent(Packet(Done, 0)) /\ phase = "ended"
  BY <1>1, <1>2, <1>6 DEF CallInStep, DoneInStep, Answered
<1>12. UNCHANGED <<line, restarts, hostVars>>
  BY DEF DeviceStep, DeviceGreets, TakesHelloResponse, TakesImageData,
         TakesDone, TakesExecute, TakesExecuteData, SendsResult,
         TakesSwitchMode, TakesReset, Refuses, TakesUnexpected, Ignores, Takes,
         deviceVars
<1>13. pc # "idle" => line = "open"
  BY <1>1 DEF PortInUse
<1>14. pc \in {"readHello", "switchReadHello"} => HelloIsLatest
  BY <1>1 DEF CallInStep
<1> QED
  BY <1>1, <1>4, <1>5, <1>7, <1>8, <1>9, <1>10, <1>11, <1>12, <1>13, <1>14

(* What a step of the device has to show. *)
LEMMA DeviceKeeps ==
  ASSUME StepAssumption, IInv, InStep, restarts = 0, DeviceStep,
         OneWrite', AsksForSomething', HelloIsLatest => HelloIsLatest',
         sess = "over" => phase' = "left", CallInStep'
  PROVE  InStep'
<1>1. UNCHANGED <<line, restarts, hostVars>>
  BY Awaited
<1>2. PortInUse /\ ResultKept
  BY DEF InStep
<1>3. PortInUse' /\ ResultKept'
  BY <1>1, <1>2
  DEF PortInUse, ResultKept, IsResult, DataWord, hostVars, commandVars
<1>4. Running' => IdleInStep'
  <2>1. Running' => Running
    BY <1>1 DEF Running, hostVars
  <2>2. Running => sess = "none" /\ HelloIsLatest
    BY Awaited
  <2> QED
    BY <1>1, <2>1, <2>2 DEF IdleInStep, hostVars
<1> QED
  BY <1>1, <1>3, <1>4 DEF InStep, hostVars

LEMMA TakesLast ==
  ASSUME TypeOK, OneWrite, Takes
  PROVE  toDevice' = <<>> /\ toDevice = <<Taken>> /\ OneWrite'
<1>1. toDevice \in Seq(Packets \cup Data) /\ toDevice # <<>> /\ Len(toDevice) <= 1
  BY DEF TypeOK, OneWrite, Takes
<1>2. Len(toDevice) = 1
  <2>1. Len(toDevice) \in Nat /\ Len(toDevice) # 0
    BY <1>1, EmptySeq
  <2>2. \A n \in Nat : n # 0 /\ n <= 1 => n = 1
    OBVIOUS
  <2> QED
    BY <1>1, <2>1, <2>2
<1>3. toDevice = <<Taken>>
  <2>1. Taken \in Packets \cup Data /\ toDevice[1] = Taken
    BY <1>1, TakesTyped DEF Taken, TypeOK
  <2>2. /\ <<Taken>> \in Seq(Packets \cup Data) /\ Len(<<Taken>>) = 1
        /\ <<Taken>>[1] = Taken
    BY <2>1
  <2>3. \A i \in 1 .. Len(toDevice) : toDevice[i] = <<Taken>>[i]
    BY <1>2, <2>1, <2>2
  <2> HIDE DEF Taken
  <2> QED
    BY <1>1, <1>2, <2>2, <2>3, SeqEqual
<1>4. toDevice' = <<>>
  BY <1>1, <1>2, HeadTailProperties, EmptySeq DEF Takes
<1> QED
  BY <1>3, <1>4, NoWriteUnderWay

(* What it says is all that can be read where nothing else was. *)
LEMMA SaysAlone ==
  ASSUME rx = <<>>, line = "open", NEW words \in Seq(Nat), Says(words)
  PROVE  rx' = words
BY ConcatProperties DEF Says

(* No other packet is taken for a hello, and the hello is read alone. *)
LEMMA HelloFirst ==
  ASSUME TypeOK, HelloIsLatest, toDevice # <<>> \/ phase # "hello"
  PROVE  rx = <<>> \/ rx[1] # Hello
BY DEF HelloIsLatest, Answered

LEMMA SaysOther ==
  ASSUME TypeOK, HelloIsLatest => rx = <<>> \/ rx[1] # Hello,
         NEW words \in Seq(Nat), words # <<>>, words[1] # Hello, Says(words)
  PROVE  HelloIsLatest => HelloIsLatest'
<1> SUFFICES ASSUME HelloIsLatest PROVE rx' = <<>> \/ rx'[1] # Hello
  BY DEF HelloIsLatest
<1>1. CASE rx' = rx
  BY <1>1
<1>2. CASE rx' = rx \o words
  <2>1. rx \in Seq(Nat) /\ Len(words) > 0
    BY EmptySeq DEF TypeOK
  <2>2. CASE rx = <<>>
    BY <1>2, <2>2, ConcatEmptySeq
  <2>3. CASE rx # <<>>
    <3>1. Len(rx) > 0
      BY <2>1, <2>3, EmptySeq
    <3>2. (rx \o words)[1] = rx[1]
      BY <2>1, <3>1, ConcatProperties
    <3> QED
      BY <1>2, <2>3, <3>2
  <2> QED
    BY <2>2, <2>3
<1> QED
  BY <1>1, <1>2 DEF Says

LEMMA SaysHello ==
  ASSUME TypeOK, HelloIsLatest => rx = <<>> \/ rx[1] # Hello,
         NEW m \in Nat, Says(HelloPacket(m)), toDevice' = <<>>, phase' = "hello"
  PROVE  HelloIsLatest => HelloIsLatest'
<1> SUFFICES ASSUME HelloIsLatest PROVE HelloIsLatest'
  OBVIOUS
<1>0. HelloPacket(m) \in Seq(Nat) /\ rx \in Seq(Nat)
  BY FixedPacketsTyped DEF TypeOK
<1>1. CASE rx' = <<>> \/ rx'[1] # Hello
  BY <1>1 DEF HelloIsLatest
<1>2. CASE rx = <<>> /\ rx' = rx \o HelloPacket(m)
  <2>1. rx' = HelloPacket(m)
    BY <1>0, <1>2, ConcatEmptySeq
  <2> QED
    BY <2>1 DEF HelloIsLatest, Answered, HelloPacket
<1>3. CASE rx # <<>> /\ rx' = rx \o HelloPacket(m)
  <2>1. rx'[1] = rx[1]
    BY <1>0, <1>3, ConcatProperties, EmptySeq
  <2> QED
    BY <1>1, <1>3, <2>1
<1> QED
  BY <1>1, <1>2, <1>3 DEF Says

(* The packets that are no hello. *)
LEMMA OtherPackets ==
  /\ \A r : ReadDataPacket(r) # <<>> /\ ReadDataPacket(r)[1] # Hello
  /\ \A image, status : /\ EndPacket(image, status) # <<>>
                        /\ EndPacket(image, status)[1] # Hello
  /\ \A cmd, words : /\ ExecutePacket(cmd, words) # <<>>
                     /\ ExecutePacket(cmd, words)[1] # Hello
  /\ DonePacket # <<>> /\ DonePacket[1] # Hello
  /\ ResetPacket # <<>> /\ ResetPacket[1] # Hello
  /\ ReadyPacket # <<>> /\ ReadyPacket[1] # Hello
  /\ MemoryDebugPacket # <<>> /\ MemoryDebugPacket[1] # Hello
  /\ \A cmd \in Nat, words \in Nat \ {0} :
       Result(cmd, words) # <<>> /\ Result(cmd, words)[1] # Hello
<1> USE DEF Hello
<1>1. \A r : ReadDataPacket(r) # <<>> /\ ReadDataPacket(r)[1] # Hello
  BY DEF ReadDataPacket, ReadData
<1>2. \A image, status : /\ EndPacket(image, status) # <<>>
                        /\ EndPacket(image, status)[1] # Hello
  BY DEF EndPacket, EndImageTransfer
<1>3. \A cmd, words : /\ ExecutePacket(cmd, words) # <<>>
                     /\ ExecutePacket(cmd, words)[1] # Hello
  BY DEF ExecutePacket, ExecuteResponse
<1>4. /\ DonePacket # <<>> /\ DonePacket[1] # Hello
      /\ ResetPacket # <<>> /\ ResetPacket[1] # Hello
      /\ ReadyPacket # <<>> /\ ReadyPacket[1] # Hello
      /\ MemoryDebugPacket # <<>> /\ MemoryDebugPacket[1] # Hello
  BY DEF DonePacket, DoneResponse, ResetPacket, ResetResponse, ReadyPacket,
         Ready, MemoryDebugPacket, MemoryDebug
<1>5. ASSUME NEW cmd \in Nat, NEW words \in Nat \ {0}
      PROVE  Result(cmd, words) # <<>> /\ Result(cmd, words)[1] # Hello
  <2>1. 1 \in 1 .. words
    OBVIOUS
  <2>2. 1 \in DOMAIN Result(cmd, words) /\ Result(cmd, words)[1] = 100 + cmd
    BY <2>1 DEF Result, DataWord
  <2> QED
    BY <2>2
<1> QED
  BY <1>1, <1>2, <1>3, <1>4, <1>5

LEMMA RefusesInStep ==
  ASSUME StepAssumption, IInv, InStep, restarts = 0, DeviceStep, Takes,
         RefusesWith(asked.imageId, phase'), phase' \in {"halt", "ready"},
         UNCHANGED deviceVars, phase \notin {"tx", "left"},
         pc = "executeData" => phase # "exec"
  PROVE  InStep'
<1>0. TypeOK /\ OneWrite
  BY Awaited
<1> DEFINE refusal == EndPacket(asked.imageId, StatusError)
<1>1. toDevice' = <<>> /\ toDevice = <<Taken>> /\ OneWrite'
  BY <1>0, TakesLast
<1>2. refusal \in Seq(Nat) /\ refusal # <<>> /\ refusal[1] # Hello
  BY <1>0, FixedPacketsTyped, OtherPackets
  DEF TypeOK, Requests, StatusError
<1>3. Says(refusal)
  BY DEF RefusesWith
<1>4. HelloIsLatest => HelloIsLatest'
  BY <1>0, <1>1, <1>2, <1>3, HelloFirst, SaysOther
<1>5. rx = <<>> /\ line = "open" => Refused'
  <2> SUFFICES ASSUME rx = <<>>, line = "open" PROVE Refused'
    OBVIOUS
  <2>1. rx' = refusal
    BY <1>2, <1>3, SaysAlone
  <2>2. Len(rx') = 4 /\ rx' = EndPacket(rx'[3], StatusError)
    BY <2>1, AnswerLengths DEF EndPacket
  <2> QED
    BY <1>1, <2>2 DEF Refused, Answered
<1>6. CallInStep'
  <2>1. UNCHANGED <<line, restarts, hostVars>>
    BY Awaited
  <2>2. pc' \in {"readHello", "switchReadHello"} => HelloIsLatest'
    BY <1>4, <2>1, Awaited DEF hostVars
  <2>3. pc = "executeData" => FALSE
    BY <1>1, Awaited
  <2>4. pc \in {"sendHello", "executeResponse", "nextImageOffset", "sendDone"}
          => rx = <<>> /\ line = "open"
    BY Awaited DEF Sent
  <2>5. pc' \notin {"sendImage", "readNextImageOffset", "executeData"}
    BY <2>1, <2>3, Awaited DEF hostVars
  <2>6. pc = "executeResponse" => ret = <<>>
    BY Awaited
  <2>7. pc' = "sendHello" => HelloInStep'
    BY <1>5, <2>1, <2>4 DEF hostVars, HelloInStep
  <2>8. pc' = "executeResponse" => ExecuteInStep'
    BY <1>5, <2>1, <2>4, <2>6 DEF hostVars, commandVars, ExecuteInStep
  <2>9. pc' = "nextImageOffset" => ImageInStep'
    BY <1>5, <2>1, <2>4 DEF hostVars, ImageInStep
  <2>10. pc' = "sendDone" => DoneInStep'
    BY <1>5, <2>1, <2>4 DEF hostVars, DoneInStep
  <2> QED
    BY <2>2, <2>5, <2>7, <2>8, <2>9, <2>10 DEF CallInStep
<1>7. AsksForSomething'
  BY DEF AsksForSomething
<1>8. sess # "over"
  BY Awaited
<1> QED
  BY <1>1, <1>4, <1>6, <1>7, <1>8, DeviceKeeps

LEMMA GreetsInStep ==
  ASSUME StepAssumption, IInv, InStep, restarts = 0, DeviceStep, DeviceGreets
  PROVE  InStep'
<1>1. TypeOK /\ phase = "boot" /\ phase' = "hello" /\ toDevice' = <<>>
  BY DEF DeviceGreets, IInv
<1>2. PICK m \in BootModes : Says(HelloPacket(m))
  BY DEF DeviceGreets
<1>3. m \in Nat
  BY BootModesAssumption, CommandsTyped
<1>4. HelloIsLatest => HelloIsLatest'
  BY <1>1, <1>2, <1>3, HelloFirst, SaysHello
<1>5. CallInStep'
  <2>1. UNCHANGED hostVars
    BY Awaited
  <2>2. pc \notin {"sendHello", "executeResponse", "executeData", "sendImage",
                   "nextImageOffset", "readNextImageOffset", "sendDone"}
    BY <1>1, Awaited
  <2> QED
    BY <1>4, <2>1, <2>2, Awaited DEF CallInStep, hostVars
<1>6. OneWrite' /\ AsksForSomething' /\ sess # "over"
  BY <1>1, NoWriteUnderWay, Awaited DEF AsksForSomething
<1> QED
  BY <1>4, <1>5, <1>6, DeviceKeeps

LEMMA HelloResponseInStep ==
  ASSUME StepAssumption, IInv, InStep, restarts = 0, DeviceStep,
         TakesHelloResponse
  PROVE  InStep'
<1>0. TypeOK /\ phase = "hello" /\ Takes /\ OneWrite
  BY Awaited DEF TakesHelloResponse
<1>1. toDevice' = <<>> /\ toDevice = <<Taken>> /\ OneWrite'
  BY <1>0, TakesLast
<1>2. /\ UNCHANGED <<line, hostVars>> /\ mode' = mode
      /\ pc = "sendHello" => rx = <<>> /\ line = "open"
                             /\ Taken = Packet(HelloResponse, mode)
  <2>1. UNCHANGED <<line, hostVars>>
    BY Awaited
  <2>2. pc = "sendHello" => Sent(Packet(HelloResponse, mode)) /\ line = "open"
    BY Awaited
  <2> QED
    BY <1>1, <2>1, <2>2 DEF Sent, hostVars
<1>3. \/ /\ Taken = Packet(HelloResponse, ImageTxPending)
         /\ asked' \in Wanted /\ phase' = "tx" /\ Says(ReadDataPacket(asked'))
      \/ /\ Taken = Packet(HelloResponse, CommandMode)
         /\ phase' = "ready" /\ Says(ReadyPacket)
      \/ /\ Taken = Packet(HelloResponse, MemoryDebugMode)
         /\ phase' = "memory" /\ Says(MemoryDebugPacket)
  BY DEF TakesHelloResponse, AsksFor
<1>4. PICK words \in Seq(Nat) :
        /\ words # <<>> /\ words[1] # Hello /\ Says(words)
        /\ \/ /\ Taken = Packet(HelloResponse, ImageTxPending)
              /\ asked' \in Wanted /\ phase' = "tx"
              /\ words = ReadDataPacket(asked')
           \/ /\ Taken = Packet(HelloResponse, CommandMode)
              /\ phase' = "ready" /\ words = ReadyPacket
           \/ /\ Taken = Packet(HelloResponse, MemoryDebugMode)
              /\ phase' = "memory" /\ words = MemoryDebugPacket
  <2>1. asked' \in Wanted => ReadDataPacket(asked') \in Seq(Nat)
    BY WantedTyped, FixedPacketsTyped
  <2> QED
    BY <1>3, <2>1, FixedPacketsTyped, OtherPackets
<1>5. HelloIsLatest => HelloIsLatest'
  BY <1>0, <1>1, <1>4, HelloFirst, SaysOther
<1>6. pc = "sendHello" => HelloInStep'
  <2> SUFFICES ASSUME pc = "sendHello" PROVE HelloInStep'
    OBVIOUS
  <2>1. rx' = words
    BY <1>2, <1>4, SaysAlone
  <2>2. \A m, n : Packet(HelloResponse, m) = Packet(HelloResponse, n) => m = n
    BY DEF Packet
  <2> QED
    BY <1>1, <1>2, <1>4, <2>1, <2>2 DEF HelloInStep, Answered
<1>7. CallInStep'
  <2>1. pc \notin {"executeResponse", "executeData", "sendImage",
                   "nextImageOffset", "readNextImageOffset", "sendDone"}
    BY <1>0, Awaited
  <2> QED
    BY <1>2, <1>5, <1>6, <2>1, Awaited DEF CallInStep, hostVars
<1>8. AsksForSomething' /\ sess # "over"
  BY <1>0, <1>4, Awaited DEF AsksForSomething
<1> QED
  BY <1>1, <1>5, <1>7, <1>8, DeviceKeeps

LEMMA ImageDataInStep ==
  ASSUME StepAssumption, IInv, InStep, restarts = 0, DeviceStep,
         TakesImageData
  PROVE  InStep'
<1>0. TypeOK /\ phase = "tx" /\ Takes /\ OneWrite /\ AsksForSomething
  BY Awaited DEF TakesImageData
<1>1. toDevice' = <<>> /\ toDevice = <<Taken>> /\ OneWrite'
  BY <1>0, TakesLast
<1>2. /\ UNCHANGED <<line, hostVars, initialImage>>
      /\ pc = "nextImageOffset" => /\ rx = <<>> /\ line = "open"
                                   /\ Taken = Part(asked)
                                   /\ asked.imageId = initialImage
  <2>1. UNCHANGED <<line, hostVars>>
    BY Awaited
  <2>2. pc = "nextImageOffset" =>
          Sent(Part(asked)) /\ line = "open" /\ asked.imageId = initialImage
    BY Awaited
  <2> QED
    BY <1>1, <2>1, <2>2 DEF Sent, hostVars, imageVars
<1>3. \/ /\ asked' \in Wanted /\ phase' = "tx" /\ Says(ReadDataPacket(asked'))
      \/ /\ phase' = "ended"
         /\ Says(EndPacket(asked.imageId, StatusSuccess))
      \/ /\ phase' = "halt"
         /\ Says(EndPacket(asked.imageId, StatusError))
      \/ /\ ~(Taken.kind = "data" /\ Taken.size = asked.size)
         /\ UNCHANGED <<rx, phase, asked>>
  BY DEF TakesImageData, AsksFor, RefusesWith
<1>4. CASE UNCHANGED <<rx, phase, asked>>
           /\ ~(Taken.kind = "data" /\ Taken.size = asked.size)
  <2>1. HelloIsLatest => HelloIsLatest'
    BY <1>0, <1>4 DEF HelloIsLatest
  <2>2. pc # "nextImageOffset"
    BY <1>2, <1>4 DEF Part, FileData
  <2>3. pc \notin {"executeResponse", "executeData", "sendImage", "sendHello",
                   "nextImageOffset", "readNextImageOffset", "sendDone"}
    BY <1>0, <2>2, Awaited
  <2>4. CallInStep'
    BY <1>2, <2>1, <2>3, Awaited DEF CallInStep, hostVars
  <2>5. AsksForSomething' /\ sess # "over"
    BY <1>0, <1>4, Awaited DEF AsksForSomething
  <2> QED
    BY <1>1, <2>1, <2>4, <2>5, DeviceKeeps
<1>5. CASE \/ /\ asked' \in Wanted /\ phase' = "tx"
              /\ Says(ReadDataPacket(asked'))
           \/ /\ phase' = "ended"
              /\ Says(EndPacket(asked.imageId, StatusSuccess))
           \/ /\ phase' = "halt"
              /\ Says(EndPacket(asked.imageId, StatusError))
  <2>1. PICK words \in Seq(Nat) :
          /\ words # <<>> /\ words[1] # Hello /\ Says(words)
          /\ \/ /\ asked' \in Wanted /\ phase' = "tx"
                /\ words = ReadDataPacket(asked')
             \/ /\ phase' = "ended"
                /\ words = EndPacket(asked.imageId, StatusSuccess)
             \/ /\ phase' = "halt"
                /\ words = EndPacket(asked.imageId, StatusError)
    <3>1. asked' \in Wanted => ReadDataPacket(asked') \in Seq(Nat)
      BY WantedTyped, FixedPacketsTyped
    <3>2. \A status \in Nat : EndPacket(asked.imageId, status) \in Seq(Nat)
      BY <1>0, FixedPacketsTyped DEF TypeOK, Requests
    <3> QED
      BY <1>5, <3>1, <3>2, OtherPackets DEF StatusSuccess, StatusError
  <2>2. HelloIsLatest => HelloIsLatest'
    BY <1>0, <2>1, HelloFirst, SaysOther
  <2>3. pc = "nextImageOffset" => ImageInStep'
    <3> SUFFICES ASSUME pc = "nextImageOffset" PROVE ImageInStep'
      OBVIOUS
    <3>1. rx' = words
      BY <1>2, <2>1, SaysAlone
    <3>2. CASE phase' = "tx" /\ words = ReadDataPacket(asked')
      BY <1>1, <3>1, <3>2 DEF ImageInStep, Answered
    <3>3. CASE phase' = "ended" /\ words = EndPacket(asked.imageId, StatusSuccess)
      BY <1>1, <1>2, <3>1, <3>3 DEF ImageInStep, Answered
    <3>4. CASE phase' = "halt" /\ words = EndPacket(asked.imageId, StatusError)
      <4>1. Len(rx') = 4 /\ rx' = EndPacket(rx'[3], StatusError)
        BY <3>1, <3>4, AnswerLengths DEF EndPacket
      <4> QED
        BY <1>1, <3>4, <4>1 DEF ImageInStep, Refused, Answered
    <3> QED
      BY <2>1, <3>2, <3>3, <3>4
  <2>4. pc \notin {"executeResponse", "executeData", "sendImage", "sendHello",
                   "readNextImageOffset", "sendDone"}
    BY <1>0, Awaited
  <2>5. CallInStep'
    BY <1>2, <2>2, <2>3, <2>4, Awaited DEF CallInStep, hostVars
  <2>6. AsksForSomething' /\ sess # "over"
    BY <1>0, <2>1, Awaited DEF AsksForSomething
  <2> QED
    BY <1>1, <2>2, <2>5, <2>6, DeviceKeeps
<1> QED
  BY <1>3, <1>4, <1>5

LEMMA DoneTakenInStep ==
  ASSUME StepAssumption, IInv, InStep, restarts = 0, DeviceStep, TakesDone
  PROVE  InStep'
<1>0. /\ TypeOK /\ phase = "ended" /\ Takes /\ OneWrite
      /\ phase' = "left" /\ Says(DonePacket)
  BY Awaited DEF TakesDone
<1>1. toDevice' = <<>> /\ toDevice = <<Taken>> /\ OneWrite'
  BY <1>0, TakesLast
<1>2. DonePacket \in Seq(Nat) /\ DonePacket # <<>> /\ DonePacket[1] # Hello
  BY FixedPacketsTyped, OtherPackets
<1>3. HelloIsLatest => HelloIsLatest'
  BY <1>0, <1>2, HelloFirst, SaysOther
<1>4. CallInStep'
  <2>1. UNCHANGED hostVars
    BY Awaited
  <2>2. pc = "sendDone" => rx = <<>> /\ line = "open"
    BY Awaited DEF Sent
  <2>3. pc = "sendDone" => DoneInStep'
    BY <1>0, <1>1, <1>2, <2>2, SaysAlone DEF DoneInStep, Answered
  <2>4. pc \notin {"executeResponse", "executeData", "sendImage", "sendHello",
                   "nextImageOffset", "readNextImageOffset"}
    BY <1>0, Awaited
  <2> QED
    BY <1>3, <2>1, <2>3, <2>4, Awaited DEF CallInStep, hostVars
<1>5. AsksForSomething' /\ sess # "over"
  BY <1>0, Awaited DEF AsksForSomething
<1> QED
  BY <1>1, <1>3, <1>4, <1>5, DeviceKeeps

LEMMA ExecuteTakenInStep ==
  ASSUME StepAssumption, IInv, InStep, restarts = 0, DeviceStep, TakesExecute
  PROVE  InStep'
<1>0. TypeOK /\ phase = "ready" /\ phase' = "exec" /\ Takes /\ OneWrite
  BY Awaited DEF TakesExecute
<1>1. toDevice' = <<>> /\ toDevice = <<Taken>> /\ OneWrite'
  BY <1>0, TakesLast
<1>2. /\ Says(ExecutePacket(Taken.arg, remaining'))
      /\ executing' = Taken.arg
      /\ remaining' \in Nat \ {0}
  BY ResultSizesAssumption DEF TakesExecute
<1>3. Taken.arg \in Nat
  BY <1>0, TakesTyped DEF TakesExecute, IsPacket, Packets, Data, TypeOK
<1> DEFINE words == ExecutePacket(Taken.arg, remaining')
<1>4. words \in Seq(Nat) /\ words # <<>> /\ words[1] # Hello
  BY <1>2, <1>3, FixedPacketsTyped, OtherPackets
<1>5. HelloIsLatest => HelloIsLatest'
  BY <1>0, <1>2, <1>4, HelloFirst, SaysOther
<1>6. UNCHANGED hostVars
  BY Awaited
<1>7. pc = "executeResponse" => ExecuteInStep'
  <2> SUFFICES ASSUME pc = "executeResponse" PROVE ExecuteInStep'
    OBVIOUS
  <2>1. Sent(Packet(Execute, command)) /\ line = "open" /\ ret = <<>>
    BY Awaited
  <2>2. Taken.arg = command
    BY <1>1, <2>1 DEF Sent, Packet
  <2>3. rx' = words
    BY <1>2, <1>4, <2>1, SaysAlone DEF Sent
  <2>4. command' = command /\ ret' = ret
    BY <1>6 DEF hostVars, commandVars
  <2>5. remaining' > 0
    BY <1>2
  <2>6. Answered(ExecutePacket(command, remaining))'
    BY <1>1, <2>2, <2>3, <2>4 DEF Answered
  <2> QED
    BY <1>0, <1>2, <2>1, <2>2, <2>4, <2>5, <2>6 DEF ExecuteInStep
<1>8. CallInStep'
  <2>1. pc \notin {"sendDone", "executeData", "sendImage", "sendHello",
                   "nextImageOffset", "readNextImageOffset"}
    BY <1>0, Awaited
  <2> QED
    BY <1>5, <1>6, <1>7, <2>1, Awaited DEF CallInStep, hostVars
<1>9. AsksForSomething' /\ sess # "over"
  BY <1>0, Awaited DEF AsksForSomething
<1> QED
  BY <1>1, <1>5, <1>8, <1>9, DeviceKeeps

LEMMA ExecuteDataTakenInStep ==
  ASSUME StepAssumption, IInv, InStep, restarts = 0, DeviceStep,
         TakesExecuteData
  PROVE  InStep'
<1>0. /\ TypeOK /\ phase = "exec" /\ phase' = "data" /\ Takes /\ OneWrite
      /\ rx' = rx /\ executing' = executing /\ remaining' = remaining
  BY Awaited DEF TakesExecuteData, deviceVars, executeVars
<1>1. toDevice' = <<>> /\ OneWrite'
  BY <1>0, TakesLast
<1>2. HelloIsLatest => HelloIsLatest'
  BY <1>0 DEF HelloIsLatest
<1>3. UNCHANGED hostVars
  BY Awaited
<1>4. pc = "executeData" => ExecuteDataInStep'
  <2> SUFFICES ASSUME pc = "executeData" PROVE ExecuteDataInStep'
    OBVIOUS
  <2>1. ExecuteDataInStep /\ rx = <<>> /\ remaining \in Nat /\ ret \in Seq(Nat)
    BY <1>0, Awaited DEF Sent, TypeOK
  <2>2. remaining # 0
    <3>1. 4 * Len(ret) < 4 * (Len(ret) + Len(rx) + remaining)
      BY <2>1 DEF ExecuteDataInStep
    <3>2. Len(rx) = 0 /\ Len(ret) \in Nat
      BY <2>1
    <3> QED
      BY <2>1, <3>1, <3>2
  <2>3. UNCHANGED <<ret, rx, command, dataSize, remaining, executing>>
    BY <1>0, <1>3 DEF hostVars, commandVars
  <2>4. IsResult(ret)' /\ IsResult(rx)'
    BY <2>1, <2>3 DEF ExecuteDataInStep, IsResult, DataWord
  <2> QED
    BY <1>0, <1>1, <2>1, <2>2, <2>3, <2>4 DEF ExecuteDataInStep
<1>5. CallInStep'
  <2>1. pc \notin {"sendDone", "executeResponse", "sendImage", "sendHello",
                   "nextImageOffset", "readNextImageOffset"}
    BY <1>0, Awaited
  <2> QED
    BY <1>2, <1>3, <1>4, <2>1, Awaited DEF CallInStep, hostVars
<1>6. AsksForSomething' /\ sess # "over"
  BY <1>0, Awaited DEF AsksForSomething
<1> QED
  BY <1>1, <1>2, <1>5, <1>6, DeviceKeeps

(* More of the same result is still that result. *)
LEMMA ResultArrives ==
  ASSUME rx \in Seq(Nat), IsResult(rx), command \in Nat, NEW n \in Nat
  PROVE  /\ IsResult(rx \o Result(command, n))
         /\ Len(rx \o Result(command, n)) = Len(rx) + n
<1> DEFINE more == Result(command, n)
<1>1. more \in Seq(Nat) /\ DOMAIN more = 1 .. n
  BY FixedPacketsTyped DEF Result
<1>2. Len(more) = n /\ \A i \in 1 .. n : more[i] = DataWord(command)
  BY <1>1, LenProperties DEF Result
<1>3. \A i \in 1 .. Len(rx) : rx[i] = DataWord(command)
  BY LenProperties DEF IsResult
<1> HIDE DEF more
<1>4. /\ rx \o more \in Seq(Nat) /\ Len(rx \o more) = Len(rx) + n
      /\ \A i \in 1 .. Len(rx) + n :
           (rx \o more)[i] = IF i <= Len(rx) THEN rx[i] ELSE more[i - Len(rx)]
  <2>1. /\ rx \o more \in Seq(Nat) /\ Len(rx \o more) = Len(rx) + Len(more)
        /\ \A i \in 1 .. Len(rx) + Len(more) :
             (rx \o more)[i] = IF i <= Len(rx) THEN rx[i] ELSE more[i - Len(rx)]
    BY <1>1, ConcatProperties
  <2> QED
    BY <1>2, <2>1
<1>5. ASSUME NEW i \in 1 .. Len(rx) + n
      PROVE  (rx \o more)[i] = DataWord(command)
  <2>1. CASE i <= Len(rx)
    BY <1>3, <1>4, <2>1
  <2>2. CASE ~(i <= Len(rx))
    <3>1. i - Len(rx) \in 1 .. n
      BY <2>2
    <3> QED
      BY <1>2, <1>4, <2>2, <3>1
  <2> QED
    BY <2>1, <2>2
<1>6. IsResult(rx \o more)
  BY <1>4, <1>5, LenProperties DEF IsResult
<1> QED
  BY <1>4, <1>6 DEF more

LEMMA ResultSentInStep ==
  ASSUME StepAssumption, IInv, InStep, restarts = 0, DeviceStep, SendsResult
  PROVE  InStep'
<1>0. /\ TypeOK /\ phase = "data" /\ OneWrite /\ toDevice' = toDevice
      /\ asked' = asked /\ executing' = executing
  BY Awaited DEF SendsResult, imageTxVars
<1>1. PICK n \in 1 .. remaining :
        /\ Says(Result(executing, n))
        /\ remaining' = remaining - n
        /\ phase' = IF n = remaining THEN "ready" ELSE "data"
  BY DEF SendsResult
<1>2. /\ n \in Nat \ {0} /\ remaining \in Nat /\ executing \in Nat
      /\ remaining' = 0 <=> n = remaining
  BY <1>0, <1>1 DEF TypeOK
<1>3. /\ Result(executing, n) \in Seq(Nat) /\ Result(executing, n) # <<>>
      /\ Result(executing, n)[1] # Hello
  BY <1>2, FixedPacketsTyped, OtherPackets
<1>4. HelloIsLatest => HelloIsLatest'
  BY <1>0, <1>1, <1>3, HelloFirst, SaysOther
<1>5. UNCHANGED hostVars
  BY Awaited
<1>6. pc = "executeData" => ExecuteDataInStep'
  <2> SUFFICES ASSUME pc = "executeData" PROVE ExecuteDataInStep'
    OBVIOUS
  <2>1. ExecuteDataInStep /\ line = "open" /\ toDevice = <<>>
    BY <1>0, Awaited
  <2>2. /\ executing = command /\ IsResult(rx) /\ IsResult(ret)
        /\ 4 * (Len(ret) + Len(rx) + remaining) = dataSize
        /\ rx \in Seq(Nat) /\ ret \in Seq(Nat)
    BY <1>0, <2>1 DEF ExecuteDataInStep, TypeOK
  <2>3. rx' = rx \o Result(command, n)
    BY <1>1, <2>1, <2>2 DEF Says
  <2>4. IsResult(rx \o Result(command, n)) /\ Len(rx') = Len(rx) + n
    BY <1>2, <2>2, <2>3, ResultArrives
  <2>5. UNCHANGED <<ret, command, dataSize>>
    BY <1>5 DEF hostVars, commandVars
  <2>6. IsResult(ret)' /\ IsResult(rx)'
    BY <2>2, <2>3, <2>4, <2>5 DEF IsResult, DataWord
  <2>7. 4 * (Len(ret') + Len(rx') + remaining') = dataSize'
    <3>1. Len(rx) \in Nat /\ Len(ret) \in Nat
      BY <2>2
    <3>2. Len(rx') + remaining' = Len(rx) + remaining
      BY <1>1, <1>2, <2>4, <3>1
    <3>3. remaining' \in Nat /\ Len(rx') \in Nat
      BY <1>1, <1>2, <2>4, <3>1
    <3>4. Len(ret') + Len(rx') + remaining' = Len(ret) + Len(rx) + remaining
      BY <1>2, <2>5, <3>1, <3>2, <3>3
    <3> QED
      BY <2>2, <2>5, <3>4
  <2>8. toDevice' = <<>> /\ phase' = IF remaining' = 0 THEN "ready" ELSE "data"
    BY <1>0, <1>1, <1>2, <2>1
  <2>9. 4 * Len(ret') < dataSize' /\ executing' = command'
    BY <1>0, <2>1, <2>2, <2>5 DEF ExecuteDataInStep
  <2> QED
    BY <2>6, <2>7, <2>8, <2>9 DEF ExecuteDataInStep
<1>7. CallInStep'
  <2>1. pc \notin {"sendDone", "executeResponse", "sendImage", "sendHello",
                   "nextImageOffset", "readNextImageOffset"}
    BY <1>0, Awaited
  <2> QED
    BY <1>4, <1>5, <1>6, <2>1, Awaited DEF CallInStep, hostVars
<1>8. AsksForSomething' /\ OneWrite' /\ sess # "over"
  BY <1>0, <1>1, Awaited DEF AsksForSomething, OneWrite
<1> QED
  BY <1>4, <1>7, <1>8, DeviceKeeps

LEMMA SwitchTakenInStep ==
  ASSUME StepAssumption, IInv, InStep, restarts = 0, DeviceStep,
         TakesSwitchMode
  PROVE  InStep'
<1>0. /\ TypeOK /\ phase = "ready" /\ phase' = "hello" /\ Takes /\ OneWrite
      /\ IsPacket(SwitchMode) /\ Says(HelloPacket(Taken.arg))
  BY Awaited DEF TakesSwitchMode
<1>1. toDevice' = <<>> /\ toDevice = <<Taken>> /\ OneWrite'
  BY <1>0, TakesLast
<1>2. Taken.arg \in Nat
  BY <1>0, TakesTyped DEF IsPacket, Packets, Data, TypeOK
<1>3. HelloIsLatest => HelloIsLatest'
  BY <1>0, <1>1, <1>2, HelloFirst, SaysHello
<1>4. CallInStep'
  <2>1. pc # "executeResponse"
    <3>1. pc = "executeResponse" => Sent(Packet(Execute, command))
      BY Awaited
    <3> QED
      BY <1>0, <1>1, <3>1 DEF Sent, IsPacket, Packet, Execute, SwitchMode
  <2>2. pc \notin {"sendDone", "executeData", "sendImage", "sendHello",
                   "nextImageOffset", "readNextImageOffset"}
    BY <1>0, Awaited
  <2> QED
    BY <1>3, <2>1, <2>2, Awaited DEF CallInStep, hostVars
<1>5. AsksForSomething' /\ sess # "over"
  BY <1>0, Awaited DEF AsksForSomething
<1> QED
  BY <1>1, <1>3, <1>4, <1>5, DeviceKeeps

LEMMA ResetTakenInStep ==
  ASSUME StepAssumption, IInv, InStep, restarts = 0, DeviceStep, TakesReset
  PROVE  InStep'
<1>0. /\ TypeOK /\ phase \notin {"tx", "left", "data"} /\ phase' = "left"
      /\ Takes /\ OneWrite /\ IsPacket(Reset) /\ Says(ResetPacket)
  BY Awaited DEF TakesReset
<1>1. toDevice' = <<>> /\ toDevice = <<Taken>> /\ OneWrite'
  BY <1>0, TakesLast
<1>2. ResetPacket \in Seq(Nat) /\ ResetPacket # <<>> /\ ResetPacket[1] # Hello
  BY FixedPacketsTyped, OtherPackets
<1>3. HelloIsLatest => HelloIsLatest'
  BY <1>0, <1>1, <1>2, HelloFirst, SaysOther
<1>4. CallInStep'
  <2>1. /\ pc = "sendHello" => Sent(Packet(HelloResponse, mode))
        /\ pc = "executeResponse" => Sent(Packet(Execute, command))
        /\ pc = "executeData" => Sent(Packet(ExecuteData, command))
        /\ pc = "sendDone" => Sent(Packet(Done, 0))
    BY <1>0, Awaited
  <2>2. pc \notin {"sendHello", "executeResponse", "executeData", "sendDone"}
    BY <1>0, <1>1, <2>1
    DEF Sent, IsPacket, Packet, HelloResponse, Execute, ExecuteData, Done, Reset
  <2>3. pc \notin {"sendImage", "nextImageOffset", "readNextImageOffset"}
    BY <1>0, Awaited
  <2> QED
    BY <1>3, <2>2, <2>3, Awaited DEF CallInStep, hostVars
<1>5. AsksForSomething'
  BY <1>0 DEF AsksForSomething
<1> QED
  BY <1>0, <1>1, <1>3, <1>4, <1>5, DeviceKeeps

LEMMA IgnoresInStep ==
  ASSUME StepAssumption, IInv, InStep, restarts = 0, DeviceStep, Ignores
  PROVE  InStep'
<1>0. /\ TypeOK /\ phase \in {"left", "halt"} /\ phase' = phase
      /\ Takes /\ OneWrite /\ rx' = rx
  BY Awaited DEF Ignores
<1>1. toDevice' = <<>> /\ OneWrite'
  BY <1>0, TakesLast
<1>2. HelloIsLatest => HelloIsLatest'
  BY <1>0 DEF HelloIsLatest
<1>3. CallInStep'
  <2>1. pc \notin {"sendDone", "executeData", "executeResponse", "sendImage",
                   "sendHello", "nextImageOffset", "readNextImageOffset"}
    BY <1>0, Awaited
  <2> QED
    BY <1>2, <2>1, Awaited DEF CallInStep, hostVars
<1>4. AsksForSomething' /\ (sess = "over" => phase' = "left")
  BY <1>0, Awaited DEF AsksForSomething
<1> QED
  BY <1>1, <1>2, <1>3, <1>4, DeviceKeeps

LEMMA DeviceStepInStep ==
  ASSUME StepAssumption, IInv, InStep, restarts = 0, DeviceStep
  PROVE  InStep'
<1>1. CASE Refuses
  BY <1>1, ErrorPhasesAssumption, RefusesInStep
  DEF Refuses, RefusesWith, StepAssumption
<1>2. CASE TakesUnexpected
  <2>1. Takes /\ OneWrite /\ TypeOK
    BY <1>2, Awaited DEF TakesUnexpected
  <2>2. pc = "executeData" => phase # "exec"
    <3> SUFFICES ASSUME pc = "executeData", phase = "exec" PROVE FALSE
      OBVIOUS
    <3>1. Sent(Packet(ExecuteData, command)) /\ toDevice = <<Taken>>
      BY <2>1, TakesLast, Awaited
    <3>2. IsPacket(ExecuteData)
      BY <3>1 DEF Sent, IsPacket, Packet
    <3> QED
      BY <1>2, <3>2 DEF TakesUnexpected, Expects
  <2> QED
    BY <1>2, <2>2, RefusesInStep DEF TakesUnexpected, RefusesWith
<1> QED
  BY <1>1, <1>2, GreetsInStep, HelloResponseInStep, ImageDataInStep,
     DoneTakenInStep, ExecuteTakenInStep, ExecuteDataTakenInStep,
     ResultSentInStep, SwitchTakenInStep, ResetTakenInStep, IgnoresInStep
  DEF DeviceStep

----------------------------------------------------------------------------
(* The invariant and what follows from it. *)

LEMMA NextInStep ==
  ASSUME StepAssumption, IInv, InStep, [Next]_vars
  PROVE  InStep'
<1>1. CASE restarts' # 0
  BY <1>1 DEF InStep
<1>2. CASE restarts' = 0
  <2>1. restarts \in Nat
    BY DEF IInv, TypeOK
  <2>2. ~Restarts
    BY <1>2, <2>1 DEF Restarts
  <2>3. CASE UNCHANGED vars
    BY <1>2, <2>3
    DEF InStep, vars, linkVars, hostVars, imageVars, commandVars, deviceVars,
        imageTxVars, executeVars, PortInUse, OneWrite, Part, AsksForSomething,
        ResultKept, IsResult, DataWord, Running, IdleInStep, HelloIsLatest,
        Answered, Quiet, HoldsRequest, AsksNothing, CallInStep, HelloInStep,
        Sent, Refused, ExecuteInStep, ExecuteDataInStep, ImageInStep, DoneInStep
  <2>4. CASE HostCall \/ HostStep \/ DeviceStep
    <3>1. restarts = 0
      BY <1>2, <2>4
      DEF HostCall, HostStep, DeviceStep, deviceVars, DeviceGreets,
          TakesHelloResponse, TakesImageData, TakesDone, TakesExecute,
          TakesExecuteData, SendsResult, TakesSwitchMode, TakesReset, Refuses,
          TakesUnexpected, Ignores
    <3> QED
      BY <2>4, <3>1, HostCallInStep, HostStepInStep, DeviceStepInStep
  <2> QED
    BY <2>2, <2>3, <2>4 DEF Next
<1> QED
  BY <1>1, <1>2

LEMMA InitInStep == Init => InStep
BY DEF Init, HostInit, DeviceInit, InStep, PortInUse, OneWrite,
       AsksForSomething, ResultKept, Running, CallInStep

LEMMA NextTyped == IInv /\ [Next]_vars => IInv'
BY HostCallTyped, HostStepTyped, DeviceStepTyped, RestartsTyped, StutterTyped
DEF Next

(* Until the device restarts, host and device are in step: at every moment  *)
(* the place of SaharaSerial's call, what is under way between the two and  *)
(* what the device waits for agree.                                         *)
THEOREM StaysInStep ==
  ASSUME StepAssumption
  PROVE  Spec => []InStep
<1>1. Init => IInv /\ InStep
  BY InitTyped, InitInStep
<1>2. IInv /\ InStep /\ [Next]_vars => (IInv /\ InStep)'
  BY NextTyped, NextInStep
<1> QED
  BY <1>1, <1>2, PTL DEF Spec

(* Only image data is stored, and only the part that was asked for. *)
LEMMA StoredIntact ==
  ASSUME StepAssumption, IInv, InStep, ImageIntact, [Next]_vars
  PROVE  ImageIntact'
<1> USE DEF ImageIntact
<1>1. CASE TakesImageData
  <2> SUFFICES ASSUME restarts' = 0, NEW s \in stored'
               PROVE  \/ s.took = FileData(s.asked.imageId, s.asked.offset,
                                           s.asked.size)
                      \/ s.took = Packet(Reset, 0)
    OBVIOUS
  <2>1. restarts = 0 /\ phase = "tx" /\ Takes
    BY <1>1 DEF TakesImageData
  <2>2. TypeOK /\ OneWrite
    BY <2>1 DEF IInv, InStep
  <2>3. toDevice = <<Taken>>
    BY <2>1, <2>2, TakesLast
  <2>4. Taken \in {Part(asked), Packet(Reset, 0)}
    BY <2>1, <2>2, <2>3 DEF OneWrite
  <2>5. s \in stored \/ s = [asked |-> asked, took |-> Taken]
    BY <1>1 DEF TakesImageData
  <2> QED
    BY <2>1, <2>4, <2>5 DEF Part
<1>2. CASE Restarts
  <2>1. restarts \in Nat /\ restarts' = restarts + 1
    BY <1>2 DEF IInv, TypeOK, Restarts
  <2> QED
    BY <2>1
<1>3. CASE UNCHANGED <<stored, restarts>>
  BY <1>3
<1> QED
  BY <1>1, <1>2, <1>3
  DEF Next, HostCall, HostStep, DeviceStep, deviceVars, imageTxVars, vars,
      DeviceGreets, TakesHelloResponse, TakesDone, TakesExecute,
      TakesExecuteData, SendsResult, TakesSwitchMode, TakesReset, Refuses,
      TakesUnexpected, Ignores

(* What the device has stored is, part by part, what it asked for: the      *)
(* right image, the right offset, the right number of bytes (sendImage's    *)
(* loop over readNextImageOffset's requests), until it restarts.            *)
THEOREM TransferIntact ==
  ASSUME StepAssumption
  PROVE  Spec => []ImageIntact
<1>1. Init => ImageIntact
  BY DEF Init, DeviceInit, ImageIntact
<1>2. Init => IInv /\ InStep
  BY InitTyped, InitInStep
<1>3. IInv /\ InStep /\ ImageIntact /\ [Next]_vars
        => (IInv /\ InStep /\ ImageIntact)'
  BY NextTyped, NextInStep, StoredIntact
<1> QED
  BY <1>1, <1>2, <1>3, PTL DEF Spec

(* sendDone returns only when the device has acknowledged the end of the    *)
(* transfer, or has restarted since.                                        *)
THEOREM DoneAcknowledged ==
  ASSUME StepAssumption
  PROVE  Spec => []DoneIsAcknowledged
<1>1. IInv /\ InStep => DoneIsAcknowledged
  BY DEF IInv, TypeOK, InStep, DoneIsAcknowledged
<1>2. Spec => [](IInv /\ InStep)
  BY InitTyped, InitInStep, NextTyped, NextInStep, PTL DEF Spec
<1> QED
  BY <1>1, <1>2, PTL

(* What sendClientCommand returns is the result of the command it was given *)
(* and all of it, although it compares neither command nor data.            *)
THEOREM ResultWhole ==
  ASSUME StepAssumption
  PROVE  Spec => []ResultIsOfCommand
<1>1. InStep => ResultIsOfCommand
  BY DEF InStep, ResultKept, ResultIsOfCommand, Returned, IsResult
<1>2. Spec => [](IInv /\ InStep)
  BY InitTyped, InitInStep, NextTyped, NextInStep, PTL DEF Spec
<1> QED
  BY <1>1, <1>2, PTL

----------------------------------------------------------------------------
(* A device that never restarts. *)

LEMMA NeverRestarts ==
  ASSUME MaxRestarts = 0, restarts = 0, [Next]_vars
  PROVE  restarts' = 0
<1>1. ~Restarts
  BY DEF Restarts
<1> QED
  BY <1>1
  DEF Next, HostCall, HostStep, DeviceStep, deviceVars, vars, DeviceGreets,
      TakesHelloResponse, TakesImageData, TakesDone, TakesExecute,
      TakesExecuteData, SendsResult, TakesSwitchMode, TakesReset, Refuses,
      TakesUnexpected, Ignores

LEMMA GenuineStep ==
  ASSUME StepAssumption, IInv, InStep, restarts = 0, restarts' = 0, [Next]_vars,
         nextOffset' # nextOffset
  PROVE  IF AsksNothing(nextOffset') THEN phase = "ended"
                                     ELSE nextOffset' = asked
<1>0. InStep'
  BY NextInStep
<1>1. \/ SendHello_Returns \/ SendImage_Returns
      \/ ReadNextImageOffset_Returns
  BY DEF Next, HostCall, HostStep, DeviceStep, hostVars, imageVars, vars, Open,
         Close, ReadHello, SendHello, SwitchModeCall, SwitchModeAndHello,
         SendClientCommand, ReadNextImageOffset, SendImage, SendDone, SendReset,
         PortFails, ReadHello_Returns, ExecuteResponse_Returns,
         ExecuteData_Returns, SendImage_Turn, SendDone_Returns,
         SendReset_Returns, SendReset_PortFails
<1>2. HostStep
  BY <1>1 DEF Next, HostCall, HostStep, DeviceStep, hostVars, vars, Restarts,
              SendHello_Returns, SendImage_Returns, Open, Close, ReadHello,
              SendHello, SwitchModeCall, SwitchModeAndHello, SendClientCommand,
              ReadNextImageOffset, SendImage, SendDone, SendReset, Running,
              ReadNextImageOffset_Returns, imageVars
<1>3. /\ line = "open" /\ threw = NoThrow /\ line' = line
      /\ UNCHANGED <<asked, phase>> /\ CallInStep /\ AsksForSomething
  BY <1>1, <1>2, Blocked
  DEF SendHello_Returns, SendImage_Returns, ReadNextImageOffset_Returns, InStep
<1>4. ~ReadNextImageOffset_Returns
  <2> SUFFICES ASSUME ReadNextImageOffset_Returns PROVE FALSE
    OBVIOUS
  <2>1. rx = <<>>
    BY <1>3 DEF CallInStep, ReadNextImageOffset_Returns, HoldsRequest, Quiet
  <2>2. PICK k \in ReadLengths(5) : ReadNextImageOffset_Returns!3!(k)
    BY DEF ReadNextImageOffset_Returns
  <2>3. ~IsValidResponse(ReadData, TakeWords(k))
    BY <2>1, ReadsNothing, NotValid
  <2> QED
    BY <2>2, <2>3
<1>5. SendHello_Returns => Running' /\ sess' \in {"image", "reread"}
  <2> SUFFICES ASSUME SendHello_Returns
               PROVE  Running' /\ sess' \in {"image", "reread"}
    OBVIOUS
  <2>1. PICK k \in ReadLengths(8) : SendHello_Returns!3!(k)
    BY DEF SendHello_Returns
  <2>2. PICK next \in SessionsIn(mode) : ReturnsTo(next)
    BY <2>1
  <2>3. mode = ImageTxPending
    BY <2>1
  <2> QED
    BY <1>3, <2>2, <2>3
    DEF Running, ReturnsTo, SessionsIn, ImageTxPending, CommandMode,
        MemoryDebugMode
<1>6. SendImage_Returns => \/ Running' /\ sess' = "image"
                           \/ pc' = "sendImage"
  <2> SUFFICES ASSUME SendImage_Returns
               PROVE  (Running' /\ sess' = "image") \/ pc' = "sendImage"
    OBVIOUS
  <2>1. PICK k \in ReadLengths(5) : SendImage_Returns!3!(k)
    BY DEF SendImage_Returns
  <2>2. ReturnsTo("image") \/ Blocks("sendImage")
    BY <2>1
  <2> QED
    BY <1>3, <2>2 DEF Running, ReturnsTo, Blocks
<1>7. \/ HoldsRequest'
      \/ phase' = "tx" /\ nextOffset' = asked'
  BY <1>0, <1>1, <1>4, <1>5, <1>6 DEF InStep, IdleInStep, CallInStep
<1>8. \/ phase = "tx" /\ nextOffset' = asked
      \/ phase = "ended" /\ AsksNothing(nextOffset')
  BY <1>3, <1>7 DEF HoldsRequest, AsksNothing
<1>9. phase = "tx" => ~AsksNothing(asked)
  BY <1>3, WantedAssumption DEF AsksForSomething, AsksNothing
<1> QED
  BY <1>8, <1>9

(* With a device that does not restart, every request the program is given  *)
(* by sendHello or sendImage is the one the device waits on, and it is told *)
(* that nothing is left to send only when the device has ended the transfer.*)
THEOREM RequestGenuine ==
  ASSUME StepAssumption, MaxRestarts = 0
  PROVE  Spec => RequestIsGenuine
<1>1. Init => IInv /\ InStep /\ restarts = 0
  BY InitTyped, InitInStep DEF Init, DeviceInit
<1>2. IInv /\ InStep /\ restarts = 0 /\ [Next]_vars
        => (IInv /\ InStep /\ restarts = 0)'
  BY NextTyped, NextInStep, NeverRestarts
<1>3. IInv /\ InStep /\ restarts = 0 /\ [Next]_vars
        => [nextOffset' # nextOffset =>
              IF AsksNothing(nextOffset') THEN phase = "ended"
                                          ELSE nextOffset' = asked]_vars
  BY GenuineStep, NeverRestarts
<1> QED
  BY <1>1, <1>2, <1>3, PTL DEF Spec, RequestIsGenuine

(* Without "rereads" the program never waits for a second request. *)
OneRequestAtATime == sess # "reread" /\ pc # "readNextImageOffset"

LEMMA OneRequestKept ==
  ASSUME IInv, "rereads" \notin Habits, OneRequestAtATime, [Next]_vars
  PROVE  OneRequestAtATime'
<1> USE DEF OneRequestAtATime
<1>1. CASE HostCall
  BY <1>1
  DEF HostCall, Open, Close, ReadHello, SendHello, SwitchModeCall,
      SwitchModeAndHello, SendClientCommand, ReadNextImageOffset, SendImage,
      SendDone, SendReset, PortCloses, ReturnsTo, Blocks, hostVars
<1>2. CASE SendHello_Returns
  <2>1. PICK k \in ReadLengths(8) : SendHello_Returns!3!(k)
    BY <1>2 DEF SendHello_Returns
  <2>2. "reread" \notin SessionsIn(mode)
    BY DEF SessionsIn
  <2> QED
    BY <2>1, <2>2 DEF Throws, ReturnsTo
<1>3. CASE HostStep /\ ~SendHello_Returns
  BY <1>3
  DEF HostStep, PortFails, ReadHello_Returns, ExecuteResponse_Returns,
      ExecuteData_Returns, ReadNextImageOffset_Returns, SendImage_Turn,
      SendImage_Returns, SendDone_Returns, SendReset_Returns,
      SendReset_PortFails, PortCloses, ReturnsTo, Blocks, Throws
<1>4. CASE UNCHANGED hostVars
  BY <1>4 DEF hostVars
<1> QED
  BY <1>1, <1>2, <1>3, <1>4
  DEF Next, DeviceStep, vars

LEMMA InStepNoWait ==
  ASSUME IInv, InStep, restarts = 0, OneRequestAtATime
  PROVE  NoMutualWait
<1> SUFFICES ASSUME line = "open", rx = <<>>,
                    pc \in {"sendHello", "executeResponse", "executeData",
                            "nextImageOffset", "sendDone"},
                    toDevice = <<>>
             PROVE  phase = "data"
  BY DEF NoMutualWait, OneRequestAtATime
<1>1. CallInStep /\ TypeOK
  BY DEF InStep, IInv
<1>2. /\ \A r : ~Answered(ReadDataPacket(r))
      /\ \A image, status : ~Answered(EndPacket(image, status))
      /\ \A cmd, words : ~Answered(ExecutePacket(cmd, words))
      /\ ~Answered(DonePacket) /\ ~Answered(ReadyPacket)
      /\ ~Answered(MemoryDebugPacket)
  BY OtherPackets DEF Answered
<1>3. ~Refused
  BY <1>2 DEF Refused
<1>4. \A msg : ~Sent(msg)
  BY DEF Sent
<1>5. pc = "executeData"
  BY <1>1, <1>2, <1>3, <1>4
  DEF CallInStep, HelloInStep, ExecuteInStep, ImageInStep, DoneInStep
<1>6. ExecuteDataInStep
  BY <1>1, <1>5 DEF CallInStep
<1>7. remaining # 0
  <2>1. 4 * Len(ret) < 4 * (Len(ret) + Len(rx) + remaining)
    BY <1>6 DEF ExecuteDataInStep
  <2>2. Len(rx) = 0 /\ Len(ret) \in Nat /\ remaining \in Nat
    BY <1>1 DEF TypeOK
  <2> QED
    BY <2>1, <2>2
<1> QED
  BY <1>4, <1>6, <1>7 DEF ExecuteDataInStep

(* With a device that does not restart, a call of an established session    *)
(* that waits for an answer has one coming: the host's reads and the        *)
(* device's never wait on each other.                                       *)
THEOREM NeverMutualWait ==
  ASSUME StepAssumption, MaxRestarts = 0, "rereads" \notin Habits
  PROVE  Spec => []NoMutualWait
<1>1. Init => IInv /\ InStep /\ restarts = 0 /\ OneRequestAtATime
  BY InitTyped, InitInStep DEF Init, HostInit, DeviceInit, OneRequestAtATime
<1>2. IInv /\ InStep /\ restarts = 0 /\ OneRequestAtATime /\ [Next]_vars
        => (IInv /\ InStep /\ restarts = 0 /\ OneRequestAtATime)'
  BY NextTyped, NextInStep, NeverRestarts, OneRequestKept
<1>3. IInv /\ InStep /\ restarts = 0 /\ OneRequestAtATime => NoMutualWait
  BY InStepNoWait
<1> QED
  BY <1>1, <1>2, <1>3, PTL DEF Spec

=============================================================================

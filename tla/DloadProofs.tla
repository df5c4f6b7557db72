----------------------------- MODULE DloadProofs -----------------------------
(***************************************************************************)
(* The streaming download session keeps its types, what the program        *)
(* believes to be open is open, and readFlash and writeFlash implement     *)
(* FlashStore.                                                             *)
(*                                                                         *)
(* StreamingDloadSerial takes the next packet for the answer of its last   *)
(* request and compares nothing but the command, so the second theorem is  *)
(* about what can be in the line: whatever is left in it from before, and  *)
(* would be taken for an answer of this session, makes the hello fail.     *)
(* StoreInv adds where a transfer is: the locals of the loops, the vector, *)
(* the stream, the flash and the one chunk in the line agree.              *)
(***************************************************************************)
EXTENDS StreamingDload, SequenceTheorems, TLAPS

(* What StreamingDload.TypeOK leaves out: requests and answers, the content *)
(* of the flash, and that a write has as much data as it is to write.       *)
Commands == {Method[m][1] : m \in Methods}
Requests ==
  [cmd : {"Hello"}, address : {0}, arg : {0}]
    \cup [cmd : Commands, address : {0}, arg : Modes \cup {NoMode}]
    \cup [cmd : {"Read"}, address : Nat, arg : Nat]
    \cup [cmd : {"StreamWrite"}, address : Nat, arg : Seq(Int)]
Packets ==
  [cmd : {"HelloResponse"}, address : BlockSizes, arg : {"whole", "short"}]
    \cup [cmd : {Method[m][2] : m \in Methods} \cup {"Error", "Log"},
          address : {0}, arg : {0}]
    \cup [cmd : {"ReadData"}, address : Nat, arg : Seq(Int)]
    \cup [cmd : {"BlockWritten"}, address : Nat, arg : {0}]
Loops == [lba : Nat, amount : Nat, step : Nat, total : Nat, blocks : Nat]
Places == Methods \cup {"idle", "sendHello", "file", "read", "readAnswer",
                        "write", "writeAnswer"}
Units == 0 .. Sectors * SectorSize - 1

Typed ==
  /\ port \in {"open", "closed"}
  /\ pc \in Places
  /\ mustClose \in BOOLEAN
  /\ negotiated \in BOOLEAN
  /\ maxBlock \in BlockSizes \cup {0, MaxData}
  /\ wanted \in Modes \cup {NoMode}
  /\ opened \in Modes \cup {NoMode}
  /\ deviceMode \in Modes \cup {NoMode}
  /\ loop \in Loops
  /\ file \in Loops
  /\ out \in Seq(Int)
  /\ written \in Seq(Int)
  /\ result \in Seq(Int)
  /\ job.data \in Seq(Int)
  /\ logs \in 0 .. MaxLogs
  /\ toDevice \in Seq(Requests)
  /\ rx \in Seq(Packets)
  /\ flash \in [Units -> Int]
  /\ preferred \in BlockSizes
  /\ pc \in {"write", "writeAnswer"} => Len(job.data) = loop.amount

----------------------------------------------------------------------------
(* The table of methods.                                                    *)

LEMMA MethodNames ==
  Methods = {"sendUnlock", "setSecurityMode", "sendNop", "sendReset",
             "sendPowerOff", "readEcc", "setEcc", "openMode", "closeMode",
             "openMultiImage", "writePartitionTable", "eraseFlash"}
BY DEF Methods, Method

(* No two methods send the same command. *)
LEMMA CommandIsOfOne ==
  \A m, n \in Methods : Method[m][1] = Method[n][1] => m = n
BY MethodNames DEF Method

LEMMA AnswerIsOfMethod ==
  \A m \in Methods : AnswerTo(Method[m][1]) = Method[m][2]
<1> TAKE m \in Methods
<1> DEFINE n == CHOOSE n \in Methods : Method[n][1] = Method[m][1]
<1>1. n \in Methods /\ Method[n][1] = Method[m][1]
  OBVIOUS
<1>2. n = m
  BY <1>1, CommandIsOfOne
<1> QED
  BY <1>2 DEF AnswerTo

LEMMA CommandAnswered ==
  ASSUME NEW cmd \in Commands
  PROVE  AnswerTo(cmd) \in {Method[m][2] : m \in Methods}
BY AnswerIsOfMethod DEF Commands

----------------------------------------------------------------------------
(* Requests, answers and loops are typed.                                   *)

LEMMA Sizes == Sectors * SectorSize \in Nat
BY SizesAssumption

LEMMA QuotientTyped ==
  ASSUME NEW a \in Nat, NEW d \in Nat \ {0}
  PROVE  a \div d \in Nat /\ a % d \in Nat
OBVIOUS

LEMMA ChunkTyped ==
  ASSUME maxBlock \in BlockSizes \cup {0, MaxData}, NEW amount \in Nat
  PROVE  StepFor(amount) \in Nat
BY SizesAssumption DEF StepFor

LEMMA ReadLoopTyped ==
  ASSUME maxBlock \in BlockSizes \cup {0, MaxData}, NEW lba \in Nat,
         NEW amount \in Nat
  PROVE  ReadLoop(lba, amount) \in Loops
<1>1. StepFor(amount) \in Nat
  BY ChunkTyped
<1>2. Aligned(amount) \in Nat
  <2>1. (amount + SectorSize - 1) \div SectorSize \in Nat
    <3>1. amount + SectorSize - 1 \in Nat /\ SectorSize \in Nat \ {0}
      BY SizesAssumption
    <3> QED
      BY <3>1, QuotientTyped
  <2> QED
    BY <2>1, SizesAssumption DEF Aligned
<1> QED
  BY <1>1, <1>2 DEF ReadLoop, Loops

LEMMA AdvancedTyped ==
  ASSUME NEW l \in Loops, NEW n \in Nat
  PROVE  Advanced(l, n) \in Loops /\ Advanced(l, n).amount = l.amount
<1>1. PICK q \in Nat : q = n \div SectorSize
  BY SizesAssumption, QuotientTyped
<1>2. Advanced(l, n) = [l EXCEPT !.total = @ + n, !.blocks = @ + q]
  BY <1>1 DEF Advanced
<1>3. l = [lba |-> l.lba, amount |-> l.amount, step |-> l.step,
           total |-> l.total, blocks |-> l.blocks]
  BY DEF Loops
<1>4. Advanced(l, n) = [lba |-> l.lba, amount |-> l.amount, step |-> l.step,
                        total |-> l.total + n, blocks |-> l.blocks + q]
  BY <1>2, <1>3
<1>5. /\ l.lba \in Nat /\ l.amount \in Nat /\ l.step \in Nat
      /\ l.total + n \in Nat /\ l.blocks + q \in Nat
  BY DEF Loops
<1> QED
  BY <1>4, <1>5 DEF Loops

LEMMA ContentsTyped ==
  ASSUME flash \in [Units -> Int], NEW address \in Nat, NEW n \in Nat,
         InFlash(address, n)
  PROVE  Store!Contents(flash, address * SectorSize, n) \in Seq(Int)
<1>1. PICK base \in Nat : base = address * SectorSize
  BY SizesAssumption
<1>2. PICK end \in Nat : end = Sectors * SectorSize
  BY Sizes
<1>3. base + n <= end
  BY <1>1, <1>2 DEF InFlash
<1>4. \A i \in 1 .. n : flash[base + i - 1] \in Int
  BY <1>2, <1>3 DEF Units
<1>5. Store!Contents(flash, base, n) \in [1 .. n -> Int]
  BY <1>4 DEF Store!Contents
<1> QED
  BY <1>1, <1>5

LEMMA OverlayTyped ==
  ASSUME flash \in [Units -> Int], NEW base \in Nat, NEW data \in Seq(Int)
  PROVE  Store!Overlay(flash, base, data) \in [Units -> Int]
<1>1. \A u \in Units : base <= u /\ u < base + Len(data) =>
        data[u - base + 1] \in Int
  BY Sizes DEF Units
<1> QED
  BY <1>1 DEF Store!Overlay

LEMMA TrailerTyped ==
  ASSUME NEW data \in Seq(Int), NEW n \in Trailers
  PROVE  WithTrailer(data, n) \in Seq(Int)
<1>1. n \in Nat
  BY SizesAssumption
<1>2. [i \in 1 .. n |-> Garbage] \in Seq(Int)
  BY <1>1 DEF Garbage
<1> QED
  BY <1>2 DEF WithTrailer

LEMMA InitTyped == Init => Typed
<1> SUFFICES ASSUME Init PROVE Typed
  OBVIOUS
<1>1. NoLoop \in Loops
  BY DEF NoLoop, Loops
<1>2. flash \in [Units -> Int]
  BY Sizes DEF Init, Units
<1>3. job.data \in Seq(Int) /\ result \in Seq(Int)
  BY DEF Init, Store!Init, Store!NoJob
<1>4. out \in Seq(Int) /\ written \in Seq(Int)
  BY DEF Init
<1>5. toDevice \in Seq(Requests) /\ rx \in Seq(Packets)
  BY DEF Init
<1>6. logs \in 0 .. MaxLogs
  BY DloadFaultsAssumption DEF Init
<1> QED
  BY <1>1, <1>2, <1>3, <1>4, <1>5, <1>6 DEF Init, Typed, Places

LEMMA MethodRequest ==
  ASSUME NEW m \in Methods, NEW arg \in Modes \cup {NoMode}
  PROVE  Request(Method[m][1], 0, arg) \in Requests
BY DEF Request, Requests, Commands

LEMMA MethodAnswer ==
  ASSUME NEW cmd \in {Method[m][2] : m \in Methods} \cup {"Error", "Log"}
  PROVE  Answer(cmd, 0, 0) \in Packets
BY DEF Answer, Packets

(* What the host takes and what the device takes leaves a shorter line. *)
LEMMA ReceivesTyped ==
  ASSUME rx \in Seq(Packets), Receives
  PROVE  rx' \in Seq(Packets) /\ Received \in Packets
BY DEF Receives, Received

LEMMA TakesTyped ==
  ASSUME toDevice \in Seq(Requests), Takes
  PROVE  toDevice' \in Seq(Requests) /\ Taken \in Requests
BY DEF Takes, Taken

LEMMA SendsTyped ==
  ASSUME toDevice \in Seq(Requests), NEW request \in Requests, Sends(request)
  PROVE  toDevice' \in Seq(Requests)
BY DEF Sends

LEMMA SaysTyped ==
  ASSUME rx \in Seq(Packets), NEW packet \in Packets, Says(packet)
  PROVE  rx' \in Seq(Packets)
BY DEF Says

LEMMA RefusesTyped ==
  ASSUME rx \in Seq(Packets), Refuses
  PROVE  rx' \in Seq(Packets)
<1>1. PICK packet \in Packets : packet = Answer("Error", 0, 0)
  BY MethodAnswer
<1>2. Says(packet)
  BY <1>1 DEF Refuses
<1> QED
  BY <1>2, SaysTyped

LEMMA ReceivedBlockSize ==
  ASSUME Received \in Packets, Received.cmd = "HelloResponse"
  PROVE  BlockSizeOf(Received) \in BlockSizes
<1>1. \A m \in Methods : Method[m][2] # "HelloResponse"
  BY MethodNames DEF Method
<1> QED
  BY <1>1 DEF Packets, BlockSizeOf

LEMMA ReceivedData ==
  ASSUME Received \in Packets, Received.cmd = "ReadData"
  PROVE  Received.arg \in Seq(Int)
<1>1. \A m \in Methods : Method[m][2] # "ReadData"
  BY MethodNames DEF Method
<1> QED
  BY <1>1 DEF Packets

LEMMA TakenMode ==
  ASSUME Taken \in Requests, Taken.cmd \in {"Open", "OpenMultiImage"}
  PROVE  Taken.arg \in Modes \cup {NoMode} /\ Taken.cmd \in Commands
BY DEF Requests

LEMMA TakenRead ==
  ASSUME Taken \in Requests, Taken.cmd = "Read"
  PROVE  Taken.address \in Nat /\ Taken.arg \in Nat
<1>1. \A m \in Methods : Method[m][1] # "Read"
  BY MethodNames DEF Method
<1> QED
  BY <1>1 DEF Requests, Commands

LEMMA TakenWrite ==
  ASSUME Taken \in Requests, Taken.cmd = "StreamWrite"
  PROVE  Taken.address \in Nat /\ Taken.arg \in Seq(Int)
<1>1. \A m \in Methods : Method[m][1] # "StreamWrite"
  BY MethodNames DEF Method
<1> QED
  BY <1>1 DEF Requests, Commands

(* The job and its result after what a call that begins leaves of them. *)
LEMMA ResultIsUsedTyped ==
  ASSUME Typed, ResultIsUsed
  PROVE  job'.data \in Seq(Int) /\ result' \in Seq(Int)
<1>1. Store!NoJob.data \in Seq(Int) /\ <<>> \in Seq(Int)
  BY DEF Store!NoJob
<1> QED
  BY <1>1 DEF Typed, ResultIsUsed, storeVars

LEMMA NoLoopTyped == NoLoop \in Loops /\ <<>> \in Seq(Int)
BY DEF NoLoop, Loops

----------------------------------------------------------------------------
(* Every step keeps the types.                                              *)

LEMMA SessionStepsTyped ==
  ASSUME Typed,
         \/ Open \/ Close \/ TimesOut \/ SendHello \/ SendHello_Returns
         \/ \E m \in Methods : Call(m) \/ Call_Returns(m)
  PROVE  Typed'
<1> USE DEF sessionVars, loopVars, deviceVars, storeVars
<1>1. CASE Open
  BY <1>1 DEF Open, Typed
<1>2. CASE Close
  <2>1. rx' \in Seq(Packets) /\ toDevice' = toDevice
    BY <1>2 DEF Close, SessionEnds
  <2> QED
    BY <1>2, <2>1, ResultIsUsedTyped DEF Close, SessionEnds, Typed
<1>3. CASE TimesOut
  BY <1>3, NoLoopTyped DEF TimesOut, SessionEnds, LocalsEnd, Typed, Places
<1>4. CASE SendHello
  <2>1. Request("Hello", 0, 0) \in Requests
    BY DEF Request, Requests
  <2>2. toDevice' \in Seq(Requests)
    BY <1>4, <2>1, SendsTyped DEF SendHello, Typed
  <2> QED
    BY <1>4, <2>2, ResultIsUsedTyped DEF SendHello, Typed, Places
<1>5. CASE SendHello_Returns
  <2>1. rx' \in Seq(Packets) /\ Received \in Packets
    BY <1>5, ReceivesTyped DEF SendHello_Returns, Typed
  <2>2. maxBlock' \in BlockSizes \cup {0, MaxData}
    BY <1>5, <2>1, ReceivedBlockSize DEF SendHello_Returns, Typed
  <2>3. mustClose' \in BOOLEAN /\ negotiated' \in BOOLEAN
    BY <1>5 DEF SendHello_Returns, Typed
  <2> QED
    BY <1>5, <2>1, <2>2, <2>3 DEF SendHello_Returns, Typed, Places
<1>6. ASSUME NEW m \in Methods, Call(m)
      PROVE  Typed'
  <2>1. wanted' \in Modes \cup {NoMode} /\ opened' \in Modes \cup {NoMode}
    BY <1>6 DEF Call, Typed
  <2>2. PICK request \in Requests : request = Request(Method[m][1], 0, wanted')
    BY <2>1, MethodRequest
  <2>3. toDevice' \in Seq(Requests)
    BY <1>6, <2>2, SendsTyped DEF Call, Typed
  <2> QED
    BY <1>6, <2>1, <2>3, ResultIsUsedTyped, MethodNames DEF Call, Typed, Places
<1>7. ASSUME NEW m \in Methods, Call_Returns(m)
      PROVE  Typed'
  <2>1. rx' \in Seq(Packets)
    BY <1>7, ReceivesTyped DEF Call_Returns, Typed
  <2>2. opened' \in Modes \cup {NoMode}
    BY <1>7 DEF Call_Returns, Typed
  <2>3. mustClose' \in BOOLEAN
    <3>1. (m \in {"sendReset", "sendPowerOff"}) \in BOOLEAN
      OBVIOUS
    <3>2. (Method[m][3] = "throws" \/ m \notin Ignored) \in BOOLEAN
      OBVIOUS
    <3>3. \/ mustClose' = (m \in {"sendReset", "sendPowerOff"})
          \/ mustClose' = (Method[m][3] = "throws" \/ m \notin Ignored)
      BY <1>7, Zenon DEF Call_Returns
    <3> QED
      BY <3>1, <3>2, <3>3, Zenon
  <2> QED
    BY <1>7, <2>1, <2>2, <2>3 DEF Call_Returns, Typed, Places
<1> QED
  BY <1>1, <1>2, <1>3, <1>4, <1>5, <1>6, <1>7
LEMMA BeginsTyped ==
  ASSUME Typed, NEW newJob, NEW at \in {"file", "read", "write"},
         newJob.data \in Seq(Int), Begins(newJob, at),
         loop' \in Loops, file' \in Loops,
         UNCHANGED <<out, written>>,
         at = "write" => Len(newJob.data) = loop'.amount
  PROVE  Typed'
<1>1. job' = newJob /\ pc' = at /\ result' \in Seq(Int)
  BY DEF Begins
<1> QED
  BY <1>1 DEF Begins, Typed, Places, sessionVars, deviceVars

LEMMA ReturnsTyped ==
  ASSUME Typed, NEW data \in Seq(Int), Returns(data)
  PROVE  Typed'
BY NoLoopTyped
   DEF Returns, LocalsEnd, Typed, Places, sessionVars, deviceVars

LEMMA ThrowsTyped ==
  ASSUME Typed, Throws, UNCHANGED <<result, toDevice, deviceVars, job>>,
         rx' \in Seq(Packets)
  PROVE  Typed'
BY NoLoopTyped DEF Throws, LocalsEnd, Typed, Places, deviceVars

LEMMA BeginningsTyped ==
  ASSUME Typed, ReadFlash \/ ReadFlashToFile \/ WriteFlash
  PROVE  Typed'
<1>1. ASSUME NEW r \in Reads
      PROVE  /\ ReadLoop(r.lba, r.amount) \in Loops
             /\ ReadJob(r).data \in Seq(Int)
  BY TransfersAssumption, ReadLoopTyped DEF ReadJob, Typed
<1>2. CASE ReadFlash
  <2>1. PICK r \in Reads : /\ Begins(ReadJob(r), "read")
                           /\ loop' = ReadLoop(r.lba, r.amount)
                           /\ UNCHANGED <<out, file, written>>
    BY <1>2 DEF ReadFlash
  <2>2. PICK newJob : newJob = ReadJob(r)
    OBVIOUS
  <2>3. loop' \in Loops /\ file' \in Loops
    BY <1>1, <2>1 DEF Typed
  <2>4. newJob.data \in Seq(Int)
    BY <1>1, <2>2
  <2> QED
    BY <2>1, <2>2, <2>3, <2>4, BeginsTyped
<1>3. CASE ReadFlashToFile
  <2>1. PICK r \in Reads : /\ Begins(ReadJob(r), "file")
                           /\ file' = ReadLoop(r.lba, r.amount)
                           /\ UNCHANGED <<loop, out, written>>
    BY <1>3 DEF ReadFlashToFile
  <2>2. PICK newJob : newJob = ReadJob(r)
    OBVIOUS
  <2>3. loop' \in Loops /\ file' \in Loops
    BY <1>1, <2>1 DEF Typed
  <2>4. newJob.data \in Seq(Int)
    BY <1>1, <2>2
  <2> QED
    BY <2>1, <2>2, <2>3, <2>4, BeginsTyped
<1>4. CASE WriteFlash
  <2>1. PICK w \in Writes :
          /\ Begins([op |-> "write", base |-> w.lba * SectorSize,
                     amount |-> w.amount, data |-> WriteData(w)], "write")
          /\ loop' = [lba |-> w.lba, amount |-> w.amount,
                      step |-> StepFor(w.amount), total |-> 0, blocks |-> 0]
          /\ UNCHANGED <<out, file, written>>
    BY <1>4 DEF WriteFlash
  <2>2. PICK newJob :
          newJob = [op |-> "write", base |-> w.lba * SectorSize,
                    amount |-> w.amount, data |-> WriteData(w)]
    OBVIOUS
  <2>3. w.lba \in Nat /\ w.amount \in Nat
    BY TransfersAssumption
  <2>4. WriteData(w) \in Seq(Int) /\ Len(WriteData(w)) = w.amount
    <3>1. PICK base \in Nat : base = w.lba * SectorSize
      BY <2>3, SizesAssumption
    <3>2. WriteData(w) = [i \in 1 .. w.amount |-> 100 + base + i]
      BY <3>1 DEF WriteData
    <3> QED
      BY <2>3, <3>2
  <2>5. newJob.data \in Seq(Int) /\ Len(newJob.data) = loop'.amount
    BY <2>1, <2>2, <2>4
  <2>6. StepFor(w.amount) \in Nat
    BY <2>3, ChunkTyped DEF Typed
  <2>7. loop' \in Loops /\ file' \in Loops
    BY <2>1, <2>3, <2>6 DEF Typed, Loops
  <2> QED
    BY <2>1, <2>2, <2>5, <2>7, BeginsTyped
<1> QED
  BY <1>2, <1>3, <1>4

LEMMA ReadsTyped ==
  ASSUME Typed, File_Turn \/ Read_Turn \/ Read_Returns
  PROVE  Typed'
<1> USE DEF sessionVars, loopVars, deviceVars, storeVars
<1>0. /\ loop.lba \in Nat /\ loop.amount \in Nat /\ loop.step \in Nat
      /\ loop.total \in Nat /\ loop.blocks \in Nat
      /\ file.lba \in Nat /\ file.amount \in Nat /\ file.step \in Nat
      /\ file.total \in Nat /\ file.blocks \in Nat
  BY DEF Typed, Loops
<1>1. CASE File_Turn
  <2>1. CASE file.total < file.amount
    <3>1. PICK step \in Nat :
            step = Least(file.step, file.amount - file.total)
      BY <1>0, <2>1 DEF Least
    <3>2. /\ file' = [file EXCEPT !.step = step]
          /\ loop' = ReadLoop(file.lba + file.blocks, step)
          /\ out' = <<>>
          /\ pc' = "read"
          /\ UNCHANGED <<sessionVars, written, toDevice, rx, deviceVars,
                         storeVars>>
      BY <1>0, <1>1, <2>1, <3>1 DEF File_Turn
    <3>3. file' \in Loops
      BY <3>2 DEF Typed, Loops
    <3>4. loop' \in Loops
      <4>1. PICK lba \in Nat : lba = file.lba + file.blocks
        BY <1>0
      <4> QED
        BY <3>2, <4>1, ReadLoopTyped DEF Typed
    <3> QED
      BY <3>2, <3>3, <3>4 DEF Typed, Places
  <2>2. CASE ~(file.total < file.amount)
    <3>1. Returns(written)
      BY <1>0, <1>1, <2>2 DEF File_Turn
    <3> QED
      BY <3>1, ReturnsTyped DEF Typed
  <2> QED
    BY <2>1, <2>2
<1>2. CASE Read_Turn
  <2>1. CASE loop.total < loop.amount
    <3>1. PICK size \in Nat : size = loop.step % LengthLimit
      BY <1>0, SizesAssumption
    <3>2. PICK request : 
            request = Request("Read", loop.lba + loop.blocks, size)
      OBVIOUS
    <3>3. request \in Requests
      BY <1>0, <3>1, <3>2 DEF Request, Requests
    <3>4. Sends(request) /\ pc' = "readAnswer"
          /\ UNCHANGED <<sessionVars, loopVars, rx, deviceVars, storeVars>>
      BY <1>0, <1>2, <2>1, <3>1, <3>2 DEF Read_Turn
    <3>5. toDevice' \in Seq(Requests)
      BY <3>3, <3>4, SendsTyped DEF Typed
    <3> QED
      BY <3>4, <3>5 DEF Typed, Places
  <2>2. CASE Returns(out)
    BY <2>2, ReturnsTyped DEF Typed
  <2>3. CASE /\ written' = written \o out
             /\ file' = Advanced(file, Len(out))
             /\ pc' = "file"
             /\ UNCHANGED <<sessionVars, loop, out, toDevice, rx, deviceVars,
                            storeVars>>
    <3>1. file' \in Loops
      BY <2>3, AdvancedTyped DEF Typed
    <3>2. written' \in Seq(Int)
      BY <2>3 DEF Typed
    <3> QED
      BY <2>3, <3>1, <3>2 DEF Typed, Places
  <2> QED
    BY <1>0, <1>2, <2>1, <2>2, <2>3 DEF Read_Turn
<1>3. CASE Read_Returns
  <2>1. rx' \in Seq(Packets) /\ Received \in Packets
    BY <1>3, ReceivesTyped DEF Read_Returns, Typed
  <2>2. CASE ~IsData(Received)
    <3>1. Throws /\ UNCHANGED <<result, toDevice, deviceVars, job>>
      BY <1>3, <2>2 DEF Read_Returns
    <3> QED
      BY <2>1, <3>1, ThrowsTyped
  <2>3. CASE IsData(Received)
    <3>1. PICK n \in Trailers :
            /\ out' = out \o WithTrailer(Received.arg, n)
            /\ loop' = Advanced(loop, Len(WithTrailer(Received.arg, n)))
      BY <1>3, <2>3 DEF Read_Returns
    <3>2. PICK data \in Seq(Int) : data = WithTrailer(Received.arg, n)
      BY <2>1, <2>3, ReceivedData, TrailerTyped DEF IsData
    <3>3. out' \in Seq(Int)
      BY <3>1, <3>2 DEF Typed
    <3>4. loop' \in Loops
      BY <3>1, <3>2, AdvancedTyped DEF Typed
    <3>5. /\ pc' = "read"
          /\ UNCHANGED <<sessionVars, file, written, status, result, toDevice,
                         deviceVars, job>>
      BY <1>3, <2>3 DEF Read_Returns
    <3> QED
      BY <2>1, <3>3, <3>4, <3>5 DEF Typed, Places
  <2> QED
    BY <2>2, <2>3
<1> QED
  BY <1>1, <1>2, <1>3

LEMMA WritesTyped ==
  ASSUME Typed, Write_Turn \/ Write_Returns
  PROVE  Typed'
<1> USE DEF sessionVars, loopVars, deviceVars, storeVars
<1>0. /\ loop.lba \in Nat /\ loop.amount \in Nat /\ loop.step \in Nat
      /\ loop.total \in Nat /\ loop.blocks \in Nat
  BY DEF Typed, Loops
<1>1. CASE Write_Turn
  <2>1. CASE loop.total < loop.amount
    <3>1. PICK step \in Nat :
            step = Least(loop.step, loop.amount - loop.total)
      BY <1>0, <2>1 DEF Least
    <3>2. step <= loop.amount - loop.total /\ Len(job.data) = loop.amount
      BY <1>0, <1>1, <2>1, <3>1 DEF Least, Write_Turn, Typed
    <3>3. PICK part :
            part = SubSeq(job.data, loop.total + 1, loop.total + step)
      OBVIOUS
    <3>4. part \in Seq(Int)
      <4>1. job.data \in Seq(Int)
        BY DEF Typed
      <4>2. \A i \in loop.total + 1 .. loop.total + step :
              i \in 1 .. Len(job.data)
        BY <1>0, <2>1, <3>2
      <4>3. \A i \in loop.total + 1 .. loop.total + step :
              job.data[i] \in Int
        BY <4>1, <4>2
      <4>4. PICK first \in Int, last \in Int :
              first = loop.total + 1 /\ last = loop.total + step
        BY <1>0
      <4>5. SubSeq(job.data, first, last) \in Seq(Int)
        BY <4>3, <4>4, SubSeqProperties
      <4> QED
        BY <3>3, <4>4, <4>5
    <3>5. PICK request :
            request = Request("StreamWrite", loop.lba + loop.blocks, part)
      OBVIOUS
    <3>6. request \in Requests
      BY <1>0, <3>4, <3>5 DEF Request, Requests
    <3>7. /\ loop' = [loop EXCEPT !.step = step]
          /\ Sends(request)
          /\ pc' = "writeAnswer"
          /\ UNCHANGED <<sessionVars, out, file, written, rx, deviceVars,
                         storeVars>>
      BY <1>0, <1>1, <2>1, <3>1, <3>3, <3>5 DEF Write_Turn
    <3>8. toDevice' \in Seq(Requests)
      BY <3>6, <3>7, SendsTyped DEF Typed
    <3>9. loop' \in Loops /\ loop'.amount = loop.amount
      BY <3>7 DEF Typed, Loops
    <3> QED
      BY <3>2, <3>7, <3>8, <3>9 DEF Typed, Places
  <2>2. CASE ~(loop.total < loop.amount)
    <3>1. Returns(result)
      BY <1>0, <1>1, <2>2 DEF Write_Turn
    <3> QED
      BY <3>1, ReturnsTyped DEF Typed
  <2> QED
    BY <2>1, <2>2
<1>2. CASE Write_Returns
  <2>1. rx' \in Seq(Packets)
    BY <1>2, ReceivesTyped DEF Write_Returns, Typed
  <2>2. CASE ~IsBlockWritten(Received)
    <3>1. Throws /\ UNCHANGED <<result, toDevice, deviceVars, job>>
      BY <1>2, <2>2 DEF Write_Returns
    <3> QED
      BY <2>1, <3>1, ThrowsTyped
  <2>3. CASE IsBlockWritten(Received)
    <3>1. /\ loop' = Advanced(loop, loop.step)
          /\ pc = "writeAnswer"
          /\ pc' = "write"
          /\ UNCHANGED <<sessionVars, out, file, written, status, toDevice,
                         deviceVars, job, result>>
      BY <1>2, <2>3 DEF Write_Returns
    <3>2. loop' \in Loops /\ loop'.amount = loop.amount
      BY <1>0, <3>1, AdvancedTyped DEF Typed
    <3> QED
      BY <2>1, <3>1, <3>2 DEF Typed, Places
  <2> QED
    BY <2>2, <2>3
<1> QED
  BY <1>1, <1>2
LEMMA AnswersTyped ==
  ASSUME Typed, NEW cmd \in Commands, Says(Answer(AnswerTo(cmd), 0, 0))
  PROVE  rx' \in Seq(Packets)
<1>1. PICK packet \in Packets : packet = Answer(AnswerTo(cmd), 0, 0)
  BY CommandAnswered, MethodAnswer
<1> QED
  BY <1>1, SaysTyped DEF Typed

LEMMA DeviceStepsTyped ==
  ASSUME Typed, DeviceStep
  PROVE  Typed'
<1> USE DEF hostVars, sessionVars, loopVars, deviceVars, storeVars
<1>0. Takes /\ UNCHANGED <<hostVars, logs, preferred, storeVars>>
  BY DEF DeviceStep, Takes_Hello, Takes_Open, Takes_Close, Takes_Erase,
         Takes_Other, Takes_Read, Takes_Write, Takes_Refusing
<1>1. toDevice' \in Seq(Requests) /\ Taken \in Requests
  BY <1>0, TakesTyped DEF Typed
<1> SUFFICES /\ rx' \in Seq(Packets)
             /\ flash' \in [Units -> Int]
             /\ deviceMode' \in Modes \cup {NoMode}
  BY <1>0, <1>1 DEF Typed, Places
<1>2. Refuses => rx' \in Seq(Packets)
  BY RefusesTyped DEF Typed
<1>3. CASE Takes_Hello
  <2>1. PICK extent \in {"whole", "short"} :
          Says(Answer("HelloResponse", preferred, extent))
    BY <1>3 DEF Takes_Hello
  <2>2. PICK packet : packet = Answer("HelloResponse", preferred, extent)
    OBVIOUS
  <2>3. packet \in Packets
    BY <2>2 DEF Typed, Answer, Packets
  <2>4. rx' \in Seq(Packets)
    BY <2>1, <2>2, <2>3, SaysTyped DEF Typed
  <2> QED
    BY <1>3, <2>4 DEF Takes_Hello, Typed
<1>4. CASE Takes_Open
  <2>1. Taken.arg \in Modes \cup {NoMode} /\ Taken.cmd \in Commands
    BY <1>1, <1>4, TakenMode DEF Takes_Open
  <2>2. rx' \in Seq(Packets)
    BY <1>2, <1>4, <2>1, AnswersTyped DEF Takes_Open
  <2> QED
    BY <1>4, <2>1, <2>2 DEF Takes_Open, Typed
<1>5. CASE Takes_Close
  <2>1. Taken.cmd \in Commands
    BY <1>1, <1>5 DEF Takes_Close, Requests
  <2>2. rx' \in Seq(Packets)
    BY <1>5, <2>1, AnswersTyped DEF Takes_Close
  <2> QED
    BY <1>5, <2>2 DEF Takes_Close, Typed
<1>6. CASE Takes_Erase
  <2>1. "FlashErased" \in {Method[m][2] : m \in Methods}
    BY MethodNames DEF Method
  <2>2. PICK packet \in Packets : packet = Answer("FlashErased", 0, 0)
    BY <2>1, MethodAnswer
  <2>3. rx' \in Seq(Packets)
    BY <1>6, <2>2, SaysTyped DEF Takes_Erase, Typed
  <2>4. flash' \in [Units -> Int]
    BY <1>6 DEF Takes_Erase, Typed, Store!Erased
  <2> QED
    BY <1>6, <2>3, <2>4 DEF Takes_Erase, Typed
<1>7. CASE Takes_Other
  <2>1. Taken.cmd \in Commands
    BY <1>7 DEF Takes_Other, Commands
  <2>2. rx' \in Seq(Packets)
    BY <1>7, <2>1, AnswersTyped DEF Takes_Other
  <2> QED
    BY <1>7, <2>2 DEF Takes_Other, Typed
<1>8. CASE Takes_Read
  <2>1. Taken.address \in Nat /\ Taken.arg \in Nat
    BY <1>1, <1>8, TakenRead DEF Takes_Read
  <2>2. CASE InFlash(Taken.address, Taken.arg) /\ ~Refuses
    <3>1. PICK data \in Seq(Int) :
            data = Store!Contents(flash, Taken.address * SectorSize, Taken.arg)
      BY <2>1, <2>2, ContentsTyped DEF Typed
    <3>2. PICK packet : packet = Answer("ReadData", Taken.address, data)
      OBVIOUS
    <3>3. packet \in Packets
      BY <2>1, <3>2 DEF Answer, Packets
    <3>4. Says(packet)
      BY <1>8, <2>2, <3>1, <3>2 DEF Takes_Read
    <3> QED
      BY <1>8, <3>3, <3>4, SaysTyped DEF Takes_Read, Typed
  <2>3. CASE Refuses
    BY <1>2, <1>8, <2>3 DEF Takes_Read, Typed
  <2> QED
    BY <1>8, <2>2, <2>3 DEF Takes_Read
<1>9. CASE Takes_Write
  <2>1. Taken.address \in Nat /\ Taken.arg \in Seq(Int)
    BY <1>1, <1>9, TakenWrite DEF Takes_Write
  <2>2. CASE ~Refuses
    <3>1. PICK base \in Nat : base = Taken.address * SectorSize
      BY <2>1, SizesAssumption
    <3>2. /\ flash' = Store!Overlay(flash, base, Taken.arg)
          /\ Says(Answer("BlockWritten", Taken.address, 0))
          /\ deviceMode' = deviceMode
      BY <1>9, <2>2, <3>1 DEF Takes_Write
    <3>3. flash' \in [Units -> Int]
      BY <2>1, <3>2, OverlayTyped DEF Typed
    <3>4. PICK packet : packet = Answer("BlockWritten", Taken.address, 0)
      OBVIOUS
    <3>5. packet \in Packets
      BY <2>1, <3>4 DEF Answer, Packets
    <3>6. rx' \in Seq(Packets)
      BY <3>2, <3>4, <3>5, SaysTyped DEF Typed
    <3> QED
      BY <3>2, <3>3, <3>6 DEF Typed
  <2>3. CASE Refuses
    <3>1. flash' \in [Units -> Int]
      <4>1. PICK base \in Nat : base = Taken.address * SectorSize
        BY <2>1, SizesAssumption
      <4>2. flash' = Store!Overlay(flash, base, Taken.arg) \/ flash' = flash
        BY <1>9, <4>1 DEF Takes_Write
      <4> QED
        BY <2>1, <4>2, OverlayTyped DEF Typed
    <3> QED
      BY <1>2, <1>9, <2>3, <3>1 DEF Takes_Write, Typed
  <2> QED
    BY <2>2, <2>3
<1>10. CASE Takes_Refusing
  BY <1>2, <1>10 DEF Takes_Refusing, Typed
<1> QED
  BY <1>3, <1>4, <1>5, <1>6, <1>7, <1>8, <1>9, <1>10 DEF DeviceStep

LEMMA SendsLogTyped ==
  ASSUME Typed, SendsLog
  PROVE  Typed'
<1>1. PICK packet \in Packets : packet = Answer("Log", 0, 0)
  BY MethodAnswer
<1>2. rx' \in Seq(Packets)
  BY <1>1, SaysTyped DEF SendsLog, Typed
<1>3. logs' \in 0 .. MaxLogs
  BY DloadFaultsAssumption DEF SendsLog, Typed
<1> QED
  BY <1>2, <1>3
     DEF SendsLog, Typed, hostVars, sessionVars, loopVars, storeVars

LEMMA StepTyped == Typed /\ [Next]_vars => Typed'
<1> SUFFICES ASSUME Typed, [Next]_vars
             PROVE  Typed'
  OBVIOUS
<1>1. CASE HostStep
  BY <1>1, SessionStepsTyped, ReadsTyped, WritesTyped DEF HostStep
<1>2. CASE UNCHANGED vars
  BY <1>2 DEF Typed, vars, hostVars, sessionVars, loopVars, deviceVars,
              storeVars
<1> QED
  BY <1>1, <1>2, SessionStepsTyped, BeginningsTyped, DeviceStepsTyped,
     SendsLogTyped DEF Next

(* The types, of the packets too, are an inductive invariant. *)
THEOREM AlwaysTyped == Spec => []Typed
<1>1. Init => Typed
  BY InitTyped
<1>2. Typed /\ [Next]_vars => Typed'
  BY StepTyped
<1> QED
  BY <1>1, <1>2, PTL DEF Spec

(* Every variable of program, line and device keeps its type, for every set *)
(* of modes, transfers, block sizes and faults: what is cut out of the      *)
(* data to write is within it, and no read leaves the flash.                *)
THEOREM DloadTypeCorrect == Spec => []TypeOK
<1>1. Typed => TypeOK
  <2> SUFFICES ASSUME Typed PROVE TypeOK
    OBVIOUS
  <2>1. DOMAIN flash = 0 .. Sectors * SectorSize - 1
    BY DEF Typed, Units
  <2>2. mustClose \in BOOLEAN /\ negotiated \in BOOLEAN
    BY DEF Typed
  <2>3. {mustClose, negotiated} \subseteq BOOLEAN
    BY <2>2, Zenon
  <2> QED
    BY <2>1, <2>3 DEF Typed, TypeOK, Places, Loops
<1> QED
  BY <1>1, AlwaysTyped, PTL
----------------------------------------------------------------------------
(* What the program believes to be open is open.                            *)

(* What the theorem asks of the program and the port.  A program does not   *)
(* ignore that a mode was not opened; and at most one request is unhandled  *)
(* when the port is opened.  With two, an earlier session may have left a   *)
(* hello and an openMode behind it: the hello is answered for this session, *)
(* and the answer of the other is taken for the first openMode's.           *)
OpenCalls == {"openMode", "openMultiImage"}
HeedsOpening == Ignored \cap OpenCalls = {}
OneLate == MaxLate <= 1

(* The requests a program may go on without the answer of, and the answers  *)
(* that are therefore left in the line.                                     *)
Mild == {"Hello", "Unlock", "SecurityMode", "SetEcc", "Close"}
MildAnswers == {"HelloResponse", "Unlocked", "SecurityModeReceived",
                "SetEccResponse", "Closed", "Log", "Error"}
Closing == {"Close", "Reset", "PowerOff"}

Negotiating == port = "open" /\ ~mustClose /\ ~negotiated
InSession == port = "open" /\ ~mustClose /\ negotiated

(* The pipe is the answers that wait and, behind them, the requests.        *)
(* While a session is negotiated, whatever is not of a hello is the first   *)
(* thing the host will hear, but for logs, so that the hello fails over it. *)
StaleFirst ==
  Negotiating =>
    /\ \A i \in DOMAIN toDevice : toDevice[i].cmd # "Hello" =>
         i = 1 /\ \A j \in DOMAIN rx : rx[j].cmd = "Log"
    /\ \A i \in DOMAIN rx :
         rx[i].cmd \notin {"HelloResponse", "Error", "Log"} =>
           \A j \in 1 .. i - 1 : rx[j].cmd = "Log"

OwnRequest(p) ==
  \/ pc \in Methods /\ p.cmd = Method[pc][1] /\ p.arg = wanted
  \/ pc = "readAnswer" /\ p.cmd = "Read"
  \/ pc = "writeAnswer" /\ p.cmd = "StreamWrite"

OwnAnswer(p) ==
  \/ /\ pc \in Methods
     /\ p.cmd = Method[pc][2]
     /\ pc \in OpenCalls => deviceMode = wanted
  \/ pc = "readAnswer" /\ p.cmd = "ReadData"
  \/ pc = "writeAnswer" /\ p.cmd = "BlockWritten"

(* Within a session what is not mild is the running call's own, and nothing *)
(* that is not mild is behind it in the pipe.                               *)
OwnLast ==
  InSession =>
    /\ \A i \in DOMAIN toDevice :
         \/ toDevice[i].cmd \in Mild
         \/ i = Len(toDevice) /\ OwnRequest(toDevice[i])
    /\ \A i \in DOMAIN rx :
         \/ rx[i].cmd \in MildAnswers
         \/ /\ OwnAnswer(rx[i])
            /\ toDevice = <<>>
            /\ \A j \in i + 1 .. Len(rx) : rx[j].cmd \in MildAnswers

(* A mode the program believes to be open is, and nothing in the pipe will  *)
(* close it.                                                                *)
ModeKept ==
  InSession /\ opened # NoMode =>
    /\ deviceMode = opened
    /\ \A i \in DOMAIN toDevice : toDevice[i].cmd \notin Closing

(* Where a call can be running, and what a session starts with. *)
Calm ==
  /\ port = "closed" => pc = "idle" /\ rx = <<>> /\ ~mustClose /\ ~negotiated
  /\ ~negotiated => pc \in {"idle", "sendHello"} /\ opened = NoMode
  /\ mustClose => pc = "idle"

SessionInv == StaleFirst /\ OwnLast /\ ModeKept /\ Calm

(* Between the calls, or while one waits for nothing of its own, all that   *)
(* is in the pipe is mild.                                                  *)
LEMMA NothingOwn ==
  ASSUME OwnLast, InSession,
         pc \notin Methods \cup {"readAnswer", "writeAnswer"}
  PROVE  /\ \A i \in DOMAIN toDevice : toDevice[i].cmd \in Mild
         /\ \A i \in DOMAIN rx : rx[i].cmd \in MildAnswers
BY DEF OwnLast, OwnRequest, OwnAnswer

LEMMA AllMildIsOwnLast ==
  ASSUME InSession' => /\ \A i \in DOMAIN toDevice' : toDevice'[i].cmd \in Mild
                       /\ \A i \in DOMAIN rx' : rx'[i].cmd \in MildAnswers
  PROVE  OwnLast'
BY DEF OwnLast

(* Nothing is said of a session that has ended. *)
LEMMA EndedSession ==
  ASSUME port' = "closed" \/ (mustClose' = TRUE /\ port = "open")
  PROVE  StaleFirst' /\ OwnLast' /\ ModeKept'
BY DEF StaleFirst, OwnLast, ModeKept, Negotiating, InSession

LEMMA HostInSession ==
  ASSUME Typed, Calm, pc \notin {"idle", "sendHello"}
  PROVE  InSession /\ port = "open" /\ negotiated /\ ~mustClose
BY DEF Calm, InSession, Typed

(* The line grows at one end and shrinks at the other. *)
LEMMA Shorter ==
  ASSUME NEW S, NEW s \in Seq(S), s # <<>>
  PROVE  /\ Len(Tail(s)) = Len(s) - 1
         /\ \A i \in 1 .. Len(Tail(s)) : Tail(s)[i] = s[i + 1] /\ i + 1 \in 1 .. Len(s)
         /\ DOMAIN Tail(s) = 1 .. Len(Tail(s))
         /\ DOMAIN s = 1 .. Len(s)
         /\ 1 \in 1 .. Len(s)
         /\ Head(s) = s[1]
OBVIOUS

LEMMA Longer ==
  ASSUME NEW S, NEW s \in Seq(S), NEW e
  PROVE  /\ Len(Append(s, e)) = Len(s) + 1
         /\ \A i \in 1 .. Len(s) : Append(s, e)[i] = s[i]
         /\ Append(s, e)[Len(s) + 1] = e
         /\ DOMAIN Append(s, e) = 1 .. Len(s) + 1
         /\ DOMAIN s = 1 .. Len(s)
OBVIOUS
LEMMA ReceivesShortens ==
  ASSUME Typed, Receives
  PROVE  /\ 1 \in DOMAIN rx /\ Received = rx[1]
         /\ \A i \in DOMAIN rx' : rx'[i] = rx[i + 1] /\ i + 1 \in DOMAIN rx
         /\ DOMAIN rx' = 1 .. Len(rx') /\ Len(rx') = Len(rx) - 1
         /\ DOMAIN rx = 1 .. Len(rx)
BY Shorter DEF Receives, Received, Typed

LEMMA TakesShortens ==
  ASSUME Typed, Takes
  PROVE  /\ 1 \in DOMAIN toDevice /\ Taken = toDevice[1] /\ toDevice # <<>>
         /\ \A i \in DOMAIN toDevice' :
              toDevice'[i] = toDevice[i + 1] /\ i + 1 \in DOMAIN toDevice
         /\ DOMAIN toDevice' = 1 .. Len(toDevice')
         /\ Len(toDevice') = Len(toDevice) - 1
         /\ DOMAIN toDevice = 1 .. Len(toDevice)
BY Shorter DEF Takes, Taken, Typed

LEMMA SendsLengthens ==
  ASSUME Typed, NEW request, Sends(request)
  PROVE  /\ DOMAIN toDevice = 1 .. Len(toDevice)
         /\ DOMAIN toDevice' = 1 .. Len(toDevice) + 1
         /\ Len(toDevice') = Len(toDevice) + 1
         /\ \A i \in DOMAIN toDevice : toDevice'[i] = toDevice[i]
         /\ toDevice'[Len(toDevice) + 1] = request
BY Longer DEF Sends, Typed

LEMMA SaysLengthens ==
  ASSUME Typed, NEW packet, Says(packet), port = "open"
  PROVE  /\ DOMAIN rx = 1 .. Len(rx)
         /\ DOMAIN rx' = 1 .. Len(rx) + 1
         /\ Len(rx') = Len(rx) + 1
         /\ \A i \in DOMAIN rx : rx'[i] = rx[i]
         /\ rx'[Len(rx) + 1] = packet
BY Longer DEF Says, Typed

LEMMA SessionStarts ==
  ASSUME Typed, SessionInv, OneLate, Open \/ Close \/ TimesOut
  PROVE  SessionInv'
<1> USE DEF SessionInv
<1>1. CASE Open
  <2>1. port' = "open" /\ ~mustClose' /\ ~negotiated' /\ pc' = "idle"
    BY <1>1 DEF Open, Calm
  <2>2. rx' = <<>> /\ Len(toDevice') <= 1 /\ toDevice' \in Seq(Requests)
    BY <1>1, DloadFaultsAssumption DEF Open, Calm, OneLate, Typed
  <2>3. DOMAIN toDevice' = 1 .. Len(toDevice') /\ DOMAIN rx' = {}
    BY <2>2
  <2>4. StaleFirst'
    BY <2>2, <2>3 DEF StaleFirst
  <2>5. OwnLast' /\ ModeKept'
    BY <2>1 DEF OwnLast, ModeKept, InSession
  <2>6. Calm'
    BY <1>1, <2>1 DEF Open, Calm
  <2> QED
    BY <2>4, <2>5, <2>6
<1>2. CASE Close \/ TimesOut
  <2>1. pc' = "idle" /\ SessionEnds
    BY <1>2 DEF Close, TimesOut
  <2>2. Calm'
    BY <2>1 DEF SessionEnds, Calm
  <2> QED
    BY <2>1, <2>2, EndedSession DEF SessionEnds
<1> QED
  BY <1>1, <1>2

LEMMA SendHelloInSession ==
  ASSUME Typed, SessionInv, SendHello
  PROVE  SessionInv'
<1> USE DEF SessionInv, sessionVars
<1> DEFINE hello == Request("Hello", 0, 0)
<1>1. /\ port = "open" /\ ~mustClose /\ pc = "idle" /\ Sends(hello)
      /\ pc' = "sendHello"
      /\ UNCHANGED <<port, mustClose, negotiated, opened, rx, deviceMode>>
  BY DEF SendHello, Running, deviceVars
<1>2. hello.cmd = "Hello"
  BY DEF Request
<1> HIDE DEF hello
<1>3. \A i \in DOMAIN toDevice' :
        \/ toDevice'[i].cmd = "Hello"
        \/ i \in DOMAIN toDevice /\ toDevice'[i] = toDevice[i]
  <2>1. \A i \in DOMAIN toDevice' :
          \/ i \in DOMAIN toDevice /\ toDevice'[i] = toDevice[i]
          \/ toDevice'[i] = hello
    BY <1>1, SendsLengthens
  <2> QED
    BY <1>2, <2>1
<1>4. StaleFirst'
  BY <1>1, <1>3 DEF StaleFirst, Negotiating
<1>5. OwnLast'
  <2> SUFFICES ASSUME InSession
               PROVE  /\ \A i \in DOMAIN toDevice' : toDevice'[i].cmd \in Mild
                      /\ \A i \in DOMAIN rx' : rx'[i].cmd \in MildAnswers
    BY <1>1, AllMildIsOwnLast DEF InSession
  <2>1. /\ \A i \in DOMAIN toDevice : toDevice[i].cmd \in Mild
        /\ \A i \in DOMAIN rx : rx[i].cmd \in MildAnswers
    BY <1>1, NothingOwn, MethodNames
  <2> QED
    BY <1>1, <1>3, <2>1 DEF Mild
<1>6. ModeKept'
  BY <1>1, <1>3 DEF ModeKept, InSession, Closing
<1>7. Calm'
  BY <1>1 DEF Calm
<1> QED
  BY <1>4, <1>5, <1>6, <1>7

LEMMA SendHelloReturnsInSession ==
  ASSUME Typed, SessionInv, SendHello_Returns
  PROVE  SessionInv'
<1> USE DEF SessionInv
<1>1. /\ pc = "sendHello" /\ pc' = "idle" /\ Receives
      /\ UNCHANGED <<port, opened, toDevice, deviceMode>>
  BY DEF SendHello_Returns, deviceVars
<1>2. port = "open" /\ ~mustClose
  BY <1>1 DEF Calm, Typed
<1>3. CASE mustClose' = TRUE
  <2>1. UNCHANGED negotiated
    BY <1>3, <1>2 DEF SendHello_Returns
  <2>2. Calm'
    BY <1>1, <1>2, <2>1 DEF Calm
  <2> QED
    BY <1>2, <1>3, <2>2, EndedSession
<1>4. CASE mustClose' # TRUE
  <2>1. Received.cmd = "HelloResponse" /\ negotiated' = TRUE /\ ~mustClose'
    BY <1>2, <1>4 DEF SendHello_Returns
  <2>2. rx[1].cmd = "HelloResponse" /\ 1 \in DOMAIN rx
    BY <1>1, <2>1, ReceivesShortens
  <2>3. /\ \A i \in DOMAIN toDevice : toDevice[i].cmd \in Mild
        /\ \A i \in DOMAIN rx : rx[i].cmd \in MildAnswers
    <3>1. CASE negotiated
      BY <1>1, <1>2, <3>1, NothingOwn, MethodNames DEF InSession
    <3>2. CASE ~negotiated
      <4>1. Negotiating
        BY <1>2, <3>2 DEF Negotiating
      <4>2. \A i \in DOMAIN toDevice : toDevice[i].cmd = "Hello"
        BY <2>2, <4>1 DEF StaleFirst
      <4>3. \A i \in DOMAIN rx :
              rx[i].cmd \in {"HelloResponse", "Error", "Log"}
        <5> SUFFICES ASSUME NEW i \in DOMAIN rx,
                            rx[i].cmd \notin {"HelloResponse", "Error", "Log"}
                     PROVE  FALSE
          OBVIOUS
        <5>1. 1 \in 1 .. i - 1
          BY <1>1, <2>2, ReceivesShortens
        <5> QED
          BY <2>2, <4>1, <5>1 DEF StaleFirst
      <4> QED
        BY <4>2, <4>3 DEF Mild, MildAnswers
    <3> QED
      BY <3>1, <3>2
  <2>4. OwnLast'
    BY <1>1, <2>3, ReceivesShortens, AllMildIsOwnLast
  <2>5. StaleFirst'
    BY <2>1 DEF StaleFirst, Negotiating
  <2>6. ModeKept'
    BY <1>1, <1>2 DEF ModeKept, InSession, Calm
  <2>7. Calm'
    BY <1>1, <1>2, <2>1 DEF Calm
  <2> QED
    BY <2>4, <2>5, <2>6, <2>7
<1> QED
  BY <1>3, <1>4

LEMMA CallInSession ==
  ASSUME Typed, SessionInv, NEW m \in Methods, Call(m)
  PROVE  SessionInv'
<1> USE DEF SessionInv
<1> DEFINE request == Request(Method[m][1], 0, wanted')
<1>1. /\ port = "open" /\ ~mustClose /\ pc = "idle" /\ negotiated
      /\ pc' = m /\ Sends(request)
      /\ UNCHANGED <<port, mustClose, negotiated, rx, deviceMode>>
  BY DEF Call, Running, deviceVars
<1>2. request.cmd = Method[m][1] /\ request.arg = wanted'
  BY DEF Request
<1> HIDE DEF request
<1>3. InSession /\ pc \notin Methods \cup {"readAnswer", "writeAnswer"}
  BY <1>1, MethodNames DEF InSession
<1>4. \A i \in DOMAIN toDevice' :
        \/ i \in DOMAIN toDevice /\ toDevice'[i] = toDevice[i]
        \/ i = Len(toDevice') /\ toDevice'[i] = request
  BY <1>1, SendsLengthens
<1>5. StaleFirst'
  BY <1>1 DEF StaleFirst, Negotiating
<1>6. OwnLast'
  BY <1>1, <1>2, <1>3, <1>4, NothingOwn DEF OwnLast, OwnRequest
<1>7. ModeKept'
  <2> SUFFICES ASSUME opened' # NoMode
               PROVE  /\ deviceMode' = opened'
                      /\ \A i \in DOMAIN toDevice' : toDevice'[i].cmd \notin Closing
    BY DEF ModeKept
  <2>1. m \notin {"closeMode", "sendReset", "sendPowerOff"} /\ opened' = opened
    BY DEF Call
  <2>2. Method[m][1] \notin Closing
    BY <2>1, MethodNames DEF Method, Closing
  <2> QED
    BY <1>1, <1>2, <1>3, <1>4, <2>1, <2>2 DEF ModeKept
<1>8. Calm'
  BY <1>1 DEF Calm
<1> QED
  BY <1>5, <1>6, <1>7, <1>8

(* A call whose failure may be ignored has a mild answer.                   *)
LEMMA MildMethods ==
  /\ \A m \in Methods : Method[m][1] \in Mild <=> Method[m][2] \in MildAnswers
  /\ \A m \in Methods : Method[m][3] # "throws" =>
       m \in OpenCalls \/ Method[m][1] \in Mild
  /\ \A m \in OpenCalls : m \in Methods /\ Method[m][1] \notin Mild
BY MethodNames DEF Method, Mild, MildAnswers, OpenCalls

LEMMA CallReturnsInSession ==
  ASSUME Typed, SessionInv, HeedsOpening, NEW m \in Methods, Call_Returns(m)
  PROVE  SessionInv'
<1> USE DEF SessionInv
<1>1. /\ pc = m /\ pc' = "idle" /\ Receives
      /\ UNCHANGED <<port, negotiated, wanted, toDevice, deviceMode>>
  BY DEF Call_Returns, deviceVars
<1>2. InSession /\ port = "open" /\ negotiated /\ ~mustClose
  BY <1>1, HostInSession, MethodNames
<1>3. Calm'
  BY <1>1, <1>2 DEF Calm
<1>4. CASE mustClose' = TRUE
  BY <1>2, <1>3, <1>4, EndedSession
<1>5. CASE mustClose' # TRUE
  <2>1. rx[1] = Received /\ 1 \in DOMAIN rx
    BY <1>1, ReceivesShortens
  <2>2. \/ Method[m][1] \in Mild
        \/ Received.cmd = Method[m][2]
    <3>1. CASE IsExpected(m, Received)
      BY <3>1 DEF IsExpected
    <3>2. CASE ~IsExpected(m, Received)
      <4>1. Method[m][3] # "throws" /\ m \in Ignored
        <5>1. mustClose' = (Method[m][3] = "throws" \/ m \notin Ignored)
          BY <3>2, Zenon DEF Call_Returns
        <5> QED
          BY <1>5, <5>1, Zenon
      <4> QED
        BY <4>1, MildMethods DEF HeedsOpening
    <3> QED
      BY <3>1, <3>2
  <2>3. CASE Method[m][1] \in Mild
    <3>1. m \notin OpenCalls /\ Method[m][2] \in MildAnswers
      BY <2>3, MildMethods
    <3>2. opened' = opened
      BY <3>1 DEF Call_Returns, OpenCalls
    <3>3. /\ \A i \in DOMAIN toDevice : toDevice[i].cmd \in Mild
          /\ \A i \in DOMAIN rx : rx[i].cmd \in MildAnswers
      BY <1>1, <1>2, <2>3, <3>1, MethodNames
         DEF OwnLast, OwnRequest, OwnAnswer
    <3>4. OwnLast'
      BY <1>1, <3>3, ReceivesShortens, AllMildIsOwnLast
    <3>5. ModeKept'
      BY <1>1, <1>2, <3>2 DEF ModeKept
    <3> QED
      BY <1>1, <1>2, <1>3, <3>4, <3>5 DEF StaleFirst, Negotiating
  <2>4. CASE Method[m][1] \notin Mild /\ Received.cmd = Method[m][2]
    <3>1. Received.cmd \notin MildAnswers
      BY <2>4, MildMethods
    <3>2. /\ OwnAnswer(rx[1])
          /\ toDevice = <<>>
          /\ \A j \in 2 .. Len(rx) : rx[j].cmd \in MildAnswers
      BY <1>2, <2>1, <3>1 DEF OwnLast
    <3>3. \A i \in DOMAIN rx' : rx'[i].cmd \in MildAnswers
      BY <1>1, <3>2, ReceivesShortens
    <3>4. OwnLast'
      BY <1>1, <3>2, <3>3, AllMildIsOwnLast
    <3>5. IsExpected(m, Received)
      BY <2>4 DEF IsExpected
    <3>6. opened' = IF m \in OpenCalls THEN wanted ELSE opened
      BY <3>5 DEF Call_Returns, OpenCalls
    <3>7. m \in OpenCalls => deviceMode = wanted
      BY <1>1, <3>2, MethodNames DEF OwnAnswer
    <3>8. ModeKept'
      BY <1>1, <1>2, <3>2, <3>6, <3>7 DEF ModeKept
    <3> QED
      BY <1>1, <1>2, <1>3, <3>4, <3>8 DEF StaleFirst, Negotiating
  <2> QED
    BY <2>2, <2>3, <2>4
<1> QED
  BY <1>4, <1>5
(* A step of the chunk loops that takes nothing from the line, or the       *)
(* running call's own answer, leaves only what is mild.                     *)
LEMMA LoopStepInSession ==
  ASSUME Typed, SessionInv, InSession,
         UNCHANGED <<port, negotiated, wanted, opened, deviceMode>>,
         \/ mustClose' = TRUE /\ pc' = "idle"
         \/ /\ UNCHANGED mustClose
            /\ \A i \in DOMAIN rx' : rx'[i].cmd \in MildAnswers
            /\ \A i \in DOMAIN toDevice' :
                 \/ /\ i \in DOMAIN toDevice
                    /\ toDevice'[i] = toDevice[i]
                    /\ toDevice[i].cmd \in Mild
                 \/ /\ i = Len(toDevice')
                    /\ \/ pc' = "readAnswer" /\ toDevice'[i].cmd = "Read"
                       \/ pc' = "writeAnswer" /\ toDevice'[i].cmd = "StreamWrite"
  PROVE  SessionInv'
<1> USE DEF SessionInv
<1>1. port = "open" /\ negotiated /\ ~mustClose
  BY DEF InSession
<1>2. Calm'
  BY <1>1 DEF Calm
<1>3. CASE mustClose' = TRUE
  BY <1>1, <1>2, <1>3, EndedSession
<1>4. CASE mustClose' # TRUE
  <2>1. StaleFirst'
    BY <1>1 DEF StaleFirst, Negotiating
  <2>2. OwnLast'
    BY <1>4 DEF OwnLast, OwnRequest
  <2>3. ModeKept'
    BY <1>4 DEF ModeKept, Closing
  <2> QED
    BY <1>2, <2>1, <2>2, <2>3
<1> QED
  BY <1>3, <1>4

(* The host takes an answer it does not send its request for before.        *)
LEMMA OwnAnswerTaken ==
  ASSUME Typed, OwnLast, InSession, Receives, Received.cmd \notin MildAnswers
  PROVE  /\ OwnAnswer(Received)
         /\ toDevice = <<>>
         /\ \A i \in DOMAIN rx' : rx'[i].cmd \in MildAnswers
<1>1. rx[1] = Received /\ 1 \in DOMAIN rx
  BY ReceivesShortens
<1>2. /\ OwnAnswer(rx[1])
      /\ toDevice = <<>>
      /\ \A j \in 2 .. Len(rx) : rx[j].cmd \in MildAnswers
  BY <1>1 DEF OwnLast
<1> QED
  BY <1>1, <1>2, ReceivesShortens

LEMMA LoopsInSession ==
  ASSUME Typed, SessionInv,
         \/ ReadFlash \/ ReadFlashToFile \/ WriteFlash
         \/ File_Turn \/ Read_Turn \/ Read_Returns
         \/ Write_Turn \/ Write_Returns
  PROVE  SessionInv'
<1> USE DEF sessionVars, loopVars, deviceVars
<1>1. CASE ReadFlash \/ ReadFlashToFile \/ WriteFlash
  <2>1. /\ Running /\ negotiated
        /\ UNCHANGED <<sessionVars, toDevice, rx, deviceVars>>
        /\ pc' \in {"read", "file", "write"}
    BY <1>1 DEF ReadFlash, ReadFlashToFile, WriteFlash, Begins
  <2>2. InSession /\ pc = "idle"
    BY <2>1 DEF Running, InSession
  <2>3. /\ \A i \in DOMAIN toDevice : toDevice[i].cmd \in Mild
        /\ \A i \in DOMAIN rx : rx[i].cmd \in MildAnswers
    BY <2>2, NothingOwn, MethodNames DEF SessionInv
  <2> QED
    BY <2>1, <2>2, <2>3, LoopStepInSession
<1>2. ASSUME pc \in {"file", "read", "write"},
             UNCHANGED <<sessionVars, rx, deviceVars>>,
             pc' \in {"idle", "file", "read", "readAnswer", "writeAnswer"},
             \/ UNCHANGED toDevice
             \/ \E request : /\ Sends(request)
                             /\ \/ pc' = "readAnswer" /\ request.cmd = "Read"
                                \/ /\ pc' = "writeAnswer"
                                   /\ request.cmd = "StreamWrite"
      PROVE  SessionInv'
  <2>1. InSession
    BY <1>2, HostInSession DEF SessionInv
  <2>2. /\ \A i \in DOMAIN toDevice : toDevice[i].cmd \in Mild
        /\ \A i \in DOMAIN rx : rx[i].cmd \in MildAnswers
    BY <1>2, <2>1, NothingOwn, MethodNames DEF SessionInv
  <2> DEFINE Own(cmd) == \/ pc' = "readAnswer" /\ cmd = "Read"
                         \/ pc' = "writeAnswer" /\ cmd = "StreamWrite"
  <2>3. \A i \in DOMAIN toDevice' :
          \/ /\ i \in DOMAIN toDevice
             /\ toDevice'[i] = toDevice[i]
             /\ toDevice[i].cmd \in Mild
          \/ i = Len(toDevice') /\ Own(toDevice'[i].cmd)
    <3>1. CASE UNCHANGED toDevice
      BY <2>2, <3>1
    <3>2. CASE ~UNCHANGED toDevice
      <4>1. PICK request : Sends(request) /\ Own(request.cmd)
        BY <1>2, <3>2
      <4> QED
        BY <2>2, <4>1, SendsLengthens
    <3> QED
      BY <3>1, <3>2
  <2> QED
    BY <1>2, <2>1, <2>2, <2>3, LoopStepInSession
<1>3. CASE File_Turn
  BY <1>2, <1>3 DEF File_Turn, Returns
<1>4. CASE Read_Turn
  <2>1. Request("Read", loop.lba + loop.blocks, loop.step % LengthLimit).cmd
          = "Read"
    BY DEF Request
  <2> QED
    BY <1>2, <1>4, <2>1 DEF Read_Turn, Returns
<1>5. CASE Write_Turn
  <2>1. \A step : Request("StreamWrite", loop.lba + loop.blocks,
                          SubSeq(job.data, loop.total + 1,
                                 loop.total + step)).cmd = "StreamWrite"
    BY DEF Request
  <2> QED
    BY <1>2, <1>5, <2>1 DEF Write_Turn, Returns
<1>6. CASE Read_Returns \/ Write_Returns
  <2>1. pc \in {"readAnswer", "writeAnswer"} /\ Receives
        /\ UNCHANGED <<port, negotiated, wanted, opened, toDevice, deviceMode>>
    BY <1>6 DEF Read_Returns, Write_Returns, Throws
  <2>2. InSession
    BY <2>1, HostInSession DEF SessionInv
  <2>3. CASE mustClose' = TRUE /\ pc' = "idle"
    BY <2>1, <2>2, <2>3, LoopStepInSession
  <2>4. CASE /\ Received.cmd \in {"ReadData", "BlockWritten"}
             /\ UNCHANGED mustClose
             /\ pc' \in {"read", "write"}
    <3>1. Received.cmd \notin MildAnswers
      BY <2>4 DEF MildAnswers
    <3>2. /\ toDevice = <<>>
          /\ \A i \in DOMAIN rx' : rx'[i].cmd \in MildAnswers
      BY <2>1, <2>2, <3>1, OwnAnswerTaken DEF SessionInv
    <3>3. DOMAIN toDevice' = {}
      BY <2>1, <3>2
    <3> QED
      BY <2>1, <2>2, <2>4, <3>2, <3>3, LoopStepInSession
  <2> QED
    BY <1>6, <2>3, <2>4
       DEF Read_Returns, Write_Returns, Throws, IsData, IsBlockWritten
<1> QED
  BY <1>1, <1>3, <1>4, <1>5, <1>6
(* What the device says to a request, unless it refuses it. *)
Answers(request, packet) ==
  \/ packet.cmd = "Error"
  \/ request.cmd = "Hello" /\ packet.cmd = "HelloResponse"
  \/ \E m \in Methods : request.cmd = Method[m][1] /\ packet.cmd = Method[m][2]
  \/ request.cmd = "Read" /\ packet.cmd = "ReadData"
  \/ request.cmd = "StreamWrite" /\ packet.cmd = "BlockWritten"

Opens(packet) ==
  Taken.cmd \in {"Open", "OpenMultiImage"} /\ packet.cmd # "Error" =>
    deviceMode' = Taken.arg

LEMMA MethodAnswers ==
  ASSUME Says(Answer(AnswerTo(Taken.cmd), 0, 0)), Taken.cmd \in Commands
  PROVE  \E packet : Says(packet) /\ Answers(Taken, packet)
<1>1. PICK m \in Methods : Taken.cmd = Method[m][1]
  BY DEF Commands
<1>2. PICK packet : packet = Answer(AnswerTo(Taken.cmd), 0, 0)
  OBVIOUS
<1>3. packet.cmd = Method[m][2]
  BY <1>1, <1>2, AnswerIsOfMethod DEF Answer
<1>4. Answers(Taken, packet)
  BY <1>1, <1>3 DEF Answers
<1> QED
  BY <1>2, <1>4

LEMMA RefusalAnswers ==
  ASSUME Refuses
  PROVE  \E packet : Says(packet) /\ Answers(Taken, packet) /\ Opens(packet)
<1>1. PICK packet : packet = Answer("Error", 0, 0)
  OBVIOUS
<1>2. Says(packet) /\ packet.cmd = "Error"
  BY <1>1 DEF Refuses, Answer
<1> QED
  BY <1>2 DEF Answers, Opens

LEMMA DeviceAnswers ==
  ASSUME Typed, DeviceStep
  PROVE  \E packet : Says(packet) /\ Answers(Taken, packet) /\ Opens(packet)
<1>1. CASE Refuses
  BY <1>1, RefusalAnswers
<1>2. CASE Takes_Hello
  <2>1. PICK extent : Says(Answer("HelloResponse", preferred, extent))
    BY <1>2 DEF Takes_Hello
  <2>2. PICK packet : packet = Answer("HelloResponse", preferred, extent)
    OBVIOUS
  <2>3. Answers(Taken, packet) /\ Opens(packet)
    BY <1>2, <2>2 DEF Answers, Answer, Takes_Hello, Opens
  <2> QED
    BY <2>1, <2>2, <2>3
<1>3. CASE Takes_Open \/ Takes_Close \/ Takes_Other
  <2>1. Taken.cmd \in Commands
    <3>1. {"Open", "OpenMultiImage", "Close", "Reset", "PowerOff"}
            \subseteq Commands
      BY MethodNames DEF Commands, Method
    <3> QED
      BY <1>3, <3>1 DEF Takes_Open, Takes_Close, Takes_Other, Commands
  <2>2. Refuses \/ Says(Answer(AnswerTo(Taken.cmd), 0, 0))
    BY <1>3 DEF Takes_Open, Takes_Close, Takes_Other
  <2>3. ~Refuses /\ Taken.cmd \in {"Open", "OpenMultiImage"} =>
          deviceMode' = Taken.arg
    BY <1>3 DEF Takes_Open, Takes_Close, Takes_Other
  <2> QED
    BY <1>1, <2>1, <2>2, <2>3, MethodAnswers DEF Opens
<1>4. CASE Takes_Erase
  <2>1. /\ "eraseFlash" \in Methods
        /\ Method["eraseFlash"][1] = "EraseFlash"
        /\ Method["eraseFlash"][2] = "FlashErased"
    BY MethodNames DEF Method
  <2>2. PICK packet : packet = Answer("FlashErased", 0, 0)
    OBVIOUS
  <2>3. packet.cmd = "FlashErased" /\ Taken.cmd = "EraseFlash" /\ Says(packet)
    BY <1>4, <2>2 DEF Answer, Takes_Erase
  <2> QED
    BY <2>1, <2>3 DEF Answers, Opens
<1>5. CASE Takes_Read /\ ~Refuses
  <2>1. PICK packet :
          packet = Answer("ReadData", Taken.address,
                          Store!Contents(flash, Taken.address * SectorSize,
                                         Taken.arg))
    OBVIOUS
  <2>2. packet.cmd = "ReadData" /\ Taken.cmd = "Read" /\ Says(packet)
    BY <1>5, <2>1 DEF Answer, Takes_Read
  <2> QED
    BY <2>2 DEF Answers, Opens
<1>6. CASE Takes_Write /\ ~Refuses
  <2>1. PICK packet : packet = Answer("BlockWritten", Taken.address, 0)
    OBVIOUS
  <2>2. packet.cmd = "BlockWritten" /\ Taken.cmd = "StreamWrite" /\ Says(packet)
    BY <1>6, <2>1 DEF Answer, Takes_Write
  <2> QED
    BY <2>2 DEF Answers, Opens
<1>7. CASE Takes_Refusing
  BY <1>1, <1>7 DEF Takes_Refusing
<1> QED
  BY <1>1, <1>2, <1>3, <1>4, <1>5, <1>6, <1>7 DEF DeviceStep

LEMMA MildAnswered ==
  ASSUME NEW request, NEW packet, Answers(request, packet),
         request.cmd \in Mild
  PROVE  packet.cmd \in MildAnswers
<1>1. request.cmd = "Hello" => \A m \in Methods : request.cmd # Method[m][1]
  BY MethodNames DEF Method
<1> QED
  BY <1>1, MildMethods DEF Answers, Mild, MildAnswers

LEMMA HelloAnswered ==
  ASSUME NEW request, NEW packet, Answers(request, packet),
         request.cmd = "Hello"
  PROVE  packet.cmd \in {"HelloResponse", "Error"}
<1>1. \A m \in Methods : Method[m][1] # "Hello"
  BY MethodNames DEF Method
<1> QED
  BY <1>1 DEF Answers
(* The running call's request gets the running call's answer. *)
LEMMA OwnAnswered ==
  ASSUME Typed, OwnRequest(Taken), UNCHANGED <<pc, wanted>>,
         NEW packet, Answers(Taken, packet), Opens(packet)
  PROVE  packet.cmd = "Error" \/ OwnAnswer(packet)'
<1> SUFFICES ASSUME packet.cmd # "Error"
             PROVE  OwnAnswer(packet)'
  OBVIOUS
<1>1. CASE /\ pc \in Methods
           /\ Taken.cmd = Method[pc][1]
           /\ Taken.arg = wanted
  <2>1. \A m \in Methods : Method[m][1] \notin {"Hello", "Read", "StreamWrite"}
    BY MethodNames DEF Method
  <2>2. PICK m \in Methods : Taken.cmd = Method[m][1] /\ packet.cmd = Method[m][2]
    BY <1>1, <2>1 DEF Answers
  <2>3. packet.cmd = Method[pc][2]
    BY <1>1, <2>2, CommandIsOfOne
  <2>4. pc \in OpenCalls => Taken.cmd \in {"Open", "OpenMultiImage"}
    BY <1>1, MethodNames DEF OpenCalls, Method
  <2>5. pc \in OpenCalls => deviceMode' = wanted
    BY <1>1, <2>4 DEF Opens
  <2> QED
    BY <1>1, <2>3, <2>5 DEF OwnAnswer
<1>2. CASE \/ pc = "readAnswer" /\ Taken.cmd = "Read"
           \/ pc = "writeAnswer" /\ Taken.cmd = "StreamWrite"
  <2>1. \A m \in Methods : Method[m][1] \notin {"Hello", "Read", "StreamWrite"}
    BY MethodNames DEF Method
  <2>2. \/ pc = "readAnswer" /\ packet.cmd = "ReadData"
        \/ pc = "writeAnswer" /\ packet.cmd = "BlockWritten"
    BY <1>2, <2>1 DEF Answers
  <2> QED
    BY <2>2 DEF OwnAnswer
<1> QED
  BY <1>1, <1>2 DEF OwnRequest

LEMMA DeviceStepInSession ==
  ASSUME Typed, SessionInv, DeviceStep
  PROVE  SessionInv'
<1> USE DEF SessionInv
<1>1. /\ Takes
      /\ UNCHANGED <<port, pc, mustClose, negotiated, wanted, opened>>
  BY DEF DeviceStep, Takes_Hello, Takes_Open, Takes_Close, Takes_Erase,
         Takes_Other, Takes_Read, Takes_Write, Takes_Refusing,
         hostVars, sessionVars
<1>2. PICK packet : Says(packet) /\ Answers(Taken, packet) /\ Opens(packet)
  BY DeviceAnswers
<1>3. Calm'
  BY <1>1, <1>2 DEF Calm, Says
<1>4. StaleFirst'
  <2> SUFFICES ASSUME Negotiating
               PROVE  StaleFirst'
    BY <1>1 DEF StaleFirst, Negotiating
  <2>1. \A i \in DOMAIN toDevice' : toDevice'[i].cmd = "Hello"
    <3> SUFFICES ASSUME NEW i \in DOMAIN toDevice',
                        toDevice'[i].cmd # "Hello"
                 PROVE  FALSE
      OBVIOUS
    <3>1. i + 1 = 1 /\ i \in 1 .. Len(toDevice')
      BY <1>1, TakesShortens DEF StaleFirst
    <3> QED
      BY <1>1, <3>1, TakesShortens
  <2>2. port = "open"
    BY DEF Negotiating
  <2>3. \A i \in DOMAIN rx' :
          rx'[i].cmd \notin {"HelloResponse", "Error", "Log"} =>
            \A j \in 1 .. i - 1 : rx'[j].cmd = "Log"
    <3> SUFFICES ASSUME NEW i \in DOMAIN rx', NEW j \in 1 .. i - 1,
                        rx'[i].cmd \notin {"HelloResponse", "Error", "Log"}
                 PROVE  rx'[j].cmd = "Log"
      OBVIOUS
    <3>0. i \in 1 .. Len(rx) + 1 /\ Len(rx) \in Nat
      BY <1>2, <2>2, SaysLengthens DEF Typed
    <3>1. j \in DOMAIN rx /\ rx'[j] = rx[j]
      BY <1>2, <2>2, <3>0, SaysLengthens
    <3>2. CASE i \in DOMAIN rx
      BY <1>2, <2>2, <3>1, <3>2, SaysLengthens DEF StaleFirst
    <3>3. CASE i = Len(rx) + 1
      <4>1. rx'[i] = packet
        BY <1>2, <2>2, <3>3, SaysLengthens
      <4>2. Taken.cmd # "Hello"
        BY <1>2, <4>1, HelloAnswered
      <4>3. \A k \in DOMAIN rx : rx[k].cmd = "Log"
        BY <1>1, <4>2, TakesShortens DEF StaleFirst
      <4> QED
        BY <3>1, <4>3
    <3> QED
      BY <1>2, <2>2, <3>0, <3>2, <3>3, SaysLengthens
  <2> QED
    BY <2>1, <2>3 DEF StaleFirst
<1>5. CASE ~InSession
  <2>1. OwnLast' /\ ModeKept'
    BY <1>1, <1>5 DEF OwnLast, ModeKept, InSession
  <2> QED
    BY <1>3, <1>4, <2>1
<1>6. CASE InSession
  <2>1. port = "open" /\ InSession'
    BY <1>1, <1>6 DEF InSession
  <2>2. \A i \in DOMAIN rx : rx[i].cmd \in MildAnswers
    BY <1>1, <1>6, TakesShortens DEF OwnLast
  <2>3. \/ Taken.cmd \in Mild
        \/ OwnRequest(Taken) /\ toDevice' = <<>>
    <3>1. \/ Taken.cmd \in Mild
          \/ OwnRequest(Taken) /\ Len(toDevice) = 1
      BY <1>1, <1>6, TakesShortens DEF OwnLast
    <3>2. toDevice' \in Seq(Requests)
      BY <1>1, TakesTyped DEF Typed
    <3> QED
      BY <1>1, <3>1, <3>2, TakesShortens
  <2>4. \A i \in DOMAIN toDevice' :
          \/ toDevice'[i].cmd \in Mild
          \/ i = Len(toDevice') /\ OwnRequest(toDevice[i])'
    <3> SUFFICES ASSUME NEW i \in DOMAIN toDevice', toDevice'[i].cmd \notin Mild
                 PROVE  i = Len(toDevice') /\ OwnRequest(toDevice[i])'
      OBVIOUS
    <3>1. /\ i + 1 \in DOMAIN toDevice /\ toDevice'[i] = toDevice[i + 1]
          /\ i \in Int /\ Len(toDevice') = Len(toDevice) - 1
          /\ Len(toDevice) \in Int
      BY <1>1, TakesShortens DEF Typed
    <3>2. i + 1 = Len(toDevice) /\ OwnRequest(toDevice[i + 1])
      BY <1>6, <3>1 DEF OwnLast
    <3>3. OwnRequest(toDevice[i])'
      BY <1>1, <3>1, <3>2 DEF OwnRequest
    <3> QED
      BY <3>1, <3>2, <3>3
  <2>5. \/ packet.cmd \in MildAnswers
        \/ OwnAnswer(packet)' /\ toDevice' = <<>>
    BY <1>1, <1>2, <2>3, MildAnswered, OwnAnswered DEF MildAnswers
  <2>6. OwnLast'
    <3>1. \A i \in DOMAIN rx' : \/ rx'[i].cmd \in MildAnswers
                                \/ i = Len(rx') /\ rx'[i] = packet
      BY <1>2, <2>1, <2>2, SaysLengthens
    <3>2. Len(rx') \in Int
      BY <1>2, <2>1, SaysLengthens DEF Typed
    <3> QED
      BY <2>4, <2>5, <3>1, <3>2 DEF OwnLast
  <2>7. ModeKept'
    <3> SUFFICES ASSUME opened # NoMode
                 PROVE  ModeKept'
      BY <1>1 DEF ModeKept
    <3>1. /\ deviceMode = opened
          /\ \A i \in DOMAIN toDevice : toDevice[i].cmd \notin Closing
      BY <1>6 DEF ModeKept
    <3>2. Taken.cmd \notin Closing
      BY <1>1, <3>1, TakesShortens
    <3>3. deviceMode' = deviceMode
      BY <3>1, <3>2
         DEF DeviceStep, Takes_Hello, Takes_Open, Takes_Close, Takes_Erase,
             Takes_Other, Takes_Read, Takes_Write, Takes_Refusing,
             deviceVars, Closing
    <3>4. \A i \in DOMAIN toDevice' : toDevice'[i].cmd \notin Closing
      BY <1>1, <3>1, TakesShortens
    <3> QED
      BY <1>1, <3>1, <3>3, <3>4 DEF ModeKept
  <2> QED
    BY <1>3, <1>4, <2>6, <2>7
<1> QED
  BY <1>5, <1>6

LEMMA SendsLogInSession ==
  ASSUME Typed, SessionInv, SendsLog
  PROVE  SessionInv'
<1> USE DEF SessionInv
<1>1. PICK packet : packet = Answer("Log", 0, 0)
  OBVIOUS
<1>2. /\ Says(packet) /\ packet.cmd = "Log"
      /\ UNCHANGED <<port, pc, mustClose, negotiated, wanted, opened,
                     toDevice, deviceMode>>
  BY <1>1 DEF SendsLog, Answer, hostVars, sessionVars
<1>3. Calm'
  BY <1>2 DEF Calm, Says
<1>4. ModeKept'
  BY <1>2 DEF ModeKept, InSession
<1>5. CASE port = "open"
  <2>1. /\ DOMAIN rx' = 1 .. Len(rx) + 1 /\ DOMAIN rx = 1 .. Len(rx)
        /\ Len(rx) \in Nat /\ Len(rx') = Len(rx) + 1
        /\ \A i \in DOMAIN rx : rx'[i] = rx[i]
        /\ rx'[Len(rx) + 1].cmd = "Log"
    BY <1>2, <1>5, SaysLengthens DEF Typed
  <2>2. StaleFirst'
    BY <1>2, <2>1 DEF StaleFirst, Negotiating
  <2>3. OwnLast'
    <3> SUFFICES ASSUME InSession
                 PROVE  OwnLast'
      BY <1>2 DEF OwnLast, InSession
    <3>1. \A p : OwnRequest(p) => OwnRequest(p)'
      BY <1>2 DEF OwnRequest
    <3>2. \A p : OwnAnswer(p) => OwnAnswer(p)'
      BY <1>2 DEF OwnAnswer
    <3>3. \A i \in DOMAIN rx' :
            \/ rx'[i].cmd \in MildAnswers
            \/ /\ i \in DOMAIN rx
               /\ rx'[i] = rx[i]
               /\ OwnAnswer(rx[i])
               /\ toDevice = <<>>
               /\ \A j \in i + 1 .. Len(rx) : rx[j].cmd \in MildAnswers
      BY <2>1 DEF OwnLast, MildAnswers
    <3>4. \A i \in DOMAIN rx : \A j \in i + 1 .. Len(rx') :
            j \in i + 1 .. Len(rx) \/ j = Len(rx) + 1
      BY <2>1
    <3>5. \A i \in DOMAIN rx :
            (\A j \in i + 1 .. Len(rx) : rx[j].cmd \in MildAnswers) =>
              \A j \in i + 1 .. Len(rx') : rx'[j].cmd \in MildAnswers
      BY <2>1, <3>4 DEF MildAnswers
    <3>6. \A i \in DOMAIN toDevice' :
            \/ toDevice'[i].cmd \in Mild
            \/ i = Len(toDevice') /\ OwnRequest(toDevice[i])'
      BY <1>2, <3>1 DEF OwnLast
    <3>7. \A i \in DOMAIN rx' :
            \/ rx'[i].cmd \in MildAnswers
            \/ /\ OwnAnswer(rx[i])'
               /\ toDevice' = <<>>
               /\ \A j \in i + 1 .. Len(rx') : rx'[j].cmd \in MildAnswers
      BY <1>2, <3>2, <3>3, <3>5
    <3> QED
      BY <3>6, <3>7 DEF OwnLast
  <2> QED
    BY <1>3, <1>4, <2>2, <2>3
<1>6. CASE port # "open"
  BY <1>2, <1>3, <1>4, <1>6 DEF StaleFirst, OwnLast, Negotiating, InSession
<1> QED
  BY <1>5, <1>6

LEMMA StepInSession ==
  ASSUME OneLate, HeedsOpening, Typed, SessionInv, [Next]_vars
  PROVE  SessionInv'
<1>1. CASE HostStep
  BY <1>1, SessionStarts, SendHelloReturnsInSession, CallReturnsInSession,
     LoopsInSession DEF HostStep
<1>2. CASE UNCHANGED vars
  BY <1>2 DEF vars, hostVars, sessionVars, deviceVars, SessionInv, StaleFirst,
              OwnLast, ModeKept, Calm, Negotiating, InSession, OwnRequest,
              OwnAnswer
<1> QED
  BY <1>1, <1>2, SessionStarts, SendHelloInSession, CallInSession,
     LoopsInSession, DeviceStepInSession, SendsLogInSession DEF Next

(* A session whose hello was answered is one in which every answer is of a  *)
(* request of its own, or of one whose loss the program can bear.           *)
THEOREM SessionsAreApart ==
  ASSUME OneLate, HeedsOpening
  PROVE  Spec => []SessionInv
<1>1. Init => SessionInv
  BY DEF Init, SessionInv, StaleFirst, OwnLast, ModeKept, Calm, Negotiating,
         InSession
<1>2. Typed /\ SessionInv /\ [Next]_vars => SessionInv'
  BY StepInSession
<1> QED
  BY <1>1, <1>2, AlwaysTyped, PTL DEF Spec

(* A program that heeds whether a mode was opened, and closes the port when *)
(* a call fails, believes a mode to be open only while the phone has it     *)
(* open: openMode's true is about its own request, although nothing but the *)
(* command of the answer is compared.                                       *)
THEOREM OpenedIsOpenHolds ==
  ASSUME OneLate, HeedsOpening
  PROVE  Spec => []OpenedIsOpen
<1>1. SessionInv => OpenedIsOpen
  BY DEF SessionInv, OpenedIsOpen, ModeKept, InSession, Calm
<1> QED
  BY <1>1, SessionsAreApart, PTL
----------------------------------------------------------------------------
(* readFlash and writeFlash implement FlashStore.                           *)

(* Where a sector begins, and the amounts that are whole sectors.           *)
Place(lba) == lba * SectorSize
Whole(n) == Place(n \div SectorSize) = n

(* What the theorem asks of the sizes.  Every chunk but the last must be    *)
(* whole sectors, as the loops go on to the sector after it; its length     *)
(* must fit a read request; and a packet must be read without what          *)
(* HdlcSerial may leave behind it.                                          *)
SectorsFit == Whole(MaxData) /\ \A size \in BlockSizes : Whole(size)
LengthsFit == MaxData < LengthLimit /\ \A size \in BlockSizes : size < LengthLimit
NoTrailers == Trailers = {0}

(* The first n units of s are those of the flash from a place on.           *)
FromFlash(s, n, at) == \A i \in 1 .. n : s[i] = flash[at + i - 1]

Reading == pc \in {"file", "read", "readAnswer"}
Writing == pc \in {"write", "writeAnswer"}

(* What the running readFlash(vector) was asked for: all of it, or a turn   *)
(* of readFlash(stream).                                                    *)
Asked == IF file = NoLoop THEN job.amount ELSE file.step

(* A call is running exactly when the store is busy with it; its locals are *)
(* there as long.                                                           *)
BusyTogether ==
  /\ status \in {"none", "busy", "done", "failed"}
  /\ status = "busy" <=> Busy
  /\ ~Busy => file = NoLoop /\ out = <<>> /\ written = <<>>
  /\ Reading => job.op = "read" /\ job.amount \in Nat
  /\ pc = "file" => file # NoLoop
  /\ Writing => job.op = "write" /\ job.base = Place(loop.lba)

(* readFlash(stream) has the flash's units in its stream up to where it is, *)
(* or, after a part that is no whole sector, all that was asked for.        *)
FileProgress ==
  Reading /\ file # NoLoop =>
    /\ job.base = Place(file.lba)
    /\ file.amount = Aligned(job.amount)
    /\ Whole(file.step) \/ file.step = job.amount
    /\ Len(written) = file.total
    /\ \/ /\ Place(file.blocks) = file.total
          /\ FromFlash(written, file.total, job.base)
       \/ /\ file.total >= file.amount
          /\ FromFlash(written, job.amount, job.base)

(* The same for readFlash(vector) and its vector. *)
ReadProgress ==
  pc \in {"read", "readAnswer"} =>
    /\ file = NoLoop => job.base = Place(loop.lba)
    /\ file # NoLoop => /\ loop.lba = file.lba + file.blocks
                        /\ file.total < file.amount
    /\ loop.amount = Aligned(Asked)
    /\ Whole(loop.step) \/ loop.step = Asked
    /\ loop.step < LengthLimit
    /\ Len(out) = loop.total
    /\ \/ /\ Place(loop.blocks) = loop.total
          /\ FromFlash(out, loop.total, Place(loop.lba))
       \/ /\ ~Whole(loop.step)
          /\ loop.total >= Asked
          /\ FromFlash(out, Asked, Place(loop.lba))

(* The running read's request, and what answers it. *)
ReadUnderWay ==
  pc = "readAnswer" =>
    /\ \A i \in DOMAIN toDevice :
         toDevice[i].cmd = "Read" => toDevice[i].arg = loop.step
    /\ \A i \in DOMAIN rx :
         rx[i].cmd = "ReadData" =>
           /\ Len(rx[i].arg) = loop.step
           /\ FromFlash(rx[i].arg, loop.step, Place(rx[i].address))

(* writeFlash has written what it counts as written, and goes on where that *)
(* ends, unless all is written.                                             *)
WriteProgress ==
  Writing =>
    /\ loop.total <= loop.amount
    /\ Place(loop.blocks) = loop.total \/ loop.total = loop.amount
    /\ Whole(loop.step) \/ loop.step >= loop.amount - loop.total
    /\ FromFlash(job.data, loop.total, job.base)
    /\ pc = "writeAnswer" => /\ Place(loop.blocks) = loop.total
                             /\ loop.step <= loop.amount - loop.total

(* A part of the data, to go to its place. *)
IsPart(request, from, to) ==
  /\ Place(request.address) = job.base + from
  /\ request.arg = SubSeq(job.data, from + 1, to)

(* The running write's request, and what answers it.                        *)
WriteUnderWay ==
  pc = "writeAnswer" =>
    /\ \A i \in DOMAIN toDevice :
         toDevice[i].cmd = "StreamWrite" =>
           IsPart(toDevice[i], loop.total, loop.total + loop.step)
    /\ \A i \in DOMAIN rx :
         rx[i].cmd = "BlockWritten" =>
           FromFlash(job.data, loop.total + loop.step, job.base)

(* A write that the phone has not handled is of the last call, and that one *)
(* has not returned.                                                        *)
PendingWrites ==
  \A i \in DOMAIN toDevice :
    toDevice[i].cmd = "StreamWrite" =>
      /\ job.op = "write"
      /\ status \in {"busy", "failed"}
      /\ \E from, to \in 0 .. Len(job.data) : IsPart(toDevice[i], from, to)

StoreInv ==
  /\ BusyTogether /\ FileProgress /\ ReadProgress /\ ReadUnderWay
  /\ WriteProgress /\ WriteUnderWay /\ PendingWrites
----------------------------------------------------------------------------
(* Sectors.                                                                 *)

LEMMA PlaceTyped == \A a \in Nat : Place(a) \in Nat
BY SizesAssumption DEF Place

LEMMA PlaceSum ==
  ASSUME NEW a \in Nat, NEW b \in Nat
  PROVE  Place(a + b) = Place(a) + Place(b)
BY SizesAssumption DEF Place

LEMMA PlaceIsWhole ==
  ASSUME NEW a \in Nat
  PROVE  Whole(Place(a)) /\ Place(a) \div SectorSize = a
<1>1. Place(a) \div SectorSize = a
  BY SizesAssumption DEF Place
<1> QED
  BY <1>1 DEF Whole

LEMMA WholeIsPlace ==
  ASSUME NEW n \in Nat, Whole(n)
  PROVE  \E a \in Nat : n = Place(a)
BY SizesAssumption, QuotientTyped DEF Whole

(* An aligned amount is whole sectors, and no less. *)
LEMMA AlignedFits ==
  ASSUME NEW n \in Nat
  PROVE  Aligned(n) >= n /\ \E a \in Nat : Aligned(n) = Place(a)
<1>1. PICK m \in Nat : m = n + SectorSize - 1
  BY SizesAssumption
<1>2. PICK q \in Nat : q = m \div SectorSize
  BY <1>1, SizesAssumption, QuotientTyped
<1>3. PICK r \in Nat : r = m % SectorSize /\ r < SectorSize
  BY <1>1, SizesAssumption, QuotientTyped
<1>4. PICK p \in Nat : p = Place(q)
  BY <1>2, PlaceTyped
<1>5. p + r = m
  <2>1. p = q * SectorSize
    BY <1>4 DEF Place
  <2> QED
    BY <1>1, <1>2, <1>3, <2>1, SizesAssumption
<1>6. Aligned(n) = p
  BY <1>1, <1>2, <1>4 DEF Aligned, Place
<1>7. p >= n
  BY <1>1, <1>3, <1>5, SizesAssumption
<1> QED
  BY <1>2, <1>4, <1>6, <1>7

(* What is left of whole sectors is whole. *)
LEMMA PlaceRest ==
  ASSUME NEW a \in Nat, NEW b \in Nat, Place(b) <= Place(a)
  PROVE  Whole(Place(a) - Place(b))
<1>1. b <= a
  <2> SUFFICES ASSUME b > a
               PROVE  FALSE
    OBVIOUS
  <2>1. PICK d \in Nat \ {0} : b = a + d
    BY DEF Place
  <2>2. Place(b) = Place(a) + Place(d)
    BY <2>1, PlaceSum
  <2>3. Place(d) > 0
    BY SizesAssumption DEF Place
  <2> QED
    BY <2>2, <2>3, PlaceTyped
<1>2. PICK d \in Nat : a = b + d
  BY <1>1
<1>3. Place(a) = Place(b) + Place(d)
  BY <1>2, PlaceSum
<1>4. Place(a) - Place(b) = Place(d)
  BY <1>3, PlaceTyped
<1> QED
  BY <1>4, PlaceIsWhole

(* A chunk is whole sectors or all that is asked for, and a request counts  *)
(* as far as it.                                                            *)
LEMMA ChunkFits ==
  ASSUME SectorsFit, LengthsFit, maxBlock \in BlockSizes \cup {0, MaxData},
         NEW amount \in Nat
  PROVE  /\ Whole(StepFor(amount)) \/ StepFor(amount) = amount
         /\ StepFor(amount) < LengthLimit
         /\ StepFor(amount) \in Nat
BY ChunkTyped, SizesAssumption DEF StepFor, SectorsFit, LengthsFit
----------------------------------------------------------------------------
(* Units read from the flash.                                               *)

LEMMA NothingFromFlash == \A s, at : FromFlash(s, 0, at)
BY DEF FromFlash

LEMMA FewerFromFlash ==
  ASSUME NEW s, NEW at, NEW n \in Nat, NEW m \in Nat, m <= n,
         FromFlash(s, n, at)
  PROVE  FromFlash(s, m, at)
BY DEF FromFlash

LEMMA LongerFromFlash ==
  ASSUME NEW s \in Seq(Int), NEW t \in Seq(Int), NEW n \in Nat, n <= Len(s),
         NEW at \in Nat, FromFlash(s, n, at)
  PROVE  FromFlash(s \o t, n, at)
BY DEF FromFlash

LEMMA JoinedFromFlash ==
  ASSUME NEW s \in Seq(Int), NEW t \in Seq(Int), NEW n \in Nat, n <= Len(t),
         NEW at \in Nat, FromFlash(s, Len(s), at),
         FromFlash(t, n, at + Len(s))
  PROVE  FromFlash(s \o t, Len(s) + n, at)
<1> SUFFICES ASSUME NEW i \in 1 .. Len(s) + n
             PROVE  (s \o t)[i] = flash[at + i - 1]
  BY DEF FromFlash
<1>1. CASE i <= Len(s)
  BY <1>1 DEF FromFlash
<1>2. CASE i > Len(s)
  <2> DEFINE k == i - Len(s)
  <2>1. k \in 1 .. n /\ i = Len(s) + k
    BY <1>2
  <2> HIDE DEF k
  <2>2. (s \o t)[i] = t[k]
    BY <2>1
  <2>3. t[k] = flash[at + Len(s) + k - 1]
    BY <2>1 DEF FromFlash
  <2> QED
    BY <2>1, <2>2, <2>3
<1> QED
  BY <1>1, <1>2

LEMMA ContentsFromFlash ==
  ASSUME NEW at, NEW n \in Nat, Store!Contents(flash, at, n) \in Seq(Int)
  PROVE  /\ Len(Store!Contents(flash, at, n)) = n
         /\ FromFlash(Store!Contents(flash, at, n), n, at)
<1>1. DOMAIN Store!Contents(flash, at, n) = 1 .. n
  BY DEF Store!Contents
<1> QED
  BY <1>1 DEF Store!Contents, FromFlash

(* What begins with units of the flash is the flash's contents there. *)
LEMMA FromFlashIsContents ==
  ASSUME NEW s \in Seq(Int), NEW n \in Nat, n <= Len(s), NEW at \in Nat,
         FromFlash(s, n, at)
  PROVE  SubSeq(s, 1, n) = Store!Contents(flash, at, n)
<1>1. \A i \in 1 .. n : s[i] \in Int
  OBVIOUS
<1>2. /\ SubSeq(s, 1, n) \in Seq(Int)
      /\ Len(SubSeq(s, 1, n)) = n
      /\ \A i \in 1 .. n : SubSeq(s, 1, n)[i] = s[i]
  BY <1>1, SubSeqProperties
<1>3. \A i \in 1 .. n : s[i] = flash[at + i - 1]
  BY DEF FromFlash
<1>4. SubSeq(s, 1, n) = [i \in 1 .. n |-> s[i]]
  BY <1>2
<1>5. [i \in 1 .. n |-> s[i]] = [i \in 1 .. n |-> flash[at + i - 1]]
  BY <1>3
<1> QED
  BY <1>4, <1>5 DEF Store!Contents

LEMMA AllFromFlashIsContents ==
  ASSUME NEW s \in Seq(Int), NEW at \in Nat, FromFlash(s, Len(s), at)
  PROVE  Store!Contents(flash, at, Len(s)) = s
<1>1. \A i \in 1 .. Len(s) : s[i] = flash[at + i - 1]
  BY DEF FromFlash
<1>2. s = [i \in 1 .. Len(s) |-> s[i]]
  OBVIOUS
<1>3. [i \in 1 .. Len(s) |-> s[i]] = [i \in 1 .. Len(s) |-> flash[at + i - 1]]
  BY <1>1
<1> QED
  BY <1>2, <1>3 DEF Store!Contents

----------------------------------------------------------------------------
(* Steps that leave the store alone, end a call, or begin one.              *)

NoNewWrites ==
  \A i \in DOMAIN toDevice' :
    toDevice'[i].cmd = "StreamWrite" =>
      \E k \in DOMAIN toDevice : toDevice[k] = toDevice'[i]

LEMMA NotBusy ==
  ASSUME ~Busy'
  PROVE  /\ FileProgress' /\ ReadProgress' /\ ReadUnderWay'
         /\ WriteProgress' /\ WriteUnderWay'
BY DEF Busy, Reading, Writing, FileProgress, ReadProgress, ReadUnderWay,
       WriteProgress, WriteUnderWay

(* A step outside of reads and writes.                                      *)
LEMMA QuietStep ==
  ASSUME StoreInv, ~Busy, ~Busy', NoNewWrites,
         UNCHANGED storeVars \/ ResultIsUsed,
         file' = NoLoop /\ out' = <<>> /\ written' = <<>>
  PROVE  StoreInv'
<1>1. BusyTogether'
  <2>1. status' \in {"none", "busy", "done", "failed"} /\ status' # "busy"
    BY DEF StoreInv, BusyTogether, ResultIsUsed, storeVars
  <2> QED
    BY <2>1 DEF BusyTogether, Busy, Reading, Writing
<1>2. PendingWrites'
  <2> SUFFICES ASSUME NEW i \in DOMAIN toDevice',
                      toDevice'[i].cmd = "StreamWrite"
               PROVE  /\ job'.op = "write"
                      /\ status' \in {"busy", "failed"}
                      /\ \E from, to \in 0 .. Len(job'.data) :
                           IsPart(toDevice[i], from, to)'
    BY DEF PendingWrites
  <2>1. PICK k \in DOMAIN toDevice : toDevice[k] = toDevice'[i]
    BY DEF NoNewWrites
  <2>2. /\ job.op = "write"
        /\ status \in {"busy", "failed"}
        /\ \E from, to \in 0 .. Len(job.data) : IsPart(toDevice[k], from, to)
    BY <2>1 DEF StoreInv, PendingWrites
  <2>3. job' = job /\ status' = status
    BY <2>2 DEF ResultIsUsed, storeVars
  <2> QED
    BY <2>1, <2>2, <2>3 DEF IsPart
<1> QED
  BY <1>1, <1>2, NotBusy DEF StoreInv
(* A call ends with an exception, or by the end of the program.             *)
LEMMA FailingStep ==
  ASSUME StoreInv, Busy, pc' = "idle", LocalsEnd, status' = "failed",
         UNCHANGED <<job, toDevice>>
  PROVE  StoreInv'
<1>1. ~Busy'
  BY DEF Busy
<1>2. BusyTogether'
  BY NoLoopTyped DEF BusyTogether, Busy, Reading, Writing, LocalsEnd
<1>3. PendingWrites'
  BY DEF StoreInv, BusyTogether, PendingWrites, IsPart
<1> QED
  BY <1>1, <1>2, <1>3, NotBusy DEF StoreInv

(* A call returns, and nothing is to be written any more. *)
LEMMA ReturningStep ==
  ASSUME StoreInv, Busy, NEW data, Returns(data),
         \A i \in DOMAIN toDevice : toDevice[i].cmd # "StreamWrite"
  PROVE  StoreInv'
<1>1. pc' = "idle" /\ LocalsEnd /\ status' = "done" /\ toDevice' = toDevice
  BY DEF Returns
<1>2. ~Busy'
  BY <1>1 DEF Busy
<1>3. BusyTogether'
  BY <1>1 DEF BusyTogether, Busy, Reading, Writing, LocalsEnd
<1>4. PendingWrites'
  BY <1>1 DEF PendingWrites
<1> QED
  BY <1>2, <1>3, <1>4, NotBusy DEF StoreInv

(* Nothing of a read or a write is in the pipe while none waits for an      *)
(* answer.                                                                  *)
LEMMA NothingInPipe ==
  ASSUME SessionInv, InSession,
         pc \notin Methods \cup {"readAnswer", "writeAnswer"}
  PROVE  /\ \A i \in DOMAIN toDevice :
              toDevice[i].cmd \notin {"StreamWrite", "Read", "EraseFlash"}
         /\ \A i \in DOMAIN rx : rx[i].cmd \notin {"BlockWritten", "ReadData"}
BY NothingOwn DEF SessionInv, Mild, MildAnswers

LEMMA SessionStepsKept ==
  ASSUME Typed, StoreInv,
         \/ Open \/ Close \/ TimesOut \/ SendHello \/ SendHello_Returns
         \/ \E m \in Methods : Call(m) \/ Call_Returns(m)
  PROVE  StoreInv'
<1> USE DEF loopVars, NoNewWrites, deviceVars
<1>0. ~Busy => file = NoLoop /\ out = <<>> /\ written = <<>>
  BY DEF StoreInv, BusyTogether
<1>1. CASE Open
  <2>1. ~Busy' <=> ~Busy
    BY <1>1 DEF Open, Busy
  <2>2. UNCHANGED <<pc, loop, out, file, written, toDevice, rx, flash, job,
                    status, result>>
    BY <1>1 DEF Open, storeVars
  <2>3. CASE ~Busy
    BY <1>0, <2>1, <2>2, <2>3, QuietStep DEF storeVars
  <2>4. CASE Busy
    BY <2>2
       DEF StoreInv, BusyTogether, FileProgress, ReadProgress, ReadUnderWay,
           WriteProgress, WriteUnderWay, PendingWrites, Busy, Reading,
           Writing, Asked, FromFlash, IsPart
  <2> QED
    BY <2>3, <2>4
<1>2. CASE Close
  <2>1. ~Busy /\ ~Busy'
    BY <1>2 DEF Close, Busy
  <2> QED
    BY <1>0, <1>2, <2>1, QuietStep DEF Close
<1>3. CASE TimesOut /\ Busy
  BY <1>3, FailingStep DEF TimesOut
<1>4. CASE TimesOut /\ ~Busy
  <2>1. ~Busy' /\ UNCHANGED <<toDevice, storeVars>>
    BY <1>4 DEF TimesOut, Busy, storeVars
  <2>2. file' = NoLoop /\ out' = <<>> /\ written' = <<>>
    BY <1>4 DEF TimesOut, LocalsEnd
  <2> QED
    BY <1>4, <2>1, <2>2, QuietStep
<1>5. CASE SendHello
  <2>1. ~Busy /\ ~Busy'
    BY <1>5 DEF SendHello, Busy, Running
  <2>2. NoNewWrites
    <3>1. PICK request : request = Request("Hello", 0, 0)
      OBVIOUS
    <3>2. Sends(request) /\ request.cmd # "StreamWrite"
      BY <1>5, <3>1 DEF SendHello, Request
    <3> QED
      BY <3>2, SendsLengthens
  <2> QED
    BY <1>0, <1>5, <2>1, <2>2, QuietStep DEF SendHello
<1>6. CASE SendHello_Returns
  <2>1. ~Busy /\ ~Busy'
    BY <1>6 DEF SendHello_Returns, Busy
  <2> QED
    BY <1>0, <1>6, <2>1, QuietStep DEF SendHello_Returns
<1>7. ASSUME NEW m \in Methods, Call(m)
      PROVE  StoreInv'
  <2>1. ~Busy /\ ~Busy'
    BY <1>7, MethodNames DEF Call, Busy, Running
  <2>2. NoNewWrites
    <3>1. PICK request : request = Request(Method[m][1], 0, wanted')
      OBVIOUS
    <3>2. Method[m][1] # "StreamWrite"
      BY MethodNames DEF Method
    <3>3. Sends(request) /\ request.cmd # "StreamWrite"
      BY <1>7, <3>1, <3>2 DEF Call, Request
    <3> QED
      BY <3>3, SendsLengthens
  <2> QED
    BY <1>0, <1>7, <2>1, <2>2, QuietStep DEF Call
<1>8. ASSUME NEW m \in Methods, Call_Returns(m)
      PROVE  StoreInv'
  <2>1. ~Busy /\ ~Busy'
    BY <1>8, MethodNames DEF Call_Returns, Busy
  <2> QED
    BY <1>0, <1>8, <2>1, QuietStep DEF Call_Returns
<1> QED
  BY <1>1, <1>2, <1>3, <1>4, <1>5, <1>6, <1>7, <1>8
LEMMA BeginningKept ==
  ASSUME Typed, SessionInv, StoreInv, SectorsFit, LengthsFit,
         ReadFlash \/ ReadFlashToFile \/ WriteFlash
  PROVE  StoreInv'
<1> USE DEF sessionVars, deviceVars
<1>1. /\ Running /\ negotiated /\ status' = "busy" /\ Busy'
      /\ UNCHANGED <<toDevice, rx, flash>>
  BY DEF ReadFlash, ReadFlashToFile, WriteFlash, Begins, Busy
<1>2. pc = "idle" /\ InSession /\ ~Busy
  BY <1>1 DEF Running, InSession, Busy
<1>3. /\ \A i \in DOMAIN toDevice :
           toDevice[i].cmd \notin {"StreamWrite", "Read", "EraseFlash"}
      /\ \A i \in DOMAIN rx : rx[i].cmd \notin {"BlockWritten", "ReadData"}
  BY <1>2, NothingInPipe, MethodNames
<1>4. PendingWrites'
  BY <1>1, <1>3 DEF PendingWrites
<1>5. file = NoLoop /\ out = <<>> /\ written = <<>>
  BY <1>2 DEF StoreInv, BusyTogether
<1>6. Place(0) = 0
  BY SizesAssumption DEF Place
<1>7. maxBlock \in BlockSizes \cup {0, MaxData}
  BY DEF Typed
<1>8. CASE ReadFlash
  <2>1. PICK r \in Reads : /\ Begins(ReadJob(r), "read")
                           /\ loop' = ReadLoop(r.lba, r.amount)
                           /\ UNCHANGED <<out, file, written>>
    BY <1>8 DEF ReadFlash
  <2>2. r.lba \in Nat /\ r.amount \in Nat
    BY TransfersAssumption
  <2>3. /\ pc' = "read" /\ job'.op = "read"
        /\ job'.base = Place(r.lba) /\ job'.amount = r.amount
    BY <2>1 DEF Begins, ReadJob, Place
  <2>4. /\ loop'.lba = r.lba /\ loop'.amount = Aligned(r.amount)
        /\ loop'.step = StepFor(r.amount)
        /\ loop'.total = 0 /\ loop'.blocks = 0
    BY <2>1 DEF ReadLoop
  <2>5. BusyTogether'
    BY <1>1, <2>2, <2>3 DEF BusyTogether, Busy, Reading, Writing
  <2>6. FileProgress'
    BY <1>5, <2>1 DEF FileProgress
  <2>7. Asked' = r.amount
    BY <1>5, <2>1, <2>3 DEF Asked
  <2>8. Whole(loop'.step) \/ loop'.step = r.amount
    BY <1>7, <2>2, <2>4, ChunkFits
  <2>9. loop'.step < LengthLimit
    BY <1>7, <2>2, <2>4, ChunkFits
  <2>10. Len(out') = loop'.total
    BY <1>5, <2>1, <2>4
  <2>11. FromFlash(out, loop.total, Place(loop.lba))'
    BY <2>4 DEF FromFlash
  <2>12. ReadProgress'
    BY <1>5, <1>6, <2>1, <2>3, <2>4, <2>7, <2>8, <2>9, <2>10, <2>11
       DEF ReadProgress
  <2>13. ReadUnderWay' /\ WriteProgress' /\ WriteUnderWay'
    BY <2>3 DEF ReadUnderWay, WriteProgress, WriteUnderWay, Writing
  <2> QED
    BY <1>4, <2>5, <2>6, <2>12, <2>13 DEF StoreInv
<1>9. CASE ReadFlashToFile
  <2>1. PICK r \in Reads : /\ Begins(ReadJob(r), "file")
                           /\ file' = ReadLoop(r.lba, r.amount)
                           /\ UNCHANGED <<loop, out, written>>
    BY <1>9 DEF ReadFlashToFile
  <2>2. r.lba \in Nat /\ r.amount \in Nat \ {0}
    BY TransfersAssumption
  <2>3. /\ pc' = "file" /\ job'.op = "read"
        /\ job'.base = Place(r.lba) /\ job'.amount = r.amount
    BY <2>1 DEF Begins, ReadJob, Place
  <2>4. /\ file'.lba = r.lba /\ file'.amount = Aligned(r.amount)
        /\ file'.step = StepFor(r.amount)
        /\ file'.total = 0 /\ file'.blocks = 0
    BY <2>1 DEF ReadLoop
  <2>5. file' # NoLoop
    <3>1. Aligned(r.amount) >= r.amount /\ Aligned(r.amount) \in Nat
      BY <2>2, AlignedFits, PlaceTyped
    <3>2. file'.amount # 0
      BY <2>2, <2>4, <3>1
    <3> QED
      BY <3>2 DEF NoLoop
  <2>6. BusyTogether'
    BY <1>1, <2>2, <2>3, <2>5 DEF BusyTogether, Busy, Reading, Writing
  <2>7. Whole(file'.step) \/ file'.step = r.amount
    BY <1>7, <2>2, <2>4, ChunkFits
  <2>8. Len(written') = file'.total
    BY <1>5, <2>1, <2>4
  <2>9. FromFlash(written, file.total, job.base)'
    BY <2>4 DEF FromFlash
  <2>10. FileProgress'
    BY <1>6, <2>3, <2>4, <2>7, <2>8, <2>9 DEF FileProgress
  <2>11. /\ ReadProgress' /\ ReadUnderWay' /\ WriteProgress'
         /\ WriteUnderWay'
    BY <2>3 DEF ReadProgress, ReadUnderWay, WriteProgress, WriteUnderWay,
                Writing
  <2> QED
    BY <1>4, <2>6, <2>10, <2>11 DEF StoreInv
<1>10. CASE WriteFlash
  <2>1. PICK w \in Writes :
          /\ Begins([op |-> "write", base |-> w.lba * SectorSize,
                     amount |-> w.amount, data |-> WriteData(w)], "write")
          /\ loop' = [lba |-> w.lba, amount |-> w.amount,
                      step |-> StepFor(w.amount), total |-> 0, blocks |-> 0]
          /\ UNCHANGED <<out, file, written>>
    BY <1>10 DEF WriteFlash
  <2>2. w.lba \in Nat /\ w.amount \in Nat
    BY TransfersAssumption
  <2>3. pc' = "write" /\ job'.op = "write" /\ job'.base = Place(w.lba)
    BY <2>1 DEF Begins, Place
  <2>4. /\ loop'.lba = w.lba /\ loop'.amount = w.amount
        /\ loop'.step = StepFor(w.amount)
        /\ loop'.total = 0 /\ loop'.blocks = 0
    BY <2>1
  <2>5. BusyTogether'
    BY <1>1, <2>3, <2>4 DEF BusyTogether, Busy, Reading, Writing
  <2>6. Whole(loop'.step) \/ loop'.step = w.amount
    BY <1>7, <2>2, <2>4, ChunkFits
  <2>7. FromFlash(job.data, loop.total, job.base)'
    BY <2>4 DEF FromFlash
  <2>8. WriteProgress'
    BY <1>6, <2>2, <2>3, <2>4, <2>6, <2>7 DEF WriteProgress
  <2>9. /\ FileProgress' /\ ReadProgress' /\ ReadUnderWay'
        /\ WriteUnderWay'
    BY <2>3 DEF FileProgress, ReadProgress, ReadUnderWay, WriteUnderWay,
                Reading
  <2> QED
    BY <1>4, <2>5, <2>8, <2>9 DEF StoreInv
<1> QED
  BY <1>8, <1>9, <1>10

LEMMA LoopsAreNat ==
  ASSUME Typed
  PROVE  /\ loop.lba \in Nat /\ loop.amount \in Nat /\ loop.step \in Nat
         /\ loop.total \in Nat /\ loop.blocks \in Nat
         /\ file.lba \in Nat /\ file.amount \in Nat /\ file.step \in Nat
         /\ file.total \in Nat /\ file.blocks \in Nat
BY DEF Typed, Loops

LEMMA FileTurnKept ==
  ASSUME Typed, SessionInv, StoreInv, SectorsFit, LengthsFit, File_Turn
  PROVE  StoreInv'
<1> USE DEF sessionVars, deviceVars, storeVars
<1>0. pc = "file" /\ Reading /\ Busy /\ file # NoLoop
  BY DEF File_Turn, Reading, Busy, StoreInv, BusyTogether
<1>1. InSession
  BY <1>0, HostInSession DEF SessionInv
<1>2. /\ \A i \in DOMAIN toDevice :
           toDevice[i].cmd \notin {"StreamWrite", "Read", "EraseFlash"}
      /\ \A i \in DOMAIN rx : rx[i].cmd \notin {"BlockWritten", "ReadData"}
  BY <1>0, <1>1, NothingInPipe, MethodNames
<1>3. CASE ~(file.total < file.amount)
  <2>1. Returns(written)
    BY <1>3, LoopsAreNat DEF File_Turn
  <2> QED
    BY <1>0, <1>2, <2>1, ReturningStep
<1>4. CASE file.total < file.amount
  <2>1. PICK step \in Nat : step = Least(file.step, file.amount - file.total)
    BY <1>4, LoopsAreNat DEF Least
  <2>2. /\ file' = [file EXCEPT !.step = step]
        /\ loop' = ReadLoop(file.lba + file.blocks, step)
        /\ out' = <<>>
        /\ pc' = "read"
        /\ UNCHANGED <<written, toDevice, rx, flash, job, status>>
    BY <1>4, <2>1, LoopsAreNat DEF File_Turn
  <2>3. /\ file'.lba = file.lba /\ file'.amount = file.amount
        /\ file'.step = step /\ file'.total = file.total
        /\ file'.blocks = file.blocks
    BY <2>2 DEF Typed, Loops
  <2>4. file' # NoLoop
    <3>1. file'.amount # 0
      BY <1>4, <2>3, LoopsAreNat
    <3> QED
      BY <3>1 DEF NoLoop
  <2>5. /\ loop'.lba = file.lba + file.blocks
        /\ loop'.amount = Aligned(step) /\ loop'.step = StepFor(step)
        /\ loop'.total = 0 /\ loop'.blocks = 0
    BY <2>2 DEF ReadLoop
  <2>6. /\ job.base = Place(file.lba) /\ file.amount = Aligned(job.amount)
        /\ Whole(file.step) \/ file.step = job.amount
        /\ Len(written) = file.total
        /\ Place(file.blocks) = file.total
        /\ FromFlash(written, file.total, job.base)
    BY <1>0, <1>4, LoopsAreNat DEF StoreInv, FileProgress
  <2>7. Whole(step) \/ step = job.amount
    <3>1. CASE step = file.step
      BY <2>6, <3>1
    <3>2. CASE step # file.step
      <4>1. step = file.amount - file.total
        BY <2>1, <3>2 DEF Least
      <4>2. job.amount \in Nat
        BY <1>0 DEF StoreInv, BusyTogether
      <4>3. PICK a \in Nat : file.amount = Place(a)
        BY <2>6, <4>2, AlignedFits
      <4>4. Place(file.blocks) <= Place(a)
        BY <1>4, <2>6, <4>3, LoopsAreNat
      <4>5. Whole(Place(a) - Place(file.blocks))
        BY <4>4, PlaceRest, LoopsAreNat
      <4> QED
        BY <2>6, <4>1, <4>3, <4>5
    <3> QED
      BY <3>1, <3>2
  <2>8. BusyTogether'
    BY <1>0, <2>2, <2>4 DEF StoreInv, BusyTogether, Busy, Reading, Writing
  <2>9. FromFlash(written, file.total, job.base)'
    BY <2>2, <2>3, <2>6 DEF FromFlash
  <2>10. FileProgress'
    BY <2>2, <2>3, <2>6, <2>7, <2>9 DEF FileProgress
  <2>11. Asked' = step
    BY <2>3, <2>4 DEF Asked
  <2>12. /\ Whole(loop'.step) \/ loop'.step = step
         /\ loop'.step < LengthLimit
    <3>1. maxBlock \in BlockSizes \cup {0, MaxData}
      BY DEF Typed
    <3> QED
      BY <2>5, <3>1, ChunkFits
  <2>13. FromFlash(out, loop.total, Place(loop.lba))'
    BY <2>5 DEF FromFlash
  <2>14. Place(0) = 0 /\ Len(out') = 0
    BY <2>2, SizesAssumption DEF Place
  <2>15. ReadProgress'
    BY <1>4, <2>3, <2>4, <2>5, <2>11, <2>12, <2>13, <2>14 DEF ReadProgress
  <2>16. ReadUnderWay' /\ WriteProgress' /\ WriteUnderWay'
    BY <2>2 DEF ReadUnderWay, WriteProgress, WriteUnderWay, Writing
  <2>17. PendingWrites'
    BY <1>2, <2>2 DEF PendingWrites
  <2> QED
    BY <2>8, <2>10, <2>15, <2>16, <2>17 DEF StoreInv
<1> QED
  BY <1>3, <1>4
(* n units further, if they are whole sectors, the loop is as many sectors  *)
(* further.                                                                 *)
LEMMA AdvancedFields ==
  ASSUME NEW l \in Loops, NEW n \in Nat
  PROVE  /\ Advanced(l, n).lba = l.lba /\ Advanced(l, n).amount = l.amount
         /\ Advanced(l, n).step = l.step
         /\ Advanced(l, n).total = l.total + n
         /\ Advanced(l, n).blocks = l.blocks + n \div SectorSize
         /\ n \div SectorSize \in Nat
         /\ Whole(n) => Place(Advanced(l, n).blocks) = Place(l.blocks) + n
<1>1. PICK q \in Nat : q = n \div SectorSize
  BY SizesAssumption, QuotientTyped
<1>2. Advanced(l, n) = [l EXCEPT !.total = @ + n, !.blocks = @ + q]
  BY <1>1 DEF Advanced
<1>3. l = [lba |-> l.lba, amount |-> l.amount, step |-> l.step,
           total |-> l.total, blocks |-> l.blocks]
  BY DEF Loops
<1>4. Advanced(l, n) = [lba |-> l.lba, amount |-> l.amount, step |-> l.step,
                        total |-> l.total + n, blocks |-> l.blocks + q]
  BY <1>2, <1>3
<1>5. Whole(n) => Place(q) = n
  BY <1>1 DEF Whole
<1>6. l.blocks \in Nat
  BY DEF Loops
<1>7. Place(l.blocks + q) = Place(l.blocks) + Place(q)
  BY <1>6, PlaceSum
<1> QED
  BY <1>1, <1>4, <1>5, <1>7

(* What the vector reads for a turn of readFlash(stream) goes on where the  *)
(* stream ends.                                                             *)
LEMMA TurnIsWritten ==
  ASSUME Typed, StoreInv, pc = "read", file # NoLoop,
         loop.total >= loop.amount,
         written' = written \o out, file' = Advanced(file, Len(out)),
         pc' = "file", UNCHANGED <<flash, job>>
  PROVE  FileProgress'
<1>0. Reading
  BY DEF Reading
<1>1. /\ job.base = Place(file.lba) /\ file.amount = Aligned(job.amount)
      /\ Whole(file.step) \/ file.step = job.amount
      /\ Len(written) = file.total
      /\ Place(file.blocks) = file.total
      /\ FromFlash(written, file.total, job.base)
      /\ loop.lba = file.lba + file.blocks
      /\ loop.amount = Aligned(file.step)
      /\ Whole(loop.step) \/ loop.step = file.step
      /\ Len(out) = loop.total
  BY <1>0, LoopsAreNat DEF StoreInv, FileProgress, ReadProgress, Asked
<1>2. job.amount \in Nat /\ job.base \in Nat
  BY <1>0, <1>1, LoopsAreNat, PlaceTyped DEF StoreInv, BusyTogether
<1>3. Place(loop.lba) = job.base + Len(written)
  <2>1. PICK a \in Nat, b \in Nat : a = file.lba /\ b = file.blocks
    BY LoopsAreNat
  <2>2. Place(a + b) = Place(a) + Place(b)
    BY PlaceSum
  <2> QED
    BY <1>1, <2>1, <2>2
<1>4. PICK n \in Nat : n = Len(out)
  BY DEF Typed
<1>5. /\ file'.lba = file.lba /\ file'.amount = file.amount
      /\ file'.step = file.step /\ file'.total = file.total + n
      /\ Whole(n) => Place(file'.blocks) = Place(file.blocks) + n
  BY <1>4, AdvancedFields DEF Typed
<1>6. written \in Seq(Int) /\ out \in Seq(Int)
  BY DEF Typed
<1>7. Len(written') = file'.total
  <2>1. Len(written \o out) = Len(written) + Len(out)
    BY <1>6
  <2> QED
    BY <1>1, <1>4, <1>5, <2>1
<1>8. CASE /\ Place(loop.blocks) = loop.total
           /\ FromFlash(out, loop.total, Place(loop.lba))
  <2>1. Whole(n)
    <3>1. n = Place(loop.blocks)
      BY <1>1, <1>4, <1>8
    <3> QED
      BY <3>1, LoopsAreNat, PlaceIsWhole
  <2>2. Place(file'.blocks) = file'.total
    BY <1>1, <1>5, <2>1
  <2>3. FromFlash(written, Len(written), job.base)
    BY <1>1
  <2>4. FromFlash(out, n, job.base + Len(written))
    BY <1>1, <1>3, <1>4, <1>8
  <2>5. FromFlash(written \o out, Len(written) + n, job.base)
    <3>1. n <= Len(out)
      BY <1>4
    <3> QED
      BY <1>2, <1>6, <2>3, <2>4, <3>1, JoinedFromFlash
  <2>6. FromFlash(written, file.total, job.base)'
    BY <1>1, <1>5, <2>5 DEF FromFlash
  <2> QED
    BY <1>1, <1>5, <1>7, <2>2, <2>6 DEF FileProgress
<1>9. CASE /\ ~Whole(loop.step)
           /\ loop.total >= Asked
           /\ FromFlash(out, Asked, Place(loop.lba))
  <2>1. Asked = job.amount
    BY <1>1, <1>9 DEF Asked
  <2>2. file'.total >= file'.amount
    <3>1. loop.amount = file.amount
      BY <1>1, <2>1 DEF Asked
    <3> QED
      BY <1>1, <1>4, <1>5, <3>1, LoopsAreNat
  <2>3. FromFlash(written, Len(written), job.base)
    BY <1>1
  <2>4. FromFlash(out, job.amount, job.base + Len(written))
    BY <1>3, <1>9, <2>1
  <2>5. job.amount <= Len(out)
    BY <1>1, <1>9, <2>1
  <2>6. FromFlash(written \o out, Len(written) + job.amount, job.base)
    BY <1>2, <1>6, <2>3, <2>4, <2>5, JoinedFromFlash
  <2>7. PICK m \in Nat : m = Len(written) + job.amount
    BY <1>2, <1>6
  <2>8. FromFlash(written \o out, job.amount, job.base)
    <3>1. job.amount <= m
      BY <1>2, <1>6, <2>7
    <3> QED
      BY <1>2, <2>6, <2>7, <3>1, FewerFromFlash
  <2>9. FromFlash(written, job.amount, job.base)'
    BY <2>8 DEF FromFlash
  <2> QED
    BY <1>1, <1>5, <1>7, <2>2, <2>9 DEF FileProgress
<1> QED
  BY <1>8, <1>9 DEF StoreInv, ReadProgress

LEMMA ReadTurnKept ==
  ASSUME Typed, SessionInv, StoreInv, Read_Turn
  PROVE  StoreInv'
<1> USE DEF sessionVars, deviceVars, storeVars, loopVars
<1>0. pc = "read" /\ Reading /\ Busy
  BY DEF Read_Turn, Reading, Busy
<1>1. InSession
  BY <1>0, HostInSession DEF SessionInv
<1>2. /\ \A i \in DOMAIN toDevice :
           toDevice[i].cmd \notin {"StreamWrite", "Read", "EraseFlash"}
      /\ \A i \in DOMAIN rx : rx[i].cmd \notin {"BlockWritten", "ReadData"}
  BY <1>0, <1>1, NothingInPipe, MethodNames
<1>3. CASE Returns(out)
  BY <1>0, <1>2, <1>3, ReturningStep
<1>4. CASE loop.total < loop.amount
  <2>1. loop.step % LengthLimit = loop.step
    <3>1. loop.step < LengthLimit
      BY <1>0 DEF StoreInv, ReadProgress
    <3> QED
      BY <3>1, LoopsAreNat, SizesAssumption
  <2>2. PICK request : request = Request("Read", loop.lba + loop.blocks, loop.step)
    OBVIOUS
  <2>3. /\ Sends(request) /\ pc' = "readAnswer"
        /\ UNCHANGED <<loop, out, file, written, rx, flash, job, status>>
    BY <1>4, <2>1, <2>2, LoopsAreNat DEF Read_Turn
  <2>4. request.cmd = "Read" /\ request.arg = loop.step
    BY <2>2 DEF Request
  <2>5. \A i \in DOMAIN toDevice' :
          \/ i \in DOMAIN toDevice /\ toDevice'[i] = toDevice[i]
          \/ toDevice'[i] = request
    BY <2>3, SendsLengthens
  <2>6. BusyTogether' /\ FileProgress' /\ ReadProgress'
    BY <1>0, <2>3
       DEF StoreInv, BusyTogether, FileProgress, ReadProgress, FromFlash,
           Asked, Busy, Reading, Writing
  <2>7. ReadUnderWay'
    BY <1>2, <2>3, <2>4, <2>5 DEF ReadUnderWay
  <2>8. WriteProgress' /\ WriteUnderWay'
    BY <2>3 DEF WriteProgress, WriteUnderWay, Writing
  <2>9. PendingWrites'
    BY <1>2, <2>4, <2>5 DEF PendingWrites
  <2> QED
    BY <2>6, <2>7, <2>8, <2>9 DEF StoreInv
<1>5. CASE /\ loop.total >= loop.amount
           /\ file # NoLoop
           /\ written' = written \o out
           /\ file' = Advanced(file, Len(out))
           /\ pc' = "file"
           /\ UNCHANGED <<sessionVars, loop, out, toDevice, rx, deviceVars,
                          storeVars>>
  <2>1. FileProgress'
    BY <1>0, <1>5, TurnIsWritten
  <2>2. file' # NoLoop
    <3>1. PICK n \in Nat : n = Len(out)
      BY DEF Typed
    <3>2. file'.amount = file.amount
      BY <1>5, <3>1, AdvancedFields DEF Typed
    <3>3. file.total < file.amount
      BY <1>0, <1>5 DEF StoreInv, ReadProgress
    <3>4. file'.amount # 0
      BY <3>2, <3>3, LoopsAreNat
    <3> QED
      BY <3>4 DEF NoLoop
  <2>3. BusyTogether'
    BY <1>0, <1>5, <2>2 DEF StoreInv, BusyTogether, Busy, Reading, Writing
  <2>4. /\ ReadProgress' /\ ReadUnderWay' /\ WriteProgress'
        /\ WriteUnderWay'
    BY <1>5 DEF ReadProgress, ReadUnderWay, WriteProgress, WriteUnderWay,
                Writing
  <2>5. PendingWrites'
    BY <1>2, <1>5 DEF PendingWrites
  <2> QED
    BY <2>1, <2>3, <2>4, <2>5 DEF StoreInv
<1> QED
  BY <1>3, <1>4, <1>5 DEF Read_Turn
(* The vector grows by what the answer brings. *)
LEMMA DataIsAppended ==
  ASSUME Typed, StoreInv, pc = "readAnswer", pc' = "read",
         NEW data \in Seq(Int), Len(data) = loop.step,
         FromFlash(data, loop.step, Place(loop.lba + loop.blocks)),
         out' = out \o data, loop' = Advanced(loop, Len(data)),
         UNCHANGED <<file, flash, job>>
  PROVE  ReadProgress'
<1>1. /\ file = NoLoop => job.base = Place(loop.lba)
      /\ file # NoLoop => /\ loop.lba = file.lba + file.blocks
                          /\ file.total < file.amount
      /\ loop.amount = Aligned(Asked)
      /\ Whole(loop.step) \/ loop.step = Asked
      /\ loop.step < LengthLimit
      /\ Len(out) = loop.total
  BY DEF StoreInv, ReadProgress
<1>2. PICK n \in Nat : n = loop.step
  BY LoopsAreNat
<1>3. /\ loop'.lba = loop.lba /\ loop'.amount = loop.amount
      /\ loop'.step = loop.step /\ loop'.total = loop.total + n
      /\ Whole(n) => Place(loop'.blocks) = Place(loop.blocks) + n
  <2>1. loop' = Advanced(loop, n)
    BY <1>2
  <2>2. PICK l \in Loops : l = Advanced(loop, n)
                           /\ l.lba = loop.lba /\ l.amount = loop.amount
                           /\ l.step = loop.step /\ l.total = loop.total + n
                           /\ (Whole(n) =>
                                 Place(l.blocks) = Place(loop.blocks) + n)
    BY AdvancedFields, AdvancedTyped DEF Typed
  <2> QED
    BY <2>1, <2>2
<1>4. Asked' = Asked /\ Asked \in Nat
  BY LoopsAreNat DEF Asked, StoreInv, BusyTogether, Reading
<1>5. PICK at \in Nat : at = Place(loop.lba)
  BY LoopsAreNat, PlaceTyped
<1>6. out \in Seq(Int)
  BY DEF Typed
<1>7. Len(out \o data) = loop.total + n
  <2>1. Len(out \o data) = Len(out) + Len(data)
    BY <1>6, ConcatProperties
  <2> QED
    BY <1>1, <1>2, <2>1
<1>8. CASE /\ Place(loop.blocks) = loop.total
           /\ FromFlash(out, loop.total, at)
  <2>1. Place(loop.lba + loop.blocks) = at + Len(out)
    <3>1. PICK a \in Nat, b \in Nat : a = loop.lba /\ b = loop.blocks
      BY LoopsAreNat
    <3>2. Place(a + b) = Place(a) + Place(b)
      BY PlaceSum
    <3> QED
      BY <1>1, <1>5, <1>8, <3>1, <3>2
  <2>2. FromFlash(out, Len(out), at) /\ FromFlash(data, n, at + Len(out))
    BY <1>1, <1>2, <1>8, <2>1
  <2>3. FromFlash(out \o data, Len(out) + n, at)
    <3>1. n <= Len(data)
      BY <1>2
    <3> QED
      BY <1>6, <2>2, <3>1, JoinedFromFlash
  <2>4. CASE Whole(n)
    <3>1. Place(loop'.blocks) = loop'.total
      BY <1>3, <1>8, <2>4
    <3>2. FromFlash(out, loop.total, Place(loop.lba))'
      BY <1>1, <1>3, <1>5, <2>3 DEF FromFlash
    <3> QED
      BY <1>1, <1>3, <1>4, <1>7, <3>1, <3>2 DEF ReadProgress
  <2>5. CASE ~Whole(n)
    <3>1. n = Asked
      BY <1>1, <1>2, <2>5
    <3>2. PICK m \in Nat : m = Len(out) + n
      BY <1>6
    <3>3. FromFlash(out \o data, n, at)
      BY <1>6, <2>3, <3>2, FewerFromFlash
    <3>4. FromFlash(out, Asked, Place(loop.lba))'
      BY <1>3, <1>4, <1>5, <3>1, <3>3 DEF FromFlash
    <3>5. loop'.total >= Asked' /\ ~Whole(loop'.step)
      BY <1>2, <1>3, <1>4, <2>5, <3>1, LoopsAreNat
    <3> QED
      BY <1>1, <1>3, <1>4, <1>7, <3>4, <3>5 DEF ReadProgress
  <2> QED
    BY <2>4, <2>5
<1>9. CASE /\ ~Whole(loop.step)
           /\ loop.total >= Asked
           /\ FromFlash(out, Asked, at)
  <2>1. FromFlash(out \o data, Asked, at)
    <3>1. PICK m \in Nat : m = Asked
      BY <1>4
    <3>2. m <= Len(out) /\ FromFlash(out, m, at)
      BY <1>1, <1>9, <3>1
    <3>3. FromFlash(out \o data, m, at)
      BY <1>6, <3>2, LongerFromFlash
    <3> QED
      BY <3>1, <3>3
  <2>2. FromFlash(out, Asked, Place(loop.lba))'
    BY <1>3, <1>4, <1>5, <2>1 DEF FromFlash
  <2>3. loop'.total >= Asked' /\ ~Whole(loop'.step)
    BY <1>3, <1>4, <1>9, LoopsAreNat
  <2> QED
    BY <1>1, <1>3, <1>4, <1>7, <2>2, <2>3 DEF ReadProgress
<1> QED
  BY <1>5, <1>8, <1>9 DEF StoreInv, ReadProgress

(* A packet that is read whole is the packet that was sent. *)
LEMMA NothingBehind ==
  ASSUME NoTrailers, NEW data \in Seq(Int), NEW n \in Trailers
  PROVE  WithTrailer(data, n) = data
<1>1. [i \in 1 .. n |-> Garbage] = <<>>
  BY DEF NoTrailers
<1>2. data \o <<>> = data
  BY ConcatEmptySeq
<1> QED
  BY <1>1, <1>2 DEF WithTrailer

LEMMA ReadReturnsKept ==
  ASSUME Typed, SessionInv, StoreInv, NoTrailers, Read_Returns
  PROVE  StoreInv'
<1> USE DEF sessionVars, deviceVars, storeVars
<1>0. pc = "readAnswer" /\ Reading /\ Busy /\ Receives
  BY DEF Read_Returns, Reading, Busy
<1>1. InSession
  BY <1>0, HostInSession DEF SessionInv
<1>2. CASE ~IsData(Received)
  BY <1>0, <1>2, FailingStep DEF Read_Returns, Throws
<1>3. CASE IsData(Received)
  <2>1. PICK n \in Trailers :
          /\ out' = out \o WithTrailer(Received.arg, n)
          /\ loop' = Advanced(loop, Len(WithTrailer(Received.arg, n)))
    BY <1>3 DEF Read_Returns
  <2>2. pc' = "read" /\ UNCHANGED <<file, written, status, toDevice, flash, job>>
    BY <1>3 DEF Read_Returns
  <2>3. Received \in Packets /\ Received.arg \in Seq(Int)
    BY <1>0, <1>3, ReceivesTyped, ReceivedData DEF IsData, Typed
  <2>4. PICK data \in Seq(Int) : data = Received.arg
    BY <2>3
  <2>5. WithTrailer(data, n) = data
    BY NothingBehind
  <2>6. out' = out \o data /\ loop' = Advanced(loop, Len(data))
    BY <2>1, <2>4, <2>5
  <2>7. rx[1] = Received /\ 1 \in DOMAIN rx
    BY <1>0, ReceivesShortens
  <2>8. Received.cmd = "ReadData" /\ Received.address = loop.lba + loop.blocks
    BY <1>3 DEF IsData
  <2>9. /\ Len(data) = loop.step
        /\ FromFlash(data, loop.step, Place(loop.lba + loop.blocks))
    BY <1>0, <2>4, <2>7, <2>8 DEF StoreInv, ReadUnderWay
  <2>10. ReadProgress'
    BY <1>0, <2>2, <2>6, <2>9, DataIsAppended
  <2>11. FileProgress'
    BY <1>0, <2>2 DEF StoreInv, FileProgress, Reading, FromFlash
  <2>12. BusyTogether'
    BY <1>0, <2>2 DEF StoreInv, BusyTogether, Busy, Reading, Writing
  <2>13. ReadUnderWay' /\ WriteProgress' /\ WriteUnderWay'
    BY <2>2 DEF ReadUnderWay, WriteProgress, WriteUnderWay, Writing
  <2>14. PendingWrites'
    BY <2>2 DEF StoreInv, PendingWrites, IsPart
  <2> QED
    BY <2>10, <2>11, <2>12, <2>13, <2>14 DEF StoreInv
<1> QED
  BY <1>2, <1>3

LEMMA WriteTurnKept ==
  ASSUME Typed, SessionInv, StoreInv, Write_Turn
  PROVE  StoreInv'
<1> USE DEF sessionVars, deviceVars, storeVars
<1>0. pc = "write" /\ Writing /\ Busy
  BY DEF Write_Turn, Writing, Busy
<1>1. InSession
  BY <1>0, HostInSession DEF SessionInv
<1>2. /\ \A i \in DOMAIN toDevice :
           toDevice[i].cmd \notin {"StreamWrite", "Read", "EraseFlash"}
      /\ \A i \in DOMAIN rx : rx[i].cmd \notin {"BlockWritten", "ReadData"}
  BY <1>0, <1>1, NothingInPipe, MethodNames
<1>3. CASE ~(loop.total < loop.amount)
  <2>1. Returns(result)
    BY <1>3, LoopsAreNat DEF Write_Turn
  <2> QED
    BY <1>0, <1>2, <2>1, ReturningStep
<1>4. CASE loop.total < loop.amount
  <2>1. PICK step \in Nat : step = Least(loop.step, loop.amount - loop.total)
    BY <1>4, LoopsAreNat DEF Least
  <2>2. PICK request :
          request = Request("StreamWrite", loop.lba + loop.blocks,
                        SubSeq(job.data, loop.total + 1, loop.total + step))
    OBVIOUS
  <2>3. /\ loop' = [loop EXCEPT !.step = step]
        /\ Sends(request) /\ pc' = "writeAnswer"
        /\ UNCHANGED <<out, file, written, rx, flash, job, status>>
    BY <1>4, <2>1, <2>2, LoopsAreNat DEF Write_Turn
  <2>4. /\ loop'.lba = loop.lba /\ loop'.amount = loop.amount
        /\ loop'.step = step /\ loop'.total = loop.total
        /\ loop'.blocks = loop.blocks
    BY <2>3 DEF Typed, Loops
  <2>5. /\ loop.total <= loop.amount
        /\ Place(loop.blocks) = loop.total
        /\ Whole(loop.step) \/ loop.step >= loop.amount - loop.total
        /\ FromFlash(job.data, loop.total, job.base)
        /\ job.op = "write" /\ job.base = Place(loop.lba) /\ status = "busy"
    BY <1>0, <1>4, LoopsAreNat
       DEF StoreInv, WriteProgress, BusyTogether
  <2>6. /\ step <= loop.amount - loop.total
        /\ Whole(step) \/ step >= loop.amount - loop.total
    BY <1>4, <2>1, <2>5, LoopsAreNat DEF Least
  <2>7. request.cmd = "StreamWrite" /\ IsPart(request, loop.total, loop.total + step)
    <3>1. PICK a \in Nat, b \in Nat : a = loop.lba /\ b = loop.blocks
      BY LoopsAreNat
    <3>2. Place(a + b) = Place(a) + Place(b)
      BY PlaceSum
    <3>3. Place(loop.lba + loop.blocks) = job.base + loop.total
      BY <2>5, <3>1, <3>2
    <3> QED
      BY <2>2, <3>3 DEF Request, IsPart
  <2>8. \A i \in DOMAIN toDevice' :
          \/ i \in DOMAIN toDevice /\ toDevice'[i] = toDevice[i]
          \/ toDevice'[i] = request
    BY <2>3, SendsLengthens
  <2>9. BusyTogether'
    BY <1>0, <2>3, <2>4
       DEF StoreInv, BusyTogether, Busy, Reading, Writing
  <2>10. FromFlash(job.data, loop.total, job.base)'
    BY <2>3, <2>4, <2>5 DEF FromFlash
  <2>11. WriteProgress'
    BY <2>3, <2>4, <2>5, <2>6, <2>10 DEF WriteProgress
  <2>12. \A i \in DOMAIN toDevice' :
           toDevice'[i].cmd = "StreamWrite" => toDevice'[i] = request
    BY <1>2, <2>8
  <2>13. IsPart(request, loop.total, loop.total + loop.step)'
    BY <2>3, <2>4, <2>7 DEF IsPart
  <2>14. WriteUnderWay'
    BY <1>2, <2>3, <2>12, <2>13 DEF WriteUnderWay, IsPart
  <2>15. FileProgress' /\ ReadProgress' /\ ReadUnderWay'
    BY <2>3 DEF FileProgress, ReadProgress, ReadUnderWay, Reading
  <2>16. PendingWrites'
    <3>1. PICK from \in Nat, to \in Nat :
            from = loop.total /\ to = loop.total + step
      BY LoopsAreNat
    <3>2. Len(job.data) = loop.amount
      BY <1>0 DEF Typed, Writing
    <3>3. from \in 0 .. Len(job.data) /\ to \in 0 .. Len(job.data)
      BY <2>5, <2>6, <3>1, <3>2, LoopsAreNat
    <3>4. IsPart(request, from, to)'
      BY <2>3, <2>7, <3>1 DEF IsPart
    <3>5. \A i \in DOMAIN toDevice' : toDevice'[i].cmd = "StreamWrite" =>
            IsPart(toDevice[i], from, to)'
      BY <2>12, <3>4 DEF IsPart
    <3> QED
      BY <2>3, <2>5, <3>3, <3>5 DEF PendingWrites
  <2> QED
    BY <2>9, <2>11, <2>14, <2>15, <2>16 DEF StoreInv
<1> QED
  BY <1>3, <1>4

LEMMA WriteReturnsKept ==
  ASSUME Typed, SessionInv, StoreInv, Write_Returns
  PROVE  StoreInv'
<1> USE DEF sessionVars, deviceVars, storeVars
<1>0. pc = "writeAnswer" /\ Writing /\ Busy /\ Receives
  BY DEF Write_Returns, Writing, Busy
<1>1. CASE ~IsBlockWritten(Received)
  BY <1>0, <1>1, FailingStep DEF Write_Returns, Throws
<1>2. CASE IsBlockWritten(Received)
  <2>1. /\ loop' = Advanced(loop, loop.step) /\ pc' = "write"
        /\ UNCHANGED <<out, file, written, status, toDevice, flash, job>>
    BY <1>2 DEF Write_Returns
  <2>2. PICK n \in Nat : n = loop.step
    BY LoopsAreNat
  <2>3. /\ loop'.lba = loop.lba /\ loop'.amount = loop.amount
        /\ loop'.step = loop.step /\ loop'.total = loop.total + n
        /\ Whole(n) => Place(loop'.blocks) = Place(loop.blocks) + n
    BY <2>1, <2>2, AdvancedFields DEF Typed
  <2>4. /\ loop.total <= loop.amount
        /\ Place(loop.blocks) = loop.total
        /\ Whole(loop.step) \/ loop.step >= loop.amount - loop.total
        /\ loop.step <= loop.amount - loop.total
    BY <1>0 DEF StoreInv, WriteProgress
  <2>5. rx[1] = Received /\ 1 \in DOMAIN rx /\ Received.cmd = "BlockWritten"
    BY <1>0, <1>2, ReceivesShortens DEF IsBlockWritten
  <2>6. FromFlash(job.data, loop.total + loop.step, job.base)
    BY <1>0, <2>5 DEF StoreInv, WriteUnderWay
  <2>7. FromFlash(job.data, loop.total, job.base)'
    BY <2>1, <2>2, <2>3, <2>6 DEF FromFlash
  <2>8. /\ loop'.total <= loop'.amount
        /\ Place(loop'.blocks) = loop'.total \/ loop'.total = loop'.amount
        /\ Whole(loop'.step) \/ loop'.step >= loop'.amount - loop'.total
    BY <2>2, <2>3, <2>4, LoopsAreNat
  <2>9. WriteProgress'
    BY <2>1, <2>7, <2>8 DEF WriteProgress
  <2>10. BusyTogether'
    BY <1>0, <2>1, <2>3
       DEF StoreInv, BusyTogether, Busy, Reading, Writing
  <2>11. /\ FileProgress' /\ ReadProgress' /\ ReadUnderWay' /\ WriteUnderWay'
    BY <2>1 DEF FileProgress, ReadProgress, ReadUnderWay, WriteUnderWay,
                Reading
  <2>12. PendingWrites'
    BY <2>1 DEF StoreInv, PendingWrites, IsPart
  <2> QED
    BY <2>9, <2>10, <2>11, <2>12 DEF StoreInv
<1> QED
  BY <1>1, <1>2
----------------------------------------------------------------------------
(* The device's steps.                                                      *)

LEMMA DeviceLeavesHost ==
  ASSUME DeviceStep
  PROVE  /\ Takes
         /\ UNCHANGED <<port, pc, mustClose, negotiated, wanted, opened, loop,
                        out, file, written, job, status, result>>
BY DEF DeviceStep, Takes_Hello, Takes_Open, Takes_Close, Takes_Erase,
       Takes_Other, Takes_Read, Takes_Write, Takes_Refusing,
       hostVars, sessionVars, loopVars, storeVars

(* While a read or write runs, the device takes what is mild, or the call's *)
(* own request, and nothing it said before is the call's answer.            *)
LEMMA BusyDevice ==
  ASSUME Typed, SessionInv, Takes, Busy
  PROVE  /\ InSession
         /\ Taken.cmd # "EraseFlash"
         /\ Taken.cmd = "Read" => pc = "readAnswer"
         /\ Taken.cmd = "StreamWrite" => pc = "writeAnswer"
         /\ \A i \in DOMAIN rx : rx[i].cmd \in MildAnswers
<1>1. pc \notin Methods \cup {"idle", "sendHello"}
  BY MethodNames DEF Busy
<1>2. InSession
  BY <1>1, HostInSession DEF SessionInv
<1>3. \/ Taken.cmd \in Mild
      \/ pc = "readAnswer" /\ Taken.cmd = "Read"
      \/ pc = "writeAnswer" /\ Taken.cmd = "StreamWrite"
  BY <1>1, <1>2, TakesShortens DEF SessionInv, OwnLast, OwnRequest
<1>4. \A i \in DOMAIN rx : rx[i].cmd \in MildAnswers
  BY <1>2, TakesShortens DEF SessionInv, OwnLast
<1> QED
  BY <1>2, <1>3, <1>4 DEF Mild

LEMMA FlashLeftAlone ==
  ASSUME DeviceStep, Taken.cmd \notin {"EraseFlash", "StreamWrite"}
  PROVE  flash' = flash
BY DEF DeviceStep, Takes_Hello, Takes_Open, Takes_Close, Takes_Erase,
       Takes_Other, Takes_Read, Takes_Write, Takes_Refusing, deviceVars

LEMMA WriteEffect ==
  ASSUME DeviceStep, Taken.cmd = "StreamWrite"
  PROVE  \/ flash' = flash /\ Refuses
         \/ /\ InFlash(Taken.address, Len(Taken.arg))
            /\ flash' = Store!Overlay(flash, Place(Taken.address), Taken.arg)
            /\ Says(Answer("BlockWritten", Taken.address, 0))
<1>1. Takes_Write \/ Takes_Refusing
  <2>1. \A m \in Methods : Method[m][1] # "StreamWrite"
    BY MethodNames DEF Method
  <2> QED
    BY <2>1 DEF DeviceStep, Takes_Hello, Takes_Open, Takes_Close, Takes_Erase,
                Takes_Other, Takes_Read
<1> QED
  BY <1>1 DEF Takes_Write, Takes_Refusing, deviceVars, Place

LEMMA ReadEffect ==
  ASSUME DeviceStep, Taken.cmd = "Read"
  PROVE  \/ Refuses
         \/ /\ InFlash(Taken.address, Taken.arg)
            /\ Says(Answer("ReadData", Taken.address,
                           Store!Contents(flash, Taken.address * SectorSize,
                                          Taken.arg)))
<1>1. Takes_Read \/ Takes_Refusing
  <2>1. \A m \in Methods : Method[m][1] # "Read"
    BY MethodNames DEF Method
  <2> QED
    BY <2>1 DEF DeviceStep, Takes_Hello, Takes_Open, Takes_Close, Takes_Erase,
                Takes_Other, Takes_Write
<1> QED
  BY <1>1 DEF Takes_Read, Takes_Refusing

LEMMA RefusalIsLast ==
  ASSUME Typed, Refuses, port = "open"
  PROVE  \A i \in DOMAIN rx' :
           \/ i \in DOMAIN rx /\ rx'[i] = rx[i]
           \/ rx'[i].cmd = "Error"
<1>1. PICK packet : packet = Answer("Error", 0, 0)
  OBVIOUS
<1>2. Says(packet) /\ packet.cmd = "Error"
  BY <1>1 DEF Refuses, Answer
<1> QED
  BY <1>2, SaysLengthens

(* A ReadData the device says is of the flash as it is. *)
LEMMA DataIsOfFlash ==
  ASSUME Typed, DeviceStep, port = "open",
         NEW i \in DOMAIN rx', rx'[i].cmd = "ReadData",
         ~(i \in DOMAIN rx /\ rx'[i] = rx[i])
  PROVE  /\ Taken.cmd = "Read"
         /\ Len(rx'[i].arg) = Taken.arg
         /\ FromFlash(rx'[i].arg, Taken.arg, Place(rx'[i].address))
<1>1. Takes
  BY DeviceLeavesHost
<1>2. Taken \in Requests
  BY <1>1, TakesTyped DEF Typed
<1>3. Taken.cmd = "Read"
  <2>1. PICK packet : Says(packet) /\ Answers(Taken, packet)
    BY DeviceAnswers
  <2>2. rx'[i] = packet
    BY <2>1, SaysLengthens
  <2>3. \A m \in Methods : Method[m][2] # "ReadData"
    BY MethodNames DEF Method
  <2> QED
    BY <2>1, <2>2, <2>3 DEF Answers
<1>4. Taken.address \in Nat /\ Taken.arg \in Nat
  BY <1>2, <1>3, TakenRead
<1>5. ~Refuses
  BY RefusalIsLast
<1>6. PICK data : data = Store!Contents(flash, Taken.address * SectorSize, Taken.arg)
  OBVIOUS
<1>7. /\ InFlash(Taken.address, Taken.arg)
      /\ Says(Answer("ReadData", Taken.address, data))
  BY <1>3, <1>5, <1>6, ReadEffect
<1>8. PICK packet : packet = Answer("ReadData", Taken.address, data)
  OBVIOUS
<1>9. rx'[i] = packet
  BY <1>7, <1>8, SaysLengthens
<1>10. rx'[i].arg = data /\ rx'[i].address = Taken.address
  BY <1>8, <1>9 DEF Answer
<1>11. PICK at \in Nat, n \in Nat : at = Place(Taken.address) /\ n = Taken.arg
  BY <1>4, PlaceTyped
<1>12. data = Store!Contents(flash, at, n)
  BY <1>6, <1>11 DEF Place
<1>13. data \in Seq(Int)
  BY <1>4, <1>6, <1>7, ContentsTyped DEF Typed
<1>14. Len(data) = n /\ FromFlash(data, n, at)
  BY <1>12, <1>13, ContentsFromFlash
<1> QED
  BY <1>3, <1>10, <1>11, <1>14

(* A BlockWritten the device says is of a write it has done. *)
LEMMA WrittenIsDone ==
  ASSUME Typed, DeviceStep, port = "open",
         NEW i \in DOMAIN rx', rx'[i].cmd = "BlockWritten",
         ~(i \in DOMAIN rx /\ rx'[i] = rx[i])
  PROVE  Taken.cmd = "StreamWrite" /\ ~Refuses
<1>1. PICK packet : Says(packet) /\ Answers(Taken, packet)
  BY DeviceAnswers
<1>2. rx'[i] = packet
  BY <1>1, SaysLengthens
<1>3. \A m \in Methods : Method[m][2] # "BlockWritten"
  BY MethodNames DEF Method
<1>4. Taken.cmd = "StreamWrite"
  BY <1>1, <1>2, <1>3 DEF Answers
<1> QED
  BY <1>4, RefusalIsLast

LEMMA PartOfData ==
  ASSUME NEW data \in Seq(Int), NEW total \in Nat, NEW step \in Nat,
         total + step <= Len(data)
  PROVE  /\ Len(SubSeq(data, total + 1, total + step)) = step
         /\ \A k \in 1 .. step :
              SubSeq(data, total + 1, total + step)[k] = data[total + k]
<1>1. \A k \in total + 1 .. total + step : data[k] \in Int
  OBVIOUS
<1>2. PICK first \in Int, last \in Int :
        first = total + 1 /\ last = total + step
  OBVIOUS
<1>3. /\ Len(SubSeq(data, first, last))
           = IF first <= last THEN last - first + 1 ELSE 0
      /\ \A k \in 1 .. last - first + 1 :
           SubSeq(data, first, last)[k] = data[first + k - 1]
  BY <1>1, <1>2, SubSeqProperties
<1>4. last - first + 1 = step /\ \A k \in 1 .. step : first + k - 1 = total + k
  BY <1>2
<1>5. Len(SubSeq(data, first, last)) = step
  BY <1>2, <1>3, <1>4
<1> QED
  BY <1>2, <1>3, <1>4, <1>5

LEMMA DeviceStepKept ==
  ASSUME Typed, SessionInv, StoreInv, DeviceStep
  PROVE  StoreInv'
<1>1. /\ Takes
      /\ UNCHANGED <<port, pc, mustClose, negotiated, wanted, opened, loop,
                     out, file, written, job, status, result>>
  BY DeviceLeavesHost
<1>2. BusyTogether'
  BY <1>1 DEF StoreInv, BusyTogether, Busy, Reading, Writing
<1>3. \A i \in DOMAIN toDevice' :
        i + 1 \in DOMAIN toDevice /\ toDevice'[i] = toDevice[i + 1]
  BY <1>1, TakesShortens
<1>4. PendingWrites'
  <2> SUFFICES ASSUME NEW i \in DOMAIN toDevice',
                      toDevice'[i].cmd = "StreamWrite"
               PROVE  /\ job.op = "write"
                      /\ status \in {"busy", "failed"}
                      /\ \E from, to \in 0 .. Len(job.data) :
                           IsPart(toDevice[i], from, to)'
    BY <1>1 DEF PendingWrites
  <2>1. PICK k \in DOMAIN toDevice : toDevice[k] = toDevice'[i]
    BY <1>3
  <2>2. /\ job.op = "write"
        /\ status \in {"busy", "failed"}
        /\ \E from, to \in 0 .. Len(job.data) : IsPart(toDevice[k], from, to)
    BY <2>1 DEF StoreInv, PendingWrites
  <2> QED
    BY <1>1, <2>1, <2>2 DEF IsPart
<1>5. CASE ~Busy
  BY <1>1, <1>2, <1>4, <1>5, NotBusy DEF Busy, StoreInv
<1>6. CASE Busy
  <2>1. /\ InSession /\ port = "open"
        /\ Taken.cmd # "EraseFlash"
        /\ Taken.cmd = "Read" => pc = "readAnswer"
        /\ Taken.cmd = "StreamWrite" => pc = "writeAnswer"
        /\ \A i \in DOMAIN rx : rx[i].cmd \notin {"ReadData", "BlockWritten"}
    BY <1>1, <1>6, BusyDevice DEF InSession, MildAnswers
  <2>2. 1 \in DOMAIN toDevice /\ Taken = toDevice[1]
    BY <1>1, TakesShortens
  <2>3. CASE Taken.cmd # "StreamWrite"
    <3>1. flash' = flash
      BY <2>1, <2>3, FlashLeftAlone
    <3>2. FileProgress' /\ ReadProgress' /\ WriteProgress'
      BY <1>1, <3>1
         DEF StoreInv, FileProgress, ReadProgress, WriteProgress, FromFlash,
             Asked, Reading, Writing
    <3>3. ReadUnderWay'
      <4> SUFFICES ASSUME pc = "readAnswer"
                   PROVE  /\ \A i \in DOMAIN toDevice' :
                               toDevice'[i].cmd = "Read" =>
                                 toDevice'[i].arg = loop.step
                          /\ \A i \in DOMAIN rx' :
                               rx'[i].cmd = "ReadData" =>
                                 /\ Len(rx'[i].arg) = loop.step
                                 /\ FromFlash(rx[i].arg, loop.step,
                                              Place(rx[i].address))'
        BY <1>1 DEF ReadUnderWay
      <4>1. \A k \in DOMAIN toDevice :
              toDevice[k].cmd = "Read" => toDevice[k].arg = loop.step
        BY DEF StoreInv, ReadUnderWay
      <4>2. ASSUME NEW i \in DOMAIN rx', rx'[i].cmd = "ReadData"
            PROVE  /\ Len(rx'[i].arg) = loop.step
                   /\ FromFlash(rx'[i].arg, loop.step, Place(rx'[i].address))
        <5>1. ~(i \in DOMAIN rx /\ rx'[i] = rx[i])
          BY <2>1, <4>2
        <5>2. /\ Taken.cmd = "Read"
              /\ Len(rx'[i].arg) = Taken.arg
              /\ FromFlash(rx'[i].arg, Taken.arg, Place(rx'[i].address))
          BY <2>1, <4>2, <5>1, DataIsOfFlash
        <5>3. Taken.arg = loop.step
          BY <2>2, <4>1, <5>2
        <5> QED
          BY <5>2, <5>3
      <4>3. \A i \in DOMAIN rx' : rx'[i].cmd = "ReadData" =>
              FromFlash(rx[i].arg, loop.step, Place(rx[i].address))'
        BY <1>1, <3>1, <4>2 DEF FromFlash
      <4> QED
        BY <1>3, <4>1, <4>2, <4>3
    <3>4. WriteUnderWay'
      <4>1. \A i \in DOMAIN rx' : rx'[i].cmd # "BlockWritten"
        BY <2>1, <2>3, WrittenIsDone
      <4> QED
        BY <1>1, <1>3, <4>1 DEF StoreInv, WriteUnderWay, IsPart
    <3> QED
      BY <1>2, <1>4, <3>2, <3>3, <3>4 DEF StoreInv
  <2>4. CASE Taken.cmd = "StreamWrite"
    <3>1. pc = "writeAnswer" /\ Writing
      BY <2>1, <2>4 DEF Writing
    <3>2. /\ FileProgress' /\ ReadProgress' /\ ReadUnderWay'
      BY <1>1, <3>1 DEF FileProgress, ReadProgress, ReadUnderWay, Reading
    <3>3. /\ loop.total <= loop.amount
          /\ Place(loop.blocks) = loop.total
          /\ Whole(loop.step) \/ loop.step >= loop.amount - loop.total
          /\ FromFlash(job.data, loop.total, job.base)
          /\ loop.step <= loop.amount - loop.total
      BY <3>1 DEF StoreInv, WriteProgress
    <3>4. IsPart(Taken, loop.total, loop.total + loop.step)
      BY <2>2, <2>4, <3>1 DEF StoreInv, WriteUnderWay
    <3>5. \A i \in DOMAIN toDevice' :
            toDevice'[i].cmd = "StreamWrite" =>
              IsPart(toDevice[i], loop.total, loop.total + loop.step)'
      BY <1>1, <1>3, <3>1 DEF StoreInv, WriteUnderWay, IsPart
    <3>6. CASE flash' = flash /\ Refuses
      <4>1. WriteProgress'
        BY <1>1, <3>1, <3>6 DEF StoreInv, WriteProgress, FromFlash, Writing
      <4>2. \A i \in DOMAIN rx' : rx'[i].cmd # "BlockWritten"
        BY <2>1, <3>6, WrittenIsDone
      <4>3. WriteUnderWay'
        BY <1>1, <3>5, <4>2 DEF WriteUnderWay
      <4> QED
        BY <1>2, <1>4, <3>2, <4>1, <4>3 DEF StoreInv
    <3>7. CASE /\ InFlash(Taken.address, Len(Taken.arg))
               /\ flash' = Store!Overlay(flash, Place(Taken.address), Taken.arg)
      <4>1. PICK total \in Nat, step \in Nat, data \in Seq(Int) :
              total = loop.total /\ step = loop.step /\ data = job.data
        BY LoopsAreNat DEF Typed
      <4>2. PICK base \in Nat : base = job.base
        BY <3>1, LoopsAreNat, PlaceTyped DEF StoreInv, BusyTogether
      <4>3. PICK part, at : part = Taken.arg /\ at = Place(Taken.address)
        OBVIOUS
      <4>4. at = base + total /\ part = SubSeq(data, total + 1, total + step)
        BY <3>4, <4>1, <4>2, <4>3 DEF IsPart
      <4>5. total + step <= Len(data)
        <5>1. Len(job.data) = loop.amount
          BY <3>1 DEF Typed
        <5> QED
          BY <3>3, <4>1, <5>1, LoopsAreNat
      <4>6. Len(part) = step /\ \A k \in 1 .. step : part[k] = data[total + k]
        BY <4>4, <4>5, PartOfData
      <4>7. PICK end \in Nat : end = Sectors * SectorSize
        BY Sizes
      <4>8. at + step <= end
        BY <3>7, <4>3, <4>6, <4>7 DEF InFlash, Place
      <4>9. \A i \in 1 .. total + step : data[i] = flash'[base + i - 1]
        <5>1. \A u \in base .. base + total + step - 1 :
                u \in DOMAIN flash /\ u < at + step
          BY <4>4, <4>7, <4>8 DEF Typed, Units
        <5>2. flash' = Store!Overlay(flash, at, part)
          BY <3>7, <4>3
        <5>3. \A u \in base .. base + total + step - 1 :
                flash'[u] = IF at <= u THEN part[u - at + 1] ELSE flash[u]
          BY <4>6, <5>1, <5>2 DEF Store!Overlay
        <5>4. \A i \in 1 .. total : data[i] = flash'[base + i - 1]
          <6> TAKE i \in 1 .. total
          <6>1. base + i - 1 \in base .. base + total + step - 1
            OBVIOUS
          <6>2. flash'[base + i - 1] = flash[base + i - 1]
            BY <4>4, <5>3, <6>1
          <6>3. FromFlash(data, total, base)
            BY <3>3, <4>1, <4>2
          <6> QED
            BY <6>2, <6>3 DEF FromFlash
        <5>5. ASSUME NEW i \in 1 .. total + step, i > total
              PROVE  data[i] = flash'[base + i - 1]
          <6>1. PICK k \in 1 .. step : i = total + k
            <7>1. i - total \in 1 .. step /\ i = total + (i - total)
              BY <5>5
            <7> QED
              BY <7>1
          <6>2. PICK u \in base .. base + total + step - 1 :
                  u = base + i - 1 /\ at <= u /\ u - at + 1 = k
            BY <4>4, <6>1
          <6>3. flash'[u] = part[k]
            BY <5>3, <6>2
          <6> QED
            BY <4>6, <6>1, <6>2, <6>3
        <5> QED
          BY <5>4, <5>5
      <4>10. FromFlash(job.data, loop.total + loop.step, job.base)'
        BY <1>1, <4>1, <4>2, <4>9 DEF FromFlash
      <4>11. FromFlash(job.data, loop.total, job.base)'
        <5>1. \A i \in 1 .. total : i \in 1 .. total + step
          OBVIOUS
        <5> QED
          BY <1>1, <4>1, <4>2, <4>9, <5>1 DEF FromFlash
      <4>12. WriteProgress'
        BY <1>1, <3>1, <3>3, <4>11 DEF WriteProgress
      <4>13. WriteUnderWay'
        BY <1>1, <3>5, <4>10 DEF WriteUnderWay
      <4> QED
        BY <1>2, <1>4, <3>2, <4>12, <4>13 DEF StoreInv
    <3> QED
      BY <2>4, <3>6, <3>7, WriteEffect
  <2> QED
    BY <2>3, <2>4
<1> QED
  BY <1>5, <1>6

LEMMA SendsLogKept ==
  ASSUME Typed, StoreInv, SendsLog
  PROVE  StoreInv'
<1>1. UNCHANGED <<pc, loop, out, file, written, toDevice, flash, job, status>>
  BY DEF SendsLog, hostVars, loopVars, storeVars
<1>2. \A i \in DOMAIN rx' :
        \/ i \in DOMAIN rx /\ rx'[i] = rx[i]
        \/ rx'[i].cmd = "Log"
  <2>1. PICK packet : packet = Answer("Log", 0, 0)
    OBVIOUS
  <2>2. Says(packet) /\ packet.cmd = "Log"
    BY <2>1 DEF SendsLog, Answer
  <2>3. CASE port = "open"
    BY <2>2, <2>3, SaysLengthens
  <2>4. CASE port # "open"
    BY <2>2, <2>4 DEF Says
  <2> QED
    BY <2>3, <2>4
<1>3. BusyTogether' /\ FileProgress' /\ ReadProgress' /\ WriteProgress'
      /\ PendingWrites'
  BY <1>1 DEF StoreInv, BusyTogether, FileProgress, ReadProgress,
              WriteProgress, PendingWrites, FromFlash, Asked, Busy, Reading,
              Writing, IsPart
<1>4. ReadUnderWay'
  BY <1>1, <1>2 DEF StoreInv, ReadUnderWay, FromFlash
<1>5. WriteUnderWay'
  BY <1>1, <1>2 DEF StoreInv, WriteUnderWay, FromFlash, IsPart
<1> QED
  BY <1>3, <1>4, <1>5 DEF StoreInv

SizesFit == SectorsFit /\ LengthsFit /\ NoTrailers

LEMMA StepKept ==
  ASSUME SizesFit, Typed, SessionInv, StoreInv, [Next]_vars
  PROVE  StoreInv'
<1>1. CASE HostStep
  BY <1>1, SessionStepsKept, FileTurnKept, ReadTurnKept, ReadReturnsKept,
     WriteTurnKept, WriteReturnsKept DEF HostStep, SizesFit
<1>2. CASE UNCHANGED vars
  BY <1>2 DEF vars, hostVars, loopVars, deviceVars, storeVars, StoreInv,
              BusyTogether, FileProgress, ReadProgress, ReadUnderWay,
              WriteProgress, WriteUnderWay, PendingWrites, FromFlash, Asked,
              Busy, Reading, Writing, IsPart
<1> QED
  BY <1>1, <1>2, SessionStepsKept, BeginningKept, DeviceStepKept,
     SendsLogKept DEF Next, SizesFit
----------------------------------------------------------------------------
(* Every step is one of FlashStore, or leaves it alone.                     *)

StoreStep == [Store!Next]_(Store!vars)

LEMMA StoreRests ==
  ASSUME UNCHANGED <<flash, job, status, result>>
  PROVE  StoreStep
BY DEF StoreStep, Store!vars

LEMMA StoreForgets ==
  ASSUME ResultIsUsed, flash' = flash
  PROVE  StoreStep
<1>1. CASE status = "done"
  <2>1. Store!Forget
    BY <1>1 DEF ResultIsUsed, Store!Forget
  <2> QED
    BY <2>1 DEF StoreStep, Store!Next
<1>2. CASE status # "done"
  BY <1>2, StoreRests DEF ResultIsUsed, storeVars
<1> QED
  BY <1>1, <1>2

LEMMA StoreFails ==
  ASSUME StoreInv, Busy, status' = "failed", UNCHANGED <<flash, job, result>>
  PROVE  StoreStep
<1>1. Store!Fail
  BY DEF StoreInv, BusyTogether, Store!Fail
<1> QED
  BY <1>1 DEF StoreStep, Store!Next

LEMMA StoreReturnsRead ==
  ASSUME StoreInv, Reading, NEW data \in Seq(Int), Returns(data),
         job.base \in Nat, job.amount <= Len(data),
         FromFlash(data, job.amount, job.base)
  PROVE  StoreStep
<1>1. /\ status = "busy" /\ job.op = "read" /\ job.amount \in Nat
  BY DEF StoreInv, BusyTogether, Reading, Busy
<1>2. /\ status' = "done" /\ result' = data /\ flash' = flash /\ job' = job
  BY DEF Returns, deviceVars
<1>3. PICK n \in Nat, at \in Nat : n = job.amount /\ at = job.base
  BY <1>1
<1>4. SubSeq(data, 1, n) = Store!Contents(flash, at, n)
  BY <1>3, FromFlashIsContents
<1>5. Store!Return
  BY <1>1, <1>2, <1>3, <1>4 DEF Store!Return
<1> QED
  BY <1>5 DEF StoreStep, Store!Next

LEMMA SessionStepsRefine ==
  ASSUME StoreInv,
         \/ Open \/ Close \/ TimesOut \/ SendHello \/ SendHello_Returns
         \/ \E m \in Methods : Call(m) \/ Call_Returns(m)
  PROVE  StoreStep
<1> USE DEF deviceVars, storeVars
<1>1. CASE Open \/ SendHello_Returns \/ \E m \in Methods : Call_Returns(m)
  BY <1>1, StoreRests DEF Open, SendHello_Returns, Call_Returns
<1>2. CASE Close \/ SendHello \/ \E m \in Methods : Call(m)
  BY <1>2, StoreForgets DEF Close, SendHello, Call
<1>3. CASE TimesOut
  BY <1>3, StoreFails, StoreRests DEF TimesOut
<1> QED
  BY <1>1, <1>2, <1>3

LEMMA BeginningRefines ==
  ASSUME StoreInv, ReadFlash \/ ReadFlashToFile \/ WriteFlash
  PROVE  StoreStep
<1>1. /\ Running /\ status' = "busy" /\ result' = <<>> /\ flash' = flash
  BY DEF ReadFlash, ReadFlashToFile, WriteFlash, Begins, deviceVars
<1>2. status # "busy"
  BY <1>1 DEF Running, StoreInv, BusyTogether, Busy
<1>3. job'.op \in {"read", "write"}
  BY DEF ReadFlash, ReadFlashToFile, WriteFlash, Begins, ReadJob
<1>4. Store!Begin
  BY <1>1, <1>2, <1>3 DEF Store!Begin
<1> QED
  BY <1>4 DEF StoreStep, Store!Next

LEMMA ReadsRefine ==
  ASSUME Typed, StoreInv, File_Turn \/ Read_Turn \/ Read_Returns
  PROVE  StoreStep
<1> USE DEF deviceVars, storeVars
<1>1. CASE File_Turn
  <2>1. pc = "file" /\ Reading /\ file # NoLoop
    BY <1>1 DEF File_Turn, Reading, StoreInv, BusyTogether
  <2>2. CASE file.total < file.amount
    BY <1>1, <2>2, LoopsAreNat, StoreRests DEF File_Turn
  <2>3. CASE ~(file.total < file.amount)
    <3>1. Returns(written)
      BY <1>1, <2>3, LoopsAreNat DEF File_Turn
    <3>2. /\ job.base = Place(file.lba) /\ file.amount = Aligned(job.amount)
          /\ Len(written) = file.total
          /\ \/ FromFlash(written, file.total, job.base)
             \/ FromFlash(written, job.amount, job.base)
      BY <2>1 DEF StoreInv, FileProgress
    <3>3. job.amount \in Nat /\ job.base \in Nat
      BY <2>1, <3>2, LoopsAreNat, PlaceTyped DEF StoreInv, BusyTogether
    <3>4. job.amount <= Len(written)
      <4>1. PICK n \in Nat : n = job.amount
        BY <3>3
      <4>2. PICK a \in Nat : Aligned(n) = Place(a) /\ Aligned(n) >= n
        BY AlignedFits
      <4>3. PICK p \in Nat : p = Place(a)
        BY PlaceTyped
      <4>4. file.amount = p
        BY <3>2, <4>1, <4>2, <4>3
      <4>5. p >= n
        BY <4>2, <4>3
      <4>6. PICK t \in Nat : t = file.total
        BY LoopsAreNat
      <4>7. Len(written) = t /\ ~(t < p)
        BY <2>3, <3>2, <4>4, <4>6
      <4> QED
        BY <4>1, <4>5, <4>7
    <3>5. FromFlash(written, job.amount, job.base)
      BY <3>2, <3>3, <3>4, LoopsAreNat, FewerFromFlash
    <3> QED
      BY <2>1, <3>1, <3>3, <3>4, <3>5, StoreReturnsRead DEF Typed
  <2> QED
    BY <2>2, <2>3
<1>2. CASE Read_Turn
  <2>1. pc = "read" /\ Reading
    BY <1>2 DEF Read_Turn, Reading
  <2>2. CASE loop.total >= loop.amount /\ file = NoLoop /\ Returns(out)
    <3>1. /\ job.base = Place(loop.lba) /\ loop.amount = Aligned(job.amount)
          /\ Len(out) = loop.total
          /\ \/ FromFlash(out, loop.total, job.base)
             \/ FromFlash(out, job.amount, job.base)
      BY <2>1, <2>2 DEF StoreInv, ReadProgress, Asked
    <3>2. job.amount \in Nat /\ job.base \in Nat
      BY <2>1, <3>1, LoopsAreNat, PlaceTyped DEF StoreInv, BusyTogether
    <3>3. job.amount <= Len(out)
      <4>1. PICK n \in Nat : n = job.amount
        BY <3>2
      <4>2. PICK a \in Nat : Aligned(n) = Place(a) /\ Aligned(n) >= n
        BY AlignedFits
      <4>3. PICK p \in Nat : p = Place(a)
        BY PlaceTyped
      <4>4. loop.amount = p
        BY <3>1, <4>1, <4>2, <4>3
      <4>5. p >= n
        BY <4>2, <4>3
      <4>6. PICK t \in Nat : t = loop.total
        BY LoopsAreNat
      <4>7. Len(out) = t /\ t >= p
        BY <2>2, <3>1, <4>4, <4>6
      <4> QED
        BY <4>1, <4>5, <4>7
    <3>4. FromFlash(out, job.amount, job.base)
      BY <3>1, <3>2, <3>3, LoopsAreNat, FewerFromFlash
    <3> QED
      BY <2>1, <2>2, <3>2, <3>3, <3>4, StoreReturnsRead DEF Typed
  <2>3. CASE UNCHANGED <<deviceVars, storeVars>>
    BY <2>3, StoreRests
  <2> QED
    BY <1>2, <2>2, <2>3 DEF Read_Turn
<1>3. CASE Read_Returns
  <2>1. Busy /\ flash' = flash /\ job' = job /\ result' = result
    BY <1>3 DEF Read_Returns, Busy
  <2>2. status' = "failed" \/ status' = status
    BY <1>3 DEF Read_Returns, Throws
  <2> QED
    BY <2>1, <2>2, StoreFails, StoreRests
<1> QED
  BY <1>1, <1>2, <1>3

LEMMA WritesRefine ==
  ASSUME Typed, StoreInv, Write_Turn \/ Write_Returns
  PROVE  StoreStep
<1> USE DEF deviceVars, storeVars
<1>1. CASE Write_Turn
  <2>1. pc = "write" /\ Writing /\ Busy
    BY <1>1 DEF Write_Turn, Writing, Busy
  <2>2. CASE loop.total < loop.amount
    BY <1>1, <2>2, LoopsAreNat, StoreRests DEF Write_Turn
  <2>3. CASE ~(loop.total < loop.amount)
    <3>1. /\ flash' = flash /\ job' = job /\ result' = result
          /\ status' = "done"
      BY <1>1, <2>3, LoopsAreNat DEF Write_Turn, Returns
    <3>2. /\ job.op = "write" /\ job.base = Place(loop.lba)
          /\ status = "busy" /\ loop.total <= loop.amount
          /\ FromFlash(job.data, loop.total, job.base)
      BY <2>1 DEF StoreInv, BusyTogether, WriteProgress
    <3>3. Len(job.data) = loop.total
      BY <2>1, <2>3, <3>2, LoopsAreNat DEF Typed
    <3>4. PICK data \in Seq(Int) : data = job.data
      BY DEF Typed
    <3>5. PICK at \in Nat : at = job.base
      BY <3>2, LoopsAreNat, PlaceTyped
    <3>6. FromFlash(data, Len(data), at)
      BY <3>2, <3>3, <3>4, <3>5
    <3>7. Store!Contents(flash, at, Len(data)) = data
      BY <3>6, AllFromFlashIsContents
    <3>8. Store!Return
      BY <3>1, <3>2, <3>4, <3>5, <3>7 DEF Store!Return
    <3> QED
      BY <3>8 DEF StoreStep, Store!Next
  <2> QED
    BY <2>2, <2>3
<1>2. CASE Write_Returns
  <2>1. Busy /\ flash' = flash /\ job' = job /\ result' = result
    BY <1>2 DEF Write_Returns, Busy
  <2>2. status' = "failed" \/ status' = status
    BY <1>2 DEF Write_Returns, Throws
  <2> QED
    BY <2>1, <2>2, StoreFails, StoreRests
<1> QED
  BY <1>1, <1>2

LEMMA DeviceRefines ==
  ASSUME Typed, SessionInv, StoreInv, DeviceStep
  PROVE  StoreStep
<1>1. Takes /\ UNCHANGED <<job, status, result>>
  BY DeviceLeavesHost
<1>2. CASE Taken.cmd \notin {"EraseFlash", "StreamWrite"}
  <2>1. flash' = flash
    BY <1>2, FlashLeftAlone
  <2> QED
    BY <1>1, <2>1, StoreRests
<1>3. CASE Taken.cmd = "EraseFlash"
  <2>1. ~Busy
    BY <1>1, <1>3, BusyDevice
  <2>2. status # "busy"
    BY <2>1 DEF StoreInv, BusyTogether
  <2>3. flash' = flash \/ flash' = [u \in DOMAIN flash |-> Store!Erased]
    BY <1>3 DEF DeviceStep, Takes_Hello, Takes_Open, Takes_Close,
                Takes_Erase, Takes_Other, Takes_Read, Takes_Write,
                Takes_Refusing, deviceVars
  <2>4. CASE flash' = flash
    BY <1>1, <2>4, StoreRests
  <2>5. CASE flash' = [u \in DOMAIN flash |-> Store!Erased]
    <3>1. Store!Erase
      BY <1>1, <2>2, <2>5 DEF Store!Erase
    <3> QED
      BY <3>1 DEF StoreStep, Store!Next
  <2> QED
    BY <2>3, <2>4, <2>5
<1>4. CASE Taken.cmd = "StreamWrite"
  <2>1. CASE flash' = flash
    BY <1>1, <2>1, StoreRests
  <2>2. CASE flash' = Store!Overlay(flash, Place(Taken.address), Taken.arg)
    <3>1. 1 \in DOMAIN toDevice /\ Taken = toDevice[1]
      BY <1>1, TakesShortens
    <3>2. /\ job.op = "write"
          /\ status \in {"busy", "failed"}
          /\ \E from, to \in 0 .. Len(job.data) : IsPart(Taken, from, to)
      BY <1>4, <3>1 DEF StoreInv, PendingWrites
    <3>3. PICK from \in 0 .. Len(job.data), to \in 0 .. Len(job.data) :
            IsPart(Taken, from, to)
      BY <3>2
    <3>4. flash' = Store!Overlay(flash, job.base + from,
                                 SubSeq(job.data, from + 1, to))
      BY <2>2, <3>3 DEF IsPart
    <3>5. Store!Store
      BY <1>1, <3>2, <3>4 DEF Store!Store
    <3> QED
      BY <3>5 DEF StoreStep, Store!Next
  <2> QED
    BY <1>4, <2>1, <2>2, WriteEffect
<1> QED
  BY <1>2, <1>3, <1>4

LEMMA StepRefines ==
  ASSUME Typed, SessionInv, StoreInv, [Next]_vars
  PROVE  StoreStep
<1>1. CASE HostStep
  BY <1>1, SessionStepsRefine, ReadsRefine, WritesRefine DEF HostStep
<1>2. CASE SendsLog \/ UNCHANGED vars
  BY <1>2, StoreRests DEF SendsLog, vars, deviceVars, storeVars
<1> QED
  BY <1>1, <1>2, SessionStepsRefine, BeginningRefines, DeviceRefines DEF Next

(* Where a read or write is, and what of it is in the flash, in the vector, *)
(* in the stream and in the line, agree.                                    *)
THEOREM StoreInStep ==
  ASSUME OneLate, HeedsOpening, SizesFit
  PROVE  Spec => []StoreInv
<1>1. Init => StoreInv
  BY DEF Init, StoreInv, BusyTogether, FileProgress, ReadProgress,
         ReadUnderWay, WriteProgress, WriteUnderWay, PendingWrites, Busy,
         Reading, Writing, Store!Init
<1>2. Typed /\ SessionInv /\ StoreInv /\ [Next]_vars => StoreInv'
  BY StepKept
<1> QED
  BY <1>1, <1>2, AlwaysTyped, SessionsAreApart, PTL DEF Spec

(* readFlash and writeFlash implement FlashStore: what a read returns       *)
(* begins with the flash's units from its LBA on, what a write was given is *)
(* in the flash when it returns, and nothing else changes there; for every  *)
(* sector size that divides the chunks, every flash and every transfer.     *)
THEOREM StoreKeptHolds ==
  ASSUME OneLate, HeedsOpening, SizesFit
  PROVE  Spec => StoreKept
<1>1. Init => Store!Init
  BY DEF Init
<1>2. Typed /\ SessionInv /\ StoreInv /\ [Next]_vars =>
        [Store!Next]_(Store!vars)
  BY StepRefines DEF StoreStep
<1> QED
  BY <1>1, <1>2, AlwaysTyped, SessionsAreApart, StoreInStep, PTL
     DEF Spec, StoreKept, Store!Spec
================================================================================

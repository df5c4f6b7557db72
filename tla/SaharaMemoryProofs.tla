-------------------------- MODULE SaharaMemoryProofs --------------------------
(***************************************************************************)
(* readMemory asks for no memory outside of the caller's range, whatever   *)
(* the range, the size of the largest request, what the device refuses and *)
(* in how many pieces it answers; what it returns ends with the answer to  *)
(* its last request, and the first refusal ends it.                        *)
(***************************************************************************)
EXTENDS SaharaMemory, SequenceTheorems, TLAPS

(* What makes AsksInRange inductive when a range that fits one request is   *)
(* read from a prompt device: it is asked for once.  The call is before its *)
(* only request, waits for the answer, or has read it whole; ToldOnce is    *)
(* where the request is meanwhile: with the device, or an answer on its way,*)
(* which is memory of the size asked for or a refusal.                      *)
NothingUnderWay == toDevice = <<>> /\ sending = <<>> /\ rx = <<>>

ToldOnce ==
  \/ /\ toDevice = <<[address |-> range.address, size |-> range.size]>>
     /\ sending = <<>>
     /\ rx = <<>>
  \/ toDevice = <<>> /\ Len(rx) + Len(sending) = range.size
  \/ toDevice = <<>> /\ rx = <<>> /\ sending = <<Refusal>>
  \/ toDevice = <<>> /\ rx = <<Refusal>> /\ sending = <<>>

AsksOnce ==
  \/ pc = "write" /\ readSoFar = 0 /\ buffer = <<>> /\ NothingUnderWay
  \/ /\ pc = "poll"
     /\ readSoFar = 0
     /\ buffer = <<>>
     /\ packetSize = range.size
     /\ ToldOnce
  \/ pc # "threw" /\ readSoFar >= range.size /\ NothingUnderWay
  \/ pc = "threw" /\ toDevice = <<>>

RequestsInStep ==
  speed = "prompt" /\ range.size <= MaxRequest => AsksOnce

Words == Nat \cup {Refusal}
MemoryRequests == [address : Nat, size : 1 .. MaxRequest]

----------------------------------------------------------------------------
(* Type correctness.                                                        *)

LEMMA RangeTyped ==
  ASSUME range \in Ranges
  PROVE  range.address \in Nat /\ range.size \in Nat \ {0}
BY MemoryAssumption

(* A request is made while something is left to read, and is for memory     *)
(* only.                                                                    *)
LEMMA RequestTyped ==
  ASSUME range \in Ranges, readSoFar \in Nat, readSoFar < range.size
  PROVE  /\ RequestSize(range.size, readSoFar) \in 1 .. MaxRequest
         /\ Request(range, readSoFar) \in MemoryRequests
<1>1. RequestSize(range.size, readSoFar) \in 1 .. MaxRequest
  BY RangeTyped, MemoryAssumption DEF RequestSize
<1> QED
  BY <1>1, RangeTyped DEF Request, MemoryRequests

(* A sequence is cut in two. *)
LEMMA CutTyped ==
  ASSUME NEW s \in Seq(Words), NEW n \in 0 .. Len(s)
  PROVE  /\ SubSeq(s, 1, n) \in Seq(Words)
         /\ Len(SubSeq(s, 1, n)) = n
         /\ SubSeq(s, n + 1, Len(s)) \in Seq(Words)
         /\ Len(SubSeq(s, n + 1, Len(s))) = Len(s) - n
<1>1. \A i \in 1 .. n : s[i] \in Words
  OBVIOUS
<1>2. \A i \in n + 1 .. Len(s) : s[i] \in Words
  OBVIOUS
<1> QED
  BY <1>1, <1>2, SubSeqProperties

LEMMA RefusalCut ==
  /\ SubSeq(<<Refusal>>, 1, 1) = <<Refusal>>
  /\ SubSeq(<<Refusal>>, 2, 1) = <<>>
  /\ <<>> \o <<Refusal>> = <<Refusal>>
  /\ Len(<<Refusal>>) = 1
<1>1. SubSeq(<<Refusal>>, 1, 1) = <<Refusal>>
  <2>1. <<Refusal>> \in Seq({Refusal}) /\ Len(<<Refusal>>) = 1
    OBVIOUS
  <2>2. \A s \in Seq({Refusal}) : Len(s) = 1 => SubSeq(s, 1, 1) = s
    <3> SUFFICES ASSUME NEW s \in Seq({Refusal}), Len(s) = 1
                 PROVE  SubSeq(s, 1, 1) = s
      OBVIOUS
    <3>1. /\ SubSeq(s, 1, 1) \in Seq({Refusal})
          /\ Len(SubSeq(s, 1, 1)) = 1
          /\ SubSeq(s, 1, 1)[1] = s[1]
      BY SubSeqProperties
    <3> QED
      BY <3>1, SeqEqual
  <2> QED
    BY <2>1, <2>2
<1>2. SubSeq(<<Refusal>>, 2, 1) = <<>>
  OBVIOUS
<1>3. <<>> \o <<Refusal>> = <<Refusal>> /\ Len(<<Refusal>>) = 1
  OBVIOUS
<1> QED
  BY <1>1, <1>2, <1>3

LEMMA MemoryTyped ==
  ASSUME NEW address \in Nat, NEW size \in Nat
  PROVE  /\ Memory(address, size) \in Seq(Words)
         /\ Len(Memory(address, size)) = size
<1>1. \A i \in 1 .. size : address + i - 1 \in Words
  BY DEF Words
<1>2. Memory(address, size) \in [1 .. size -> Words]
  BY <1>1 DEF Memory
<1> QED
  BY <1>2

LEMMA InitTyped == Init => TypeOK
BY MemoryAssumption DEF Init, TypeOK

LEMMA StepTyped == TypeOK /\ [Next]_vars => TypeOK'
<1> SUFFICES ASSUME TypeOK, [Next]_vars
             PROVE  TypeOK'
  OBVIOUS
<1> USE DEF hostVars, deviceVars, vars
<1>0. /\ buffer \in Seq(Words) /\ out \in Seq(Words)
      /\ sending \in Seq(Words) /\ rx \in Seq(Words)
      /\ toDevice \in Seq(MemoryRequests)
  BY DEF TypeOK, Words, MemoryRequests
<1>1. CASE WriteRequest
  <2>1. /\ RequestSize(range.size, readSoFar) \in 1 .. MaxRequest
        /\ Request(range, readSoFar) \in MemoryRequests
    BY <1>1, RequestTyped DEF TypeOK, WriteRequest, Asks
  <2>2. packetSize' \in 0 .. MaxRequest
    BY <1>1, <2>1, MemoryAssumption DEF WriteRequest, Asks
  <2>3. toDevice' \in Seq(MemoryRequests)
    BY <1>0, <1>1, <2>1 DEF WriteRequest, Asks
  <2> QED
    BY <1>1, <2>2, <2>3 DEF WriteRequest, Asks, TypeOK, MemoryRequests
<1>2. CASE Poll_Nothing
  BY <1>2 DEF Poll_Nothing, TypeOK
<1>3. CASE Poll_Reads
  <2> DEFINE n == IF Len(rx) >= packetSize THEN packetSize ELSE Len(rx)
  <2>1. n \in 0 .. Len(rx)
    BY MemoryAssumption DEF TypeOK
  <2>2. /\ rx' = SubSeq(rx, n + 1, Len(rx))
        /\ readSoFar' = readSoFar + n
        /\ buffer' = buffer \o SubSeq(rx, 1, n)
        /\ out' \in {out, out \o buffer'}
        /\ pc' \in {"threw", "poll"}
        /\ UNCHANGED <<range, packetSize, deviceVars, toDevice>>
    BY <1>3 DEF Poll_Reads, Appended
  <2> HIDE DEF n
  <2>3. rx' \in Seq(Words) /\ buffer' \in Seq(Words)
    BY <1>0, <2>1, <2>2, CutTyped
  <2>4. out' \in Seq(Words)
    <3>1. out \o buffer' \in Seq(Words)
      BY <1>0, <2>3, ConcatProperties
    <3> QED
      BY <1>0, <2>2, <3>1
  <2>5. readSoFar' \in Nat
    BY <2>1, <2>2 DEF TypeOK
  <2> QED
    BY <2>2, <2>3, <2>4, <2>5 DEF TypeOK, Words
<1>4. CASE Return
  BY <1>4 DEF Return, TypeOK
<1>5. CASE TakesRequest
  <2>1. Head(toDevice) \in MemoryRequests /\ toDevice' \in Seq(MemoryRequests)
    BY <1>0, <1>5 DEF TakesRequest
  <2>2. Memory(Head(toDevice).address, Head(toDevice).size) \in Seq(Words)
    <3>1. Head(toDevice).address \in Nat /\ Head(toDevice).size \in Nat
      BY <2>1, MemoryAssumption DEF MemoryRequests
    <3> QED
      BY <3>1, MemoryTyped
  <2>3. <<Refusal>> \in Seq(Words)
    BY DEF Words
  <2>4. sending' \in Seq(Words)
    BY <1>5, <2>2, <2>3 DEF TakesRequest
  <2> QED
    BY <1>5, <2>1, <2>4 DEF TakesRequest, TypeOK, MemoryRequests, Words
<1>6. CASE Sends
  <2>1. PICK n \in 1 .. Len(sending) :
          /\ rx' = rx \o SubSeq(sending, 1, n)
          /\ sending' = SubSeq(sending, n + 1, Len(sending))
    BY <1>6 DEF Sends
  <2>2. rx' \in Seq(Words) /\ sending' \in Seq(Words)
    BY <1>0, <2>1, CutTyped
  <2> QED
    BY <1>6, <2>2 DEF Sends, TypeOK, Words
<1>7. CASE UNCHANGED vars
  BY <1>7 DEF TypeOK
<1> QED
  BY <1>1, <1>2, <1>3, <1>4, <1>5, <1>6, <1>7 DEF Next

(* The variables of readMemory and of the device stay in their types: a     *)
(* request is never for nothing nor for more than the maximum, and the      *)
(* device gets no address that is not one.                                  *)
THEOREM MemoryTypeCorrect == Spec => []TypeOK
<1> QED
  BY InitTyped, StepTyped, PTL DEF Spec

----------------------------------------------------------------------------
(* A range that fits one request is asked for once.                         *)

LEMMA InitInStep == Init => RequestsInStep
BY MemoryAssumption DEF Init, RequestsInStep, AsksOnce, NothingUnderWay

(* Only the end of a read changes how much has been read. *)
LEMMA StepInStep == TypeOK /\ RequestsInStep /\ [Next]_vars => RequestsInStep'
<1> SUFFICES ASSUME TypeOK, RequestsInStep, [Next]_vars,
                    (speed = "prompt" /\ range.size <= MaxRequest)'
             PROVE  AsksOnce'
  BY DEF RequestsInStep
<1> USE DEF hostVars, deviceVars, vars
<1>0. /\ sending \in Seq(Words) /\ rx \in Seq(Words)
      /\ toDevice \in Seq(MemoryRequests)
      /\ readSoFar \in Nat
      /\ range.address \in Nat /\ range.size \in Nat \ {0}
  BY RangeTyped DEF TypeOK, Words, MemoryRequests
<1>a. /\ speed = "prompt" /\ range.size <= MaxRequest
      /\ speed' = speed /\ range' = range
  BY DEF Next, WriteRequest, Asks, Poll_Nothing, Poll_Reads, Return,
         TakesRequest, Sends
<1>b. AsksOnce
  BY <1>a DEF RequestsInStep
<1>1. CASE WriteRequest
  <2>1. pc = "write" /\ readSoFar = 0 /\ buffer = <<>> /\ NothingUnderWay
    BY <1>0, <1>1, <1>b DEF AsksOnce, WriteRequest, Asks
  <2>2. Request(range, readSoFar)
          = [address |-> range.address, size |-> range.size]
    BY <1>0, <1>a, <2>1 DEF Request, RequestSize
  <2>3. /\ toDevice' = <<[address |-> range.address, size |-> range.size]>>
        /\ packetSize' = range.size
    BY <1>a, <1>1, <2>1, <2>2 DEF WriteRequest, Asks, NothingUnderWay,
                                  RequestSize
  <2> QED
    BY <1>a, <1>1, <2>1, <2>3 DEF WriteRequest, Asks, AsksOnce, ToldOnce,
                                  NothingUnderWay
<1>2. CASE Poll_Nothing
  (* The device is prompt: that nothing has come means that it was read. *)
  <2>1. readSoFar >= range.size /\ NothingUnderWay
    BY <1>0, <1>2, <1>a, <1>b DEF AsksOnce, ToldOnce, NothingUnderWay,
                                  Poll_Nothing, Silent
  <2> QED
    BY <1>2, <1>a, <2>1 DEF AsksOnce, NothingUnderWay, Poll_Nothing
<1>3. CASE Poll_Reads
  <2> DEFINE n == IF Len(rx) >= packetSize THEN packetSize ELSE Len(rx)
  <2>1. /\ pc = "poll" /\ rx # <<>>
        /\ rx' = SubSeq(rx, n + 1, Len(rx))
        /\ readSoFar' = readSoFar + n
        /\ buffer' = buffer \o SubSeq(rx, 1, n)
        /\ IF IsErrorResponse(buffer', n) THEN pc' = "threw" ELSE pc' = "poll"
        /\ UNCHANGED <<packetSize, toDevice, sending>>
    BY <1>3 DEF Poll_Reads, Appended
  <2>2. readSoFar = 0 /\ buffer = <<>> /\ packetSize = range.size
        /\ toDevice = <<>>
        /\ \/ Len(rx) + Len(sending) = range.size
           \/ rx = <<Refusal>> /\ sending = <<>>
    BY <1>b, <2>1 DEF AsksOnce, ToldOnce, NothingUnderWay
  <2>3. CASE rx = <<Refusal>> /\ sending = <<>>
    <3>1. n = 1
      BY <1>0, <2>2, <2>3
    <3>2. buffer' = <<Refusal>>
      BY <2>1, <2>2, <2>3, <3>1, RefusalCut
    <3>3. IsErrorResponse(buffer', n)
      BY <3>1, <3>2 DEF IsErrorResponse
    <3> QED
      BY <2>1, <2>2, <3>3 DEF AsksOnce
  <2>4. CASE Len(rx) + Len(sending) = range.size
    <3>1. Len(rx) = range.size /\ sending = <<>>
      <4>1. Len(rx) >= packetSize \/ sending = <<>>
        BY <1>3, <1>a DEF Poll_Reads, Silent
      <4>2. Len(sending) \in Nat /\ Len(rx) \in Nat
        BY <1>0
      <4>3. Len(sending) = 0
        BY <1>0, <2>2, <2>4, <4>1, <4>2
      <4> QED
        BY <1>0, <2>4, <4>2, <4>3, EmptySeq
    <3>2. n = range.size
      BY <2>2, <3>1
    <3>3. rx' = <<>>
      BY <1>0, <2>1, <3>1, <3>2, CutTyped, EmptySeq
    <3>4. readSoFar' >= range.size
      BY <1>0, <2>1, <2>2, <3>2
    <3> QED
      BY <1>a, <2>1, <2>2, <3>1, <3>3, <3>4 DEF AsksOnce, NothingUnderWay
  <2> QED
    BY <2>2, <2>3, <2>4
<1>4. CASE Return
  BY <1>0, <1>4, <1>a, <1>b DEF Return, AsksOnce, NothingUnderWay
<1>5. CASE TakesRequest
  <2>1. CASE pc = "threw"
    BY <1>5, <1>b, <2>1 DEF TakesRequest, AsksOnce, NothingUnderWay, ToldOnce
  <2>2. CASE pc # "threw"
    <3>1. /\ pc = "poll" /\ readSoFar = 0 /\ buffer = <<>>
          /\ packetSize = range.size
          /\ toDevice = <<[address |-> range.address, size |-> range.size]>>
          /\ sending = <<>> /\ rx = <<>>
      BY <1>5, <1>b, <2>2 DEF TakesRequest, AsksOnce, ToldOnce,
                              NothingUnderWay
    <3>2. toDevice' = <<>> /\ UNCHANGED <<pc, readSoFar, buffer, packetSize, rx>>
      BY <1>5, <3>1 DEF TakesRequest
    <3>3. \/ sending' = Memory(range.address, range.size)
          \/ sending' = <<Refusal>>
      BY <1>5, <3>1 DEF TakesRequest
    <3>4. Len(Memory(range.address, range.size)) = range.size
      BY <1>0, MemoryTyped
    <3>5. ToldOnce'
      <4>1. CASE sending' = <<Refusal>>
        BY <3>1, <3>2, <4>1 DEF ToldOnce
      <4>2. CASE sending' = Memory(range.address, range.size)
        BY <1>0, <1>a, <3>1, <3>2, <3>4, <4>2 DEF ToldOnce
      <4> QED
        BY <3>3, <4>1, <4>2
    <3> QED
      BY <1>a, <3>1, <3>2, <3>5 DEF AsksOnce
  <2> QED
    BY <2>1, <2>2
<1>6. CASE Sends
  <2>1. PICK n \in 1 .. Len(sending) :
          /\ rx' = rx \o SubSeq(sending, 1, n)
          /\ sending' = SubSeq(sending, n + 1, Len(sending))
    BY <1>6 DEF Sends
  <2>2. UNCHANGED <<pc, readSoFar, buffer, packetSize, toDevice>>
    BY <1>6 DEF Sends
  <2>3. CASE pc = "threw"
    BY <1>b, <2>2, <2>3 DEF AsksOnce, NothingUnderWay, ToldOnce
  <2>4. CASE pc # "threw"
    <3>1. /\ pc = "poll" /\ readSoFar = 0 /\ buffer = <<>>
          /\ packetSize = range.size
          /\ ToldOnce
      BY <1>0, <1>b, <2>1, <2>4 DEF AsksOnce, NothingUnderWay
    <3>2. CASE toDevice = <<>> /\ Len(rx) + Len(sending) = range.size
      <4>1. /\ Len(SubSeq(sending, 1, n)) = n
            /\ Len(sending') = Len(sending) - n
            /\ SubSeq(sending, 1, n) \in Seq(Words)
        BY <1>0, <2>1, CutTyped
      <4>2. Len(rx') = Len(rx) + n
        BY <1>0, <2>1, <4>1, ConcatProperties
      <4>3. Len(rx') + Len(sending') = range.size
        <5>1. Len(rx) \in Nat /\ Len(sending) \in Nat /\ n \in Nat
          BY <1>0, <2>1
        <5> QED
          BY <3>2, <4>1, <4>2, <5>1
      <4> QED
        BY <1>a, <2>2, <3>1, <3>2, <4>3 DEF AsksOnce, ToldOnce
    <3>3. CASE toDevice = <<>> /\ rx = <<>> /\ sending = <<Refusal>>
      <4>1. n = 1
        BY <2>1, <3>3
      <4>2. rx' = <<Refusal>> /\ sending' = <<>>
        BY <2>1, <3>3, <4>1, RefusalCut
      <4> QED
        BY <1>a, <2>2, <3>1, <3>3, <4>2 DEF AsksOnce, ToldOnce
    <3>4. sending # <<>>
      BY <2>1
    <3> QED
      BY <3>1, <3>2, <3>3, <3>4 DEF ToldOnce
  <2> QED
    BY <2>3, <2>4
<1>7. CASE UNCHANGED vars
  BY <1>7, <1>b DEF AsksOnce, ToldOnce, NothingUnderWay
<1> QED
  BY <1>1, <1>2, <1>3, <1>4, <1>5, <1>6, <1>7 DEF Next

----------------------------------------------------------------------------
(* No request leaves the range.                                             *)

InRange(r, request) ==
  /\ request.address >= r.address
  /\ request.address + request.size <= r.address + r.size

(* The request that is made next. *)
LEMMA RequestInRange ==
  ASSUME TypeOK, RequestsInStep, WriteRequest,
         speed = "prompt" \/ range.size > MaxRequest
  PROVE  InRange(range, Request(range, readSoFar))
<1>1. /\ readSoFar \in Nat /\ readSoFar < range.size
      /\ range.address \in Nat /\ range.size \in Nat \ {0}
  BY RangeTyped DEF TypeOK, WriteRequest, Asks
<1>2. CASE range.size > MaxRequest
  BY <1>1, <1>2, MemoryAssumption DEF Request, RequestSize, InRange
<1>3. CASE speed = "prompt" /\ range.size <= MaxRequest
  <2>1. readSoFar = 0
    BY <1>1, <1>3 DEF RequestsInStep, AsksOnce, WriteRequest, Asks
  <2> QED
    BY <1>1, <1>3, <2>1, MemoryAssumption DEF Request, RequestSize, InRange
<1> QED
  BY <1>1, <1>2, <1>3, MemoryAssumption

LEMMA StepInRange ==
  TypeOK /\ RequestsInStep /\ AsksInRange /\ [Next]_vars => AsksInRange'
<1> SUFFICES ASSUME TypeOK, RequestsInStep, AsksInRange, [Next]_vars,
                    (speed = "prompt" \/ range.size > MaxRequest)',
                    NEW i \in DOMAIN toDevice'
             PROVE  InRange(range', toDevice'[i])
  BY DEF AsksInRange, InRange
<1> USE DEF hostVars, deviceVars, vars
<1>0. toDevice \in Seq(MemoryRequests)
  BY DEF TypeOK, MemoryRequests
<1>1. speed' = speed /\ range' = range
  BY DEF Next, WriteRequest, Asks, Poll_Nothing, Poll_Reads, Return,
         TakesRequest, Sends
<1>2. /\ speed = "prompt" \/ range.size > MaxRequest
      /\ \A k \in DOMAIN toDevice : InRange(range, toDevice[k])
  BY <1>1 DEF AsksInRange, InRange
<1>3. SUFFICES InRange(range, toDevice'[i])
  BY <1>1
<1>4. CASE WriteRequest
  <2>1. toDevice' = Append(toDevice, Request(range, readSoFar))
    BY <1>4 DEF WriteRequest, Asks
  <2>2. InRange(range, Request(range, readSoFar))
    BY <1>2, <1>4, RequestInRange
  <2>3. CASE i \in DOMAIN toDevice
    BY <1>0, <1>2, <2>1, <2>3
  <2>4. CASE i \notin DOMAIN toDevice
    <3>1. i = Len(toDevice) + 1
      BY <1>0, <2>1, <2>4
    <3> QED
      BY <1>0, <2>1, <2>2, <3>1
  <2> QED
    BY <2>3, <2>4
<1>5. CASE TakesRequest
  <2>1. toDevice # <<>> /\ toDevice' = Tail(toDevice)
    BY <1>5 DEF TakesRequest
  <2>2. i + 1 \in DOMAIN toDevice /\ toDevice'[i] = toDevice[i + 1]
    BY <1>0, <2>1
  <2> QED
    BY <1>2, <2>2
<1>6. CASE UNCHANGED toDevice
  BY <1>2, <1>6
<1> QED
  BY <1>4, <1>5, <1>6 DEF Next, Poll_Nothing, Poll_Reads, Return, Sends

(* readMemory asks for nothing outside of the caller's range, when the      *)
(* device is prompt or the range takes several requests.                    *)
THEOREM AsksOnlyInRange == Spec => []AsksInRange
<1>1. Init => AsksInRange
  BY DEF Init, AsksInRange
<1> QED
  BY <1>1, InitTyped, StepTyped, InitInStep, StepInStep, StepInRange, PTL
     DEF Spec

----------------------------------------------------------------------------
(* What is read.                                                            *)

(* With a prompt device each request is answered before the next is made.   *)
(* UnderWay is where the one request and its answer are while the host      *)
(* waits: with the device, partly sent and partly arrived, or a refusal.    *)
Waits ==
  /\ packetSize \in Nat \ {0}
  /\ readSoFar + packetSize <= range.size
  /\ \/ /\ toDevice = <<[address |-> range.address + readSoFar, size |-> packetSize]>>
        /\ sending = <<>>
        /\ rx = <<>>
     \/ toDevice = <<>> /\ rx \o sending = Memory(range.address + readSoFar, packetSize)
     \/ toDevice = <<>> /\ rx = <<>> /\ sending = <<Refusal>>
     \/ toDevice = <<>> /\ rx = <<Refusal>> /\ sending = <<>>

(* While no refusal was read, the buffer holds the memory from the start of *)
(* the range to where the host has come, the data returned ends with that,  *)
(* and either one request is under way or all is quiet.                     *)
BufferIsRead ==
  /\ buffer = Memory(range.address, readSoFar)
  /\ readSoFar <= range.size
  /\ readSoFar > 0 => IsSuffix(buffer, out)
  /\ pc # "threw"
  /\ pc = "returned" => readSoFar = range.size
  /\ \/ NothingUnderWay /\ (pc = "poll" => readSoFar > 0)
     \/ pc = "poll" /\ Waits

ReadInStep ==
  speed = "prompt" /\ Refusal \notin Range(buffer) => BufferIsRead

(* What the first read gave stays at the front of the buffer and of the     *)
(* data returned, whatever is read or refused later.                        *)
FirstReadStays ==
  speed = "prompt" =>
    \/ buffer = <<>> /\ out = <<>>
    \/ pc = "threw" /\ out = <<>>
    \/ /\ buffer # <<>> /\ buffer[1] = range.address
       /\ out # <<>> /\ out[1] = range.address

LEMMA SuffixOfJoin ==
  ASSUME NEW o \in Seq(Words), NEW b \in Seq(Words)
  PROVE  IsSuffix(b, o \o b)
<1> DEFINE rb == Reverse(b)
           rob == Reverse(o \o b)
<1>1. /\ o \o b \in Seq(Words)
      /\ Len(o \o b) = Len(o) + Len(b)
      /\ \A i \in 1 .. Len(o) + Len(b) :
           (o \o b)[i] = IF i <= Len(o) THEN o[i] ELSE b[i - Len(o)]
  BY ConcatProperties
<1>2. Len(o) \in Nat /\ Len(b) \in Nat
  OBVIOUS
<1>3. /\ rb \in Seq(Words) /\ Len(rb) = Len(b)
      /\ \A i \in 1 .. Len(b) : rb[i] = b[Len(b) - i + 1]
  BY <1>2 DEF Reverse
<1>4. /\ rob \in Seq(Words) /\ Len(rob) = Len(o) + Len(b)
      /\ \A i \in 1 .. Len(o) + Len(b) :
           rob[i] = (o \o b)[Len(o) + Len(b) - i + 1]
  <2>1. \A i \in 1 .. Len(o \o b) :
          (o \o b)[Len(o \o b) - i + 1] \in Words
    BY <1>1, <1>2
  <2> QED
    BY <1>1, <1>2, <2>1 DEF Reverse
<1> HIDE DEF rb, rob
<1>5. SubSeq(rb, 1, Len(b)) = rb
  BY <1>3, SubSeqFull
<1>6. SubSeq(rob, 1, Len(b)) = rb
  <2>1. \A i \in 1 .. Len(b) : rob[i] \in Words
    BY <1>2, <1>4
  <2>2. /\ SubSeq(rob, 1, Len(b)) \in Seq(Words)
        /\ Len(SubSeq(rob, 1, Len(b))) = Len(b)
        /\ \A i \in 1 .. Len(b) : SubSeq(rob, 1, Len(b))[i] = rob[i]
    BY <1>2, <2>1, SubSeqProperties
  <2>3. \A i \in 1 .. Len(b) : rob[i] = rb[i]
    <3> TAKE i \in 1 .. Len(b)
    <3>1. Len(o) + Len(b) - i + 1 \in 1 .. Len(o) + Len(b)
      BY <1>2
    <3>2. rob[i] = b[(Len(o) + Len(b) - i + 1) - Len(o)]
      BY <1>1, <1>2, <1>4, <3>1
    <3>3. (Len(o) + Len(b) - i + 1) - Len(o) = Len(b) - i + 1
      BY <1>2
    <3> QED
      BY <1>3, <3>2, <3>3
  <2> QED
    BY <1>3, <2>2, <2>3, SeqEqual
<1> QED
  BY <1>2, <1>3, <1>4, <1>5, <1>6 DEF IsSuffix, IsPrefix, rb, rob

(* Memory is read on from where it was read to. *)
LEMMA MemoryJoins ==
  ASSUME NEW address \in Nat, NEW m \in Nat, NEW n \in Nat
  PROVE  Memory(address, m) \o Memory(address + m, n) = Memory(address, m + n)
<1> DEFINE a == Memory(address, m)
           b == Memory(address + m, n)
           c == Memory(address, m + n)
<1>1. /\ a \in Seq(Words) /\ Len(a) = m
      /\ b \in Seq(Words) /\ Len(b) = n
      /\ c \in Seq(Words) /\ Len(c) = m + n
  <2>1. address + m \in Nat /\ m + n \in Nat
    OBVIOUS
  <2> QED
    BY <2>1, MemoryTyped
<1>2. /\ \A i \in 1 .. m : a[i] = address + i - 1
      /\ \A i \in 1 .. n : b[i] = address + m + i - 1
      /\ \A i \in 1 .. m + n : c[i] = address + i - 1
  BY DEF Memory
<1> HIDE DEF a, b, c
<1>3. /\ a \o b \in Seq(Words)
      /\ Len(a \o b) = m + n
      /\ \A i \in 1 .. m + n : (a \o b)[i] = IF i <= m THEN a[i] ELSE b[i - m]
  BY <1>1, ConcatProperties
<1>4. \A i \in 1 .. m + n : (a \o b)[i] = c[i]
  BY <1>2, <1>3
<1>5. a \o b = c
  BY <1>1, <1>3, <1>4, SeqEqual
<1> QED
  BY <1>5 DEF a, b, c

(* No word of memory is a refusal, which any further word leaves in place. *)
LEMMA NoMemoryRefuses ==
  ASSUME NEW address \in Nat, NEW size \in Nat
  PROVE  Refusal \notin Range(Memory(address, size))
BY DEF Memory, Range, Refusal

LEMMA RefusalStays ==
  ASSUME NEW s \in Seq(Words), NEW t \in Seq(Words)
  PROVE  /\ Refusal \in Range(s) => Refusal \in Range(s \o t)
         /\ Refusal \in Range(t) => Refusal \in Range(s \o t)
         /\ \A w \in Seq(Words) : w # <<>> /\ w[1] = Refusal => Refusal \in Range(w)
<1>1. Range(s \o t) = Range(s) \cup Range(t)
  BY RangeConcatenation
<1>2. \A w \in Seq(Words) : w # <<>> => 1 \in DOMAIN w
  BY EmptySeq, LenProperties
<1> QED
  BY <1>1, <1>2 DEF Range

LEMMA JoinProperties ==
  ASSUME NEW s \in Seq(Words), NEW t \in Seq(Words)
  PROVE  /\ s \o t \in Seq(Words)
         /\ Len(s \o t) = Len(s) + Len(t)
         /\ \A i \in 1 .. Len(s) : (s \o t)[i] = s[i]
         /\ \A i \in Len(s) + 1 .. Len(s) + Len(t) : (s \o t)[i] = t[i - Len(s)]
BY ConcatProperties

LEMMA JoinsAssociate ==
  ASSUME NEW r \in Seq(Words), NEW s \in Seq(Words), NEW t \in Seq(Words)
  PROVE  (r \o s) \o t = r \o (s \o t)
<1>1. PICK rs, st : rs = r \o s /\ st = s \o t
  OBVIOUS
<1>2. PICK left, right : left = rs \o t /\ right = r \o st
  OBVIOUS
<1>3. /\ rs \in Seq(Words) /\ Len(rs) = Len(r) + Len(s)
      /\ \A i \in 1 .. Len(r) : rs[i] = r[i]
      /\ \A i \in Len(r) + 1 .. Len(r) + Len(s) : rs[i] = s[i - Len(r)]
  BY <1>1, JoinProperties
<1>4. /\ st \in Seq(Words) /\ Len(st) = Len(s) + Len(t)
      /\ \A i \in 1 .. Len(s) : st[i] = s[i]
      /\ \A i \in Len(s) + 1 .. Len(s) + Len(t) : st[i] = t[i - Len(s)]
  BY <1>1, JoinProperties
<1>5. /\ left \in Seq(Words) /\ Len(left) = Len(rs) + Len(t)
      /\ \A i \in 1 .. Len(rs) : left[i] = rs[i]
      /\ \A i \in Len(rs) + 1 .. Len(rs) + Len(t) :
           left[i] = t[i - Len(rs)]
  BY <1>3, <1>2, JoinProperties
<1>6. /\ right \in Seq(Words) /\ Len(right) = Len(r) + Len(st)
      /\ \A i \in 1 .. Len(r) : right[i] = r[i]
      /\ \A i \in Len(r) + 1 .. Len(r) + Len(st) :
           right[i] = st[i - Len(r)]
  BY <1>4, <1>2, JoinProperties
<1>7. Len(r) \in Nat /\ Len(s) \in Nat /\ Len(t) \in Nat
  OBVIOUS
<1>8. ASSUME NEW i \in 1 .. Len(r) + Len(s) + Len(t)
      PROVE  left[i] = right[i]
  <2>1. CASE i <= Len(r)
    BY <1>3, <1>5, <1>6, <1>7, <2>1
  <2>2. CASE i > Len(r) /\ i <= Len(r) + Len(s)
    <3>1. left[i] = s[i - Len(r)]
      <4>1. i \in 1 .. Len(rs) /\ i \in Len(r) + 1 .. Len(r) + Len(s)
        BY <1>3, <1>7, <2>2
      <4>2. left[i] = rs[i]
        BY <1>5, <4>1
      <4>3. rs[i] = s[i - Len(r)]
        BY <1>3, <4>1
      <4> QED
        BY <4>2, <4>3
    <3>2. right[i] = st[i - Len(r)] /\ i - Len(r) \in 1 .. Len(s)
      BY <1>4, <1>6, <1>7, <2>2
    <3> QED
      BY <1>4, <3>1, <3>2
  <2>3. CASE i > Len(r) + Len(s)
    <3>1. left[i] = t[i - (Len(r) + Len(s))]
      BY <1>3, <1>5, <1>7, <2>3
    <3>2. /\ right[i] = st[i - Len(r)]
          /\ i - Len(r) \in Len(s) + 1 .. Len(s) + Len(t)
      BY <1>4, <1>6, <1>7, <2>3
    <3>3. (i - Len(r)) - Len(s) = i - (Len(r) + Len(s))
      BY <1>7
    <3> QED
      BY <1>4, <3>1, <3>2, <3>3
  <2> QED
    BY <1>7, <2>1, <2>2, <2>3
<1>9. Len(left) = Len(r) + Len(s) + Len(t) /\ Len(right) = Len(left)
  BY <1>3, <1>4, <1>5, <1>6, <1>7
<1>10. left = right
  BY <1>5, <1>6, <1>8, <1>9, SeqEqual
<1> QED
  BY <1>1, <1>10, <1>2

(* Nothing of what the device has to send is lost on its way. *)
LEMMA SendingArrives ==
  ASSUME NEW r \in Seq(Words), NEW s \in Seq(Words), NEW n \in 1 .. Len(s)
  PROVE  \E sent, left \in Seq(Words) :
           /\ sent = SubSeq(s, 1, n)
           /\ left = SubSeq(s, n + 1, Len(s))
           /\ (r \o sent) \o left = r \o s
<1>1. SubSeq(s, 1, n) \in Seq(Words) /\ SubSeq(s, n + 1, Len(s)) \in Seq(Words)
  BY CutTyped
<1>2. PICK sent \in Seq(Words) : sent = SubSeq(s, 1, n)
  BY <1>1, Zenon
<1>3. PICK left \in Seq(Words) : left = SubSeq(s, n + 1, Len(s))
  BY <1>1, Zenon
<1>4. sent \o left = s
  <2>1. SubSeq(s, 1, n) \o SubSeq(s, n + 1, Len(s)) = SubSeq(s, 1, Len(s))
    BY ConcatAdjacentSubSeq
  <2>2. SubSeq(s, 1, Len(s)) = s
    BY SubSeqFull
  <2> QED
    BY <1>2, <1>3, <2>1, <2>2, Zenon
<1>5. (r \o sent) \o left = r \o (sent \o left)
  BY JoinsAssociate
<1> QED
  BY <1>2, <1>3, <1>4, <1>5, Zenon

LEMMA InitReads == Init => ReadInStep /\ FirstReadStays
<1> SUFFICES ASSUME Init
             PROVE  ReadInStep /\ FirstReadStays
  OBVIOUS
<1>1. Memory(range.address, 0) = <<>>
  BY DEF Memory
<1>2. range.size \in Nat \ {0}
  BY RangeTyped DEF Init
<1> QED
  BY <1>1, <1>2 DEF Init, ReadInStep, BufferIsRead, FirstReadStays,
                    NothingUnderWay

(* A read of a prompt device takes a refusal, or the whole of the answer.   *)
LEMMA ReadTakesAnswer ==
  ASSUME TypeOK, speed = "prompt", Poll_Reads, pc = "poll", Waits,
         readSoFar \in Nat
  PROVE  \/ /\ rx = <<Refusal>>
            /\ buffer' = buffer \o <<Refusal>>
            /\ IF IsErrorResponse(buffer', 1)
               THEN pc' = "threw" /\ out' = out
               ELSE pc' = "poll" /\ out' = out \o buffer'
         \/ /\ buffer' = buffer \o Memory(range.address + readSoFar, packetSize)
            /\ readSoFar' = readSoFar + packetSize
            /\ NothingUnderWay'
            /\ IF IsErrorResponse(buffer', packetSize)
               THEN pc' = "threw" /\ out' = out
               ELSE pc' = "poll" /\ out' = out \o buffer'
<1> DEFINE n == IF Len(rx) >= packetSize THEN packetSize ELSE Len(rx)
           answer == Memory(range.address + readSoFar, packetSize)
<1>0. /\ sending \in Seq(Words) /\ rx \in Seq(Words)
      /\ packetSize \in Nat \ {0}
  BY DEF TypeOK, Words, Waits
<1>1. /\ rx # <<>>
      /\ rx' = SubSeq(rx, n + 1, Len(rx))
      /\ readSoFar' = readSoFar + n
      /\ buffer' = buffer \o SubSeq(rx, 1, n)
      /\ IF IsErrorResponse(buffer', n)
         THEN pc' = "threw" /\ out' = out
         ELSE pc' = "poll" /\ out' = out \o buffer'
      /\ UNCHANGED <<toDevice, sending>>
  BY DEF Poll_Reads, Appended, deviceVars
<1>2. CASE rx = <<Refusal>>
  <2>1. n = 1
    BY <1>0, <1>2
  <2>2. SubSeq(rx, 1, n) = <<Refusal>>
    BY <1>2, <2>1, RefusalCut
  <2> QED
    BY <1>1, <1>2, <2>1, <2>2
<1>3. CASE toDevice = <<>> /\ rx \o sending = answer
  <2>1. Len(rx) + Len(sending) = packetSize
    <3>1. range.address + readSoFar \in Nat
      BY RangeTyped DEF TypeOK
    <3>2. Len(answer) = packetSize
      BY <1>0, <3>1, MemoryTyped
    <3>3. Len(rx \o sending) = Len(rx) + Len(sending)
      BY <1>0, ConcatProperties
    <3> QED
      BY <1>3, <3>2, <3>3
  <2>2. Len(rx) \in Nat /\ Len(sending) \in Nat
    BY <1>0
  <2>3. Len(rx) >= packetSize \/ sending = <<>>
    BY DEF Poll_Reads, Silent
  <2>4. Len(sending) = 0
    BY <1>0, <2>1, <2>2, <2>3
  <2>5. sending = <<>> /\ rx = answer
    <3>1. sending = <<>>
      BY <1>0, <2>4, EmptySeq
    <3>2. rx \o <<>> = rx
      BY <1>0, ConcatEmptySeq
    <3> QED
      BY <1>3, <3>1, <3>2
  <2>6. n = packetSize /\ n = Len(rx)
    BY <2>1, <2>2, <2>4
  <2>7. SubSeq(rx, 1, n) = rx
    BY <1>0, <2>6, SubSeqFull
  <2>8. rx' = <<>>
    <3>1. \A k \in Nat : SubSeq(rx, k + 1, k) = <<>>
      BY SubSeqEmpty
    <3>2. rx' = SubSeq(rx, Len(rx) + 1, Len(rx))
      BY <1>1, <2>6
    <3> QED
      BY <2>2, <3>1, <3>2
  <2> HIDE DEF answer, n
  <2>9. NothingUnderWay'
    BY <1>1, <1>3, <2>5, <2>8 DEF NothingUnderWay
  <2>10. /\ buffer' = buffer \o answer
         /\ readSoFar' = readSoFar + packetSize
         /\ IF IsErrorResponse(buffer', packetSize)
            THEN pc' = "threw" /\ out' = out
            ELSE pc' = "poll" /\ out' = out \o buffer'
    BY <1>1, <2>5, <2>6, <2>7
  <2> QED
    BY <2>9, <2>10 DEF answer
<1> QED
  BY <1>1, <1>2, <1>3 DEF Waits

(* The request that starts a wait: within the range, and of the size that   *)
(* the host reads by.                                                       *)
LEMMA RequestWaits ==
  ASSUME TypeOK, RequestsInStep, speed = "prompt", NothingUnderWay, WriteRequest
  PROVE  Waits'
<1>1. /\ readSoFar \in Nat /\ readSoFar < range.size
      /\ range.address \in Nat /\ range.size \in Nat \ {0}
      /\ UNCHANGED <<range, readSoFar, sending, rx>>
  BY RangeTyped DEF TypeOK, WriteRequest, Asks, deviceVars
<1>2. range.size <= MaxRequest => readSoFar = 0
  BY <1>1 DEF RequestsInStep, AsksOnce, WriteRequest, Asks
<1>3. /\ packetSize' = RequestSize(range.size, readSoFar)
      /\ packetSize' \in 1 .. MaxRequest
      /\ readSoFar + packetSize' <= range.size
  <2>1. packetSize' = RequestSize(range.size, readSoFar)
    BY DEF WriteRequest, Asks
  <2>2. packetSize' \in 1 .. MaxRequest
    BY <1>1, <2>1, RequestTyped DEF TypeOK
  <2>3. readSoFar + packetSize' <= range.size
    BY <1>1, <1>2, <2>1, MemoryAssumption DEF RequestSize
  <2> QED
    BY <2>1, <2>2, <2>3
<1>4. toDevice' = <<[address |-> range.address + readSoFar, size |-> packetSize']>>
  BY <1>3 DEF WriteRequest, Asks, Request, NothingUnderWay
<1>5. packetSize' \in Nat \ {0}
  BY <1>3, MemoryAssumption
<1> QED
  BY <1>1, <1>3, <1>4, <1>5 DEF Waits, NothingUnderWay

(* A read appends some words, and copies the buffer unless it throws.       *)
LEMMA ReadAppends ==
  ASSUME TypeOK, Poll_Reads
  PROVE  \E w \in Seq(Words), n \in Nat :
           /\ buffer' = buffer \o w
           /\ ~IsErrorResponse(buffer', n) => out' = out \o buffer'
<1> DEFINE n == IF Len(rx) >= packetSize THEN packetSize ELSE Len(rx)
<1>1. rx \in Seq(Words) /\ packetSize \in Nat
  BY MemoryAssumption DEF TypeOK, Words
<1>2. n \in 0 .. Len(rx) /\ n \in Nat
  BY <1>1
<1>3. SubSeq(rx, 1, n) \in Seq(Words)
  BY <1>1, <1>2, CutTyped
<1>4. /\ buffer' = buffer \o SubSeq(rx, 1, n)
      /\ ~IsErrorResponse(buffer', n) => out' = out \o buffer'
  BY DEF Poll_Reads, Appended
<1> HIDE DEF n
<1> QED
  BY <1>2, <1>3, <1>4, Zenon

LEMMA StepReadsInStep ==
  TypeOK /\ RequestsInStep /\ ReadInStep /\ [Next]_vars => ReadInStep'
<1> SUFFICES ASSUME TypeOK, RequestsInStep, ReadInStep, [Next]_vars,
                    (speed = "prompt" /\ Refusal \notin Range(buffer))'
             PROVE  BufferIsRead'
  BY DEF ReadInStep
<1> USE DEF hostVars, deviceVars, vars
<1>0. /\ buffer \in Seq(Words) /\ out \in Seq(Words)
      /\ sending \in Seq(Words) /\ rx \in Seq(Words)
      /\ toDevice \in Seq(MemoryRequests)
      /\ readSoFar \in Nat
      /\ range.address \in Nat /\ range.size \in Nat \ {0}
  BY RangeTyped DEF TypeOK, Words, MemoryRequests
<1>a. speed = "prompt" /\ speed' = speed /\ range' = range
  BY DEF Next, WriteRequest, Asks, Poll_Nothing, Poll_Reads, Return,
         TakesRequest, Sends
<1>b. UNCHANGED buffer => BufferIsRead
  BY <1>a DEF ReadInStep
<1>1. CASE WriteRequest
  <2>1. pc = "write" /\ BufferIsRead
    BY <1>b, <1>1 DEF WriteRequest, Asks
  <2>2. NothingUnderWay
    BY <2>1 DEF BufferIsRead
  <2>3. Waits'
    BY <1>1, <1>a, <2>2, RequestWaits
  <2>4. pc' = "poll" /\ UNCHANGED <<range, readSoFar, buffer, out>>
    BY <1>1 DEF WriteRequest, Asks
  <2> QED
    BY <2>1, <2>3, <2>4 DEF BufferIsRead
<1>2. CASE Poll_Nothing
  <2>1. pc = "poll" /\ BufferIsRead
    BY <1>b, <1>2 DEF Poll_Nothing
  <2>2. toDevice = <<>> /\ sending = <<>> /\ rx = <<>>
    BY <1>2, <1>a DEF Poll_Nothing, Silent
  <2>3. ~Waits
    <3>1. ASSUME Waits
          PROVE  FALSE
      <4>1. rx \o sending = Memory(range.address + readSoFar, packetSize)
        BY <2>2, <3>1 DEF Waits
      <4>2. rx \o sending = <<>>
        BY <2>2
      <4>3. Len(Memory(range.address + readSoFar, packetSize)) = packetSize
        <5>1. packetSize \in Nat
          BY <3>1 DEF Waits
        <5>2. range.address + readSoFar \in Nat
          BY <1>0
        <5> QED
          BY <5>1, <5>2, MemoryTyped
      <4> QED
        BY <3>1, <4>1, <4>2, <4>3, EmptySeq DEF Waits
    <3> QED
      BY <3>1
  <2>4. pc' = "write" /\ UNCHANGED <<range, readSoFar, buffer, out, sending, toDevice, rx>>
    BY <1>2 DEF Poll_Nothing
  <2> QED
    BY <2>1, <2>2, <2>3, <2>4 DEF BufferIsRead, NothingUnderWay
<1>3. CASE Poll_Reads
  <2>1. pc = "poll" /\ rx # <<>>
    BY <1>3 DEF Poll_Reads
  <2>2. PICK w \in Seq(Words) : buffer' = buffer \o w
    BY <1>3, ReadAppends
  <2>3. Refusal \notin Range(buffer)
    BY <1>0, <2>2, RefusalStays
  <2>4. BufferIsRead /\ Waits
    BY <1>a, <2>1, <2>3 DEF ReadInStep, BufferIsRead, NothingUnderWay
  <2>5. buffer' # buffer \o <<Refusal>>
    <3>1. <<Refusal>> \in Seq(Words) /\ Refusal \in Range(<<Refusal>>)
      BY DEF Words, Range
    <3>2. Refusal \in Range(buffer \o <<Refusal>>)
      BY <1>0, <3>1, RefusalStays
    <3> QED
      BY <3>2
  <2>6. /\ buffer' = buffer \o Memory(range.address + readSoFar, packetSize)
        /\ readSoFar' = readSoFar + packetSize
        /\ NothingUnderWay'
        /\ IF IsErrorResponse(buffer', packetSize)
           THEN pc' = "threw" /\ out' = out
           ELSE pc' = "poll" /\ out' = out \o buffer'
    BY <1>0, <1>3, <1>a, <2>1, <2>4, <2>5, ReadTakesAnswer
  <2>7. packetSize \in Nat \ {0} /\ readSoFar + packetSize <= range.size
    BY <2>4 DEF Waits
  <2>8. buffer' = Memory(range.address, readSoFar')
    BY <1>0, <2>4, <2>6, <2>7, MemoryJoins DEF BufferIsRead
  <2>9. buffer' \in Seq(Words) /\ Len(buffer') = readSoFar' /\ readSoFar' \in Nat \ {0}
    <3>1. readSoFar' \in Nat \ {0}
      BY <1>0, <2>6, <2>7
    <3>2. \A a, m \in Nat : Memory(a, m) \in Seq(Words) /\ Len(Memory(a, m)) = m
      BY MemoryTyped
    <3> QED
      BY <1>0, <2>8, <3>1, <3>2
  <2>10. ~IsErrorResponse(buffer', packetSize)
    <3>1. buffer' # <<>>
      BY <2>9, EmptySeq
    <3>2. buffer'[1] # Refusal
      BY <2>9, <3>1, RefusalStays
    <3> QED
      BY <3>2 DEF IsErrorResponse
  <2>11. IsSuffix(buffer', out')
    BY <1>0, <2>6, <2>9, <2>10, SuffixOfJoin
  <2>12. pc' = "poll" /\ readSoFar' <= range.size /\ readSoFar' > 0
    BY <1>0, <2>6, <2>7, <2>10
  <2> QED
    BY <1>a, <2>6, <2>8, <2>11, <2>12 DEF BufferIsRead
<1>4. CASE Return
  <2>1. pc = "write" /\ readSoFar >= range.size /\ BufferIsRead
    BY <1>b, <1>4 DEF Return
  <2>2. /\ pc' = "returned"
        /\ UNCHANGED <<range, readSoFar, buffer, out, sending, toDevice, rx>>
    BY <1>4 DEF Return
  <2> QED
    BY <1>0, <2>1, <2>2 DEF BufferIsRead, NothingUnderWay
<1>5. CASE TakesRequest
  <2>1. /\ BufferIsRead
        /\ UNCHANGED <<pc, range, readSoFar, packetSize, buffer, out, rx>>
    BY <1>b, <1>5 DEF TakesRequest
  <2>2. pc = "poll" /\ Waits /\ rx = <<>> /\ sending = <<>>
        /\ toDevice = <<[address |-> range.address + readSoFar, size |-> packetSize]>>
    BY <1>5, <2>1 DEF BufferIsRead, NothingUnderWay, Waits, TakesRequest
  <2>3. /\ toDevice' = <<>>
        /\ \/ sending' = Memory(range.address + readSoFar, packetSize)
           \/ sending' = <<Refusal>>
    BY <1>5, <2>2 DEF TakesRequest
  <2>4. Waits'
    <3>1. CASE sending' = <<Refusal>>
      BY <2>1, <2>2, <2>3, <3>1 DEF Waits
    <3>2. CASE sending' = Memory(range.address + readSoFar, packetSize)
      <4>1. range.address + readSoFar \in Nat /\ packetSize \in Nat
        BY <1>0, <2>2 DEF Waits
      <4>2. sending' \in Seq(Words)
        BY <3>2, <4>1, MemoryTyped
      <4>3. rx' \o sending' = sending'
        BY <2>1, <2>2, <4>2, ConcatEmptySeq
      <4> QED
        BY <2>1, <2>2, <2>3, <3>2, <4>3 DEF Waits
    <3> QED
      BY <2>3, <3>1, <3>2
  <2> QED
    BY <2>1, <2>2, <2>4 DEF BufferIsRead
<1>6. CASE Sends
  <2>1. PICK n \in 1 .. Len(sending) :
          /\ rx' = rx \o SubSeq(sending, 1, n)
          /\ sending' = SubSeq(sending, n + 1, Len(sending))
    BY <1>6 DEF Sends
  <2>2. /\ BufferIsRead
        /\ UNCHANGED <<pc, range, readSoFar, packetSize, buffer, out, toDevice>>
    BY <1>b, <1>6 DEF Sends
  <2>3. pc = "poll" /\ Waits
    BY <1>0, <2>1, <2>2 DEF BufferIsRead, NothingUnderWay
  <2>4. Waits'
    <3>1. CASE /\ toDevice = <<>>
               /\ rx \o sending = Memory(range.address + readSoFar, packetSize)
      <4>1. rx' \o sending' = rx \o sending
        <5>1. \E sent, left \in Seq(Words) :
                /\ sent = SubSeq(sending, 1, n)
                /\ left = SubSeq(sending, n + 1, Len(sending))
                /\ (rx \o sent) \o left = rx \o sending
          BY <1>0, SendingArrives
        <5> QED
          BY <2>1, <5>1, Zenon
      <4> QED
        BY <2>2, <2>3, <3>1, <4>1 DEF Waits
    <3>2. CASE toDevice = <<>> /\ rx = <<>> /\ sending = <<Refusal>>
      <4>1. n = 1
        BY <2>1, <3>2
      <4>2. rx' = <<Refusal>> /\ sending' = <<>>
        BY <2>1, <3>2, <4>1, RefusalCut
      <4> QED
        BY <2>2, <2>3, <3>2, <4>2 DEF Waits
    <3>3. sending # <<>>
      BY <2>1
    <3> QED
      BY <2>3, <3>1, <3>2, <3>3 DEF Waits
  <2> QED
    BY <2>2, <2>3, <2>4 DEF BufferIsRead
<1>7. CASE UNCHANGED vars
  BY <1>7, <1>b DEF BufferIsRead, Waits, NothingUnderWay
<1> QED
  BY <1>1, <1>2, <1>3, <1>4, <1>5, <1>6, <1>7 DEF Next

(* What a sequence begins with stays at its front when more is appended.    *)
LEMMA FrontStays ==
  ASSUME NEW s \in Seq(Words), NEW t \in Seq(Words), s # <<>>
  PROVE  s \o t # <<>> /\ (s \o t)[1] = s[1]
<1>1. Len(s) \in Nat \ {0} /\ Len(t) \in Nat
  BY EmptySeq
<1>2. Len(s \o t) = Len(s) + Len(t) /\ (s \o t)[1] = s[1]
  BY <1>1, JoinProperties
<1> QED
  BY <1>1, <1>2, EmptySeq

LEMMA StepFirstReadStays ==
  TypeOK /\ ReadInStep /\ FirstReadStays /\ [Next]_vars => FirstReadStays'
<1> SUFFICES ASSUME TypeOK, ReadInStep, FirstReadStays, [Next]_vars,
                    (speed = "prompt")'
             PROVE  FirstReadStays'
  BY DEF FirstReadStays
<1> USE DEF hostVars, deviceVars, vars
<1>0. /\ buffer \in Seq(Words) /\ out \in Seq(Words) /\ rx \in Seq(Words)
      /\ readSoFar \in Nat
      /\ range.address \in Nat /\ range.size \in Nat \ {0}
  BY RangeTyped DEF TypeOK, Words
<1>a. speed = "prompt" /\ speed' = speed /\ range' = range
  BY DEF Next, WriteRequest, Asks, Poll_Nothing, Poll_Reads, Return,
         TakesRequest, Sends
<1>1. CASE Poll_Reads
  <2>1. pc = "poll"
    BY <1>1 DEF Poll_Reads
  <2>2. CASE buffer = <<>> /\ out = <<>>
    <3>1. BufferIsRead
      BY <1>a, <2>2 DEF ReadInStep, Range
    <3>2. readSoFar = 0
      <4>1. Len(Memory(range.address, readSoFar)) = readSoFar
        BY <1>0, MemoryTyped
      <4> QED
        BY <2>2, <3>1, <4>1 DEF BufferIsRead
    <3>3. Waits
      BY <2>1, <3>1, <3>2 DEF BufferIsRead
    <3>4. CASE /\ buffer' = buffer \o <<Refusal>>
               /\ IF IsErrorResponse(buffer', 1)
                  THEN pc' = "threw" /\ out' = out
                  ELSE pc' = "poll" /\ out' = out \o buffer'
      <4>1. buffer' = <<Refusal>>
        BY <2>2, <3>4, RefusalCut
      <4>2. IsErrorResponse(buffer', 1)
        BY <4>1 DEF IsErrorResponse
      <4> QED
        BY <2>2, <3>4, <4>2 DEF FirstReadStays
    <3>5. CASE /\ buffer' = buffer \o Memory(range.address + readSoFar, packetSize)
               /\ IF IsErrorResponse(buffer', packetSize)
                  THEN pc' = "threw" /\ out' = out
                  ELSE pc' = "poll" /\ out' = out \o buffer'
      <4> DEFINE m == Memory(range.address, packetSize)
      <4>1. packetSize \in Nat \ {0}
        BY <3>3 DEF Waits
      <4>2. m \in Seq(Words) /\ Len(m) = packetSize
        BY <1>0, <4>1, MemoryTyped
      <4>3. m # <<>> /\ m[1] = range.address
        <5>1. m # <<>>
          BY <4>1, <4>2, EmptySeq
        <5>2. m[1] = range.address + 1 - 1
          BY <4>1 DEF Memory
        <5> QED
          BY <1>0, <5>1, <5>2
      <4> HIDE DEF m
      <4>4. buffer' = m
        <5>1. buffer' = <<>> \o m
          BY <1>0, <2>2, <3>2, <3>5 DEF m
        <5> QED
          BY <4>2, <5>1, ConcatEmptySeq
      <4>5. ~IsErrorResponse(buffer', packetSize)
        BY <1>0, <4>3, <4>4 DEF IsErrorResponse, Refusal
      <4>6. out' = m
        <5>1. out' = <<>> \o m
          BY <2>2, <3>5, <4>4, <4>5
        <5> QED
          BY <4>2, <5>1, ConcatEmptySeq
      <4> QED
        BY <1>a, <4>3, <4>4, <4>6 DEF FirstReadStays
    <3> QED
      BY <1>0, <1>1, <1>a, <2>1, <3>3, <3>4, <3>5, ReadTakesAnswer
  <2>3. CASE /\ buffer # <<>> /\ buffer[1] = range.address
             /\ out # <<>> /\ out[1] = range.address
    <3>1. PICK w \in Seq(Words), n \in Nat :
            /\ buffer' = buffer \o w
            /\ ~IsErrorResponse(buffer', n) => out' = out \o buffer'
      BY <1>0, <1>1, ReadAppends
    <3>2. buffer' # <<>> /\ buffer'[1] = range.address
      BY <1>0, <2>3, <3>1, FrontStays
    <3>3. buffer' \in Seq(Words)
      BY <1>0, <3>1, JoinProperties
    <3>4. out' = out \o buffer'
      <4>1. buffer'[1] # Refusal
        BY <1>0, <3>2 DEF Refusal
      <4>2. ~IsErrorResponse(buffer', n)
        BY <4>1 DEF IsErrorResponse
      <4> QED
        BY <3>1, <4>2
    <3>5. out' # <<>> /\ out'[1] = range.address
      BY <1>0, <2>3, <3>3, <3>4, FrontStays
    <3> QED
      BY <1>a, <3>2, <3>5 DEF FirstReadStays
  <2> QED
    BY <1>a, <2>1, <2>2, <2>3 DEF FirstReadStays
<1>2. CASE WriteRequest \/ Poll_Nothing \/ Return
  <2>1. pc # "threw" /\ UNCHANGED <<buffer, out, range>>
    BY <1>2 DEF WriteRequest, Asks, Poll_Nothing, Return
  <2> QED
    BY <1>a, <2>1 DEF FirstReadStays
<1>3. CASE TakesRequest \/ Sends \/ UNCHANGED vars
  BY <1>3, <1>a DEF TakesRequest, Sends, FirstReadStays
<1> QED
  BY <1>1, <1>2, <1>3 DEF Next

(* What readMemory returns from a prompt device that refuses nothing ends   *)
(* with the memory asked for, whole and in order, however many requests it  *)
(* takes and in whatever pieces the answers come: each request and its      *)
(* answer stay in step with where the host has come in the range.           *)
THEOREM MemoryEndsWithAsked == Spec => []EndsWithAsked
<1>1. TypeOK /\ ReadInStep => EndsWithAsked
  <2> SUFFICES ASSUME TypeOK, ReadInStep, pc = "returned", speed = "prompt",
                      Refusal \notin Range(buffer)
               PROVE  readSoFar = range.size /\ IsSuffix(Asked, out)
    BY DEF EndsWithAsked
  <2>1. BufferIsRead /\ range.size \in Nat \ {0}
    BY RangeTyped DEF ReadInStep, TypeOK
  <2> QED
    BY <2>1 DEF BufferIsRead, Asked
<1> QED
  BY <1>1, InitTyped, StepTyped, InitInStep, StepInStep, InitReads,
     StepReadsInStep, PTL DEF Spec

(* A prompt device that refuses the first request is never read as memory:  *)
(* once anything was returned, it starts with the memory asked for.         *)
THEOREM FirstRefusalIsReported == Spec => []FirstRefusalThrows
<1>1. FirstReadStays => FirstRefusalThrows
  BY DEF FirstReadStays, FirstRefusalThrows
<1> QED
  BY <1>1, InitTyped, StepTyped, InitInStep, StepInStep, InitReads,
     StepReadsInStep, StepFirstReadStays, PTL DEF Spec
================================================================================

------------------------------ MODULE DiagLine ------------------------------
(***************************************************************************)
(* One request and the packet that is read after it, for all of QcdmSerial *)
(* and DmEfsManager: both write a request to their common port and take    *)
(* the next packet from it, whichever that is.                             *)
(***************************************************************************)
EXTENDS DiagPhone

CONSTANTS
  Faults,        (* "log": the phone sends a log packet unasked; "refuse":  *)
                 (* it refuses a request it could serve; "bad": it answers  *)
                 (* with an error of diag; "slow": the answer comes after   *)
                 (* the read has timed out; "cut": its end does             *)
  Cuttable,      (* the subsystem commands whose answers may be cut         *)
  MaxFaults      (* bound: faults in one behaviour                          *)

VARIABLES
  phone,         (* the phone: see DiagPhone                                *)
  rx,            (* packets on their way to the program                     *)
  faults         (* how many more faults there may be                       *)

lineVars == <<phone, rx, faults>>

ASSUME LineAssumption ==
  /\ Faults \subseteq {"log", "refuse", "bad", "slow", "cut"}
  /\ MaxFaults \in Nat

LineInit ==
  /\ phone = NewPhone
  /\ rx = <<>>
  /\ faults = MaxFaults

(* Every packet sent so far has been taken by the call it answers: one that *)
(* came unasked or late leaves the line a packet behind until the port is   *)
(* closed or the phone starts again.                                        *)
InStep == rx = <<>> /\ phone.mode = "diag"

(* What the program hears when no packet comes: the pointer read then       *)
(* decodes a line that is a flag and nothing else, and reads far beyond it. *)
(* (HdlcSerial has this case as "crash".)                                   *)
Silence == [cmd |-> "silence", sub |-> "none", f |-> <<>>]

Outcome(fault, after, queue) ==
  [fault |-> fault, phone |-> after,
   heard |-> IF queue = <<>> THEN Silence ELSE Head(queue),
   rest |-> IF queue = <<>> THEN <<>> ELSE Tail(queue)]

(* The first fields of an answer. *)
CutAnswers(answer) ==
  IF answer.cmd # "subsys" THEN {}
  ELSE LET fields == Answers[answer.sub]
       IN  {[cmd |-> answer.cmd, sub |-> answer.sub,
             f |-> [x \in Range(SubSeq(fields, 1, n)) |-> answer.f[x]]] :
              n \in 0 .. Len(fields) - 1}

Fault(name, served, req) ==
  CASE name = "log" ->
         {Outcome(name, served.phone, rx \o <<LogPacket, served.answer>>)}
    [] name = "refuse" ->
         {Outcome(name, phone, Append(rx, Refusal(req)))}
    [] name = "bad" ->
         {Outcome(name, phone, Append(rx, BadCommand))}
    [] name = "slow" ->
         IF rx # <<>> THEN {}
         ELSE {[Outcome(name, served.phone, <<>>) EXCEPT !.rest = <<served.answer>>]}
    [] name = "cut" ->
         IF rx # <<>> \/ req.sub \notin Cuttable THEN {}
         ELSE {Outcome(name, served.phone, <<part, Remainder>>) :
                 part \in CutAnswers(served.answer)}

(* What may come of writing a request and reading a packet. *)
Exchanges(req) ==
  IF phone.mode # "diag" THEN {Outcome("none", phone, rx)}
  ELSE LET served == Serve(phone, req)
       IN  {Outcome("none", served.phone, Append(rx, served.answer))}
             \cup (IF faults = 0 THEN {}
                   ELSE UNION {Fault(name, served, req) : name \in Faults})

Takes(x) ==
  /\ phone' = x.phone
  /\ rx' = x.rest
  /\ faults' = IF x.fault = "none" THEN faults ELSE faults - 1

(* The program ends, or has ended in a call, and another begins: what was   *)
(* on its way reaches the new one, or the system drops it with the port.    *)
PortReopens ==
  /\ rx' \in {rx, <<>>}
  /\ UNCHANGED <<phone, faults>>

(* The phone is started again, by its user or by itself; its port goes and  *)
(* comes back, and a program on it ends.                                    *)
PhoneStarts ==
  /\ phone' = Booted(phone)
  /\ rx' = <<>>
  /\ UNCHANGED faults
==============================================================================

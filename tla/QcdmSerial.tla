------------------------------ MODULE QcdmSerial ------------------------------
(***************************************************************************)
(* QcdmSerial: every method is one request and the next packet.  An answer *)
(* is known by its first byte, the command; a method that passes command 0 *)
(* takes any packet that is not an error.                                  *)
(***************************************************************************)
EXTENDS DiagLine

CONSTANTS
  Values,        (* what a program writes to NV items                       *)
  Spcs,          (* the service codes it sends, and other strings           *)
  MaxCalls       (* bound: calls in one behaviour                           *)

VARIABLES
  calls,         (* calls still to be made                                  *)
  last           (* the last call: its method, how it ended, what it gave   *)

ASSUME CallsAssumption == MaxCalls \in Nat

qcdmVars == <<calls, last>>

SpcLength == 6
PasswordLength == 16
NvItemSize == 128
NvPeekSize == 32

NoCall == [op |-> "none", ret |-> "ok", arg |-> "none", value |-> "none"]

QcdmInit ==
  /\ calls = MaxCalls
  /\ last = NoCall

(* The methods that are told apart by their names once they have ended. *)
Remembered ==
  {"readNV", "readPath", "readDir", "get", "put",
   "start", "hello", "query", "cd", "unlink"}
Ended(op, ret, arg, value) ==
  last' = [op |-> IF op \in Remembered THEN op ELSE "other", ret |-> ret,
           arg |-> arg, value |-> value]

(* A field of the answer, or what an earlier packet left in its place in    *)
(* the buffer all methods share, or what a packet of the file system has    *)
(* there.                                                                   *)
Field(packet, x) ==
  IF packet.sub = "none" /\ x \in DOMAIN packet.f THEN packet.f[x] ELSE "stale"

IsError(packet) == packet.cmd = "bad"

(* The command expected of an answer is not looked at. *)
Throws_Unchecked(req, packet) == IsError(packet)

(* sendCommand: any is TRUE of a request sent with command 0. *)
Throws(req, packet) ==
  IF req.any THEN IsError(packet) ELSE packet.cmd # req.cmd

(* One method: its request, its argument, what it makes of the answer.      *)
(* validate is FALSE for the one that does not look at it.                  *)
Exchange(op, arg, req, validate, Result(_)) ==
  \E x \in Exchanges(req) :
    IF x.heard = Silence
    THEN Takes(x) /\ Ended(op, "dies", arg, "none")
    ELSE /\ Takes(x)
         /\ IF validate /\ Throws(req, x.heard)
            THEN Ended(op, "throws", arg, "none")
            ELSE Ended(op, "ok", arg, Result(x.heard))
Rejects(op, arg) ==
  /\ Ended(op, "throws", arg, "none")
  /\ UNCHANGED lineVars

Request(cmd) == [cmd |-> cmd, sub |-> "none", any |-> FALSE]
AnyRequest(cmd) == [Request(cmd) EXCEPT !.any = TRUE]
Told(packet) == "told"
Status(packet) == Field(packet, "status")

----------------------------------------------------------------------------
(* The version is command 0: whatever comes is taken for it. *)
GetVersion == Exchange("getVersion", "none", AnyRequest("version"), TRUE, Told)
GetDiagVersion ==
  Exchange("getDiagVersion", "none", Request("diagVersion"), TRUE, Told)
GetStatus == Exchange("getStatus", "none", Request("status"), TRUE, Told)
GetGuid == Exchange("getGuid", "none", Request("guid"), TRUE, Told)

SendSpc ==
  \E spc \in Spcs :
    IF Len(spc) # SpcLength THEN Rejects("sendSpc", "none")
    ELSE Exchange("sendSpc", "none", Request("spc"), TRUE,
                  LAMBDA p : Status(p) = "yes")

(* It returns before it sends anything. *)
SendPassword ==
  \E length \in {PasswordLength - 1, PasswordLength} :
    IF length # PasswordLength THEN Rejects("sendPassword", "none")
    ELSE /\ Ended("sendPassword", "ok", "none", FALSE)
         /\ UNCHANGED lineVars

(* The answer is validated although the call asks not to. *)
SwitchToDload == Exchange("switchToDload", "none", Request("dload"), TRUE, Told)

SetPhoneMode ==
  \E mode \in {"online", "reset"} :
    Exchange("setPhoneMode", "none", Request("control") ++ [mode |-> mode], TRUE,
             Status)

(* The item the answer is for is not compared with the one asked for. *)
ReadNV ==
  \E item \in Items :
    Exchange("readNV", item, Request("nvRead") ++ [item |-> item], TRUE,
             LAMBDA p : Field(p, "value"))
WriteNV ==
  \E item \in Items, value \in Values, size \in {NvItemSize, NvItemSize + 1} :
    IF size > NvItemSize THEN Rejects("writeNV", "none")
    ELSE Exchange("writeNV", "none",
                  Request("nvWrite") ++ [item |-> item, value |-> value], TRUE,
                  LAMBDA p : TRUE)
PeekNV ==
  \E size \in {NvPeekSize, NvPeekSize + 1} :
    IF size > NvPeekSize THEN Rejects("peekNV", "none")
    ELSE Exchange("peekNV", "none", Request("nvPeek"), TRUE, Told)

SendHtcNvUnlock ==
  Exchange("sendHtcNvUnlock", "none", AnyRequest("htcUnlock"), TRUE,
           LAMBDA p : TRUE)
SendLgNvUnlock ==
  Exchange("sendLgNvUnlock", "none", AnyRequest("lgUnlock"), TRUE,
           LAMBDA p : TRUE)
(* It asks, and does not return what it was told. *)
GetLgSpc ==
  Exchange("getLgSpc", "none", AnyRequest("lgSpc"), TRUE, LAMBDA p : TRUE)
(* Whatever comes is shown. *)
GetErrorLog == Exchange("getErrorLog", "none", Request("log"), FALSE, Told)

QcdmCall ==
  \/ GetVersion
  \/ GetDiagVersion
  \/ GetStatus
  \/ GetGuid
  \/ SendSpc
  \/ SendPassword
  \/ SwitchToDload
  \/ SetPhoneMode
  \/ ReadNV
  \/ WriteNV
  \/ PeekNV
  \/ SendHtcNvUnlock
  \/ SendLgNvUnlock
  \/ GetLgSpc
  \/ GetErrorLog

(* readNV returns what the phone has in the item that was asked for while   *)
(* no packet of an earlier call is left on the line, and never what only    *)
(* another kind of packet left in the shared buffer.  It compares the       *)
(* command of the answer, not the item: behind by a packet, the value may   *)
(* be that of the item of an earlier call.                                  *)
NvReadIsPhones ==
  last.op = "readNV" /\ last.ret = "ok" =>
    IF InStep THEN last.value = phone.nv[last.arg]
    ELSE last.value \in {"factory"} \cup Values
==============================================================================

----------------------------- MODULE SaharaSystem -----------------------------
(***************************************************************************)
(* The host and the device joined by the serial line, and what must hold   *)
(* of the two of them together.                                            *)
(***************************************************************************)
EXTENDS SaharaSerial, SaharaDevice

vars == <<linkVars, hostVars, deviceVars>>

Init ==
  /\ line = "closed"
  /\ rx = <<>>
  /\ toDevice = <<>>
  /\ HostInit
  /\ DeviceInit

(* The program calls a method. *)
HostCall ==
  \/ Open                /\ UNCHANGED deviceVars
  \/ Close               /\ UNCHANGED deviceVars
  \/ ReadHello           /\ UNCHANGED deviceVars
  \/ SendHello           /\ UNCHANGED deviceVars
  \/ SwitchModeCall      /\ UNCHANGED deviceVars
  \/ SwitchModeAndHello  /\ UNCHANGED deviceVars
  \/ SendClientCommand   /\ UNCHANGED deviceVars
  \/ ReadNextImageOffset /\ UNCHANGED deviceVars
  \/ SendImage           /\ UNCHANGED deviceVars
  \/ SendDone            /\ UNCHANGED deviceVars
  \/ SendReset           /\ UNCHANGED deviceVars

(* A running call goes on: its read ends, or its port fails. *)
HostStep ==
  \/ PortFails                   /\ UNCHANGED deviceVars
  \/ ReadHello_Returns           /\ UNCHANGED deviceVars
  \/ SendHello_Returns           /\ UNCHANGED deviceVars
  \/ ExecuteResponse_Returns     /\ UNCHANGED deviceVars
  \/ ExecuteData_Returns         /\ UNCHANGED deviceVars
  \/ ReadNextImageOffset_Returns /\ UNCHANGED deviceVars
  \/ SendImage_Turn              /\ UNCHANGED deviceVars
  \/ SendImage_Returns           /\ UNCHANGED deviceVars
  \/ SendDone_Returns            /\ UNCHANGED deviceVars
  \/ SendReset_Returns           /\ UNCHANGED deviceVars
  \/ SendReset_PortFails         /\ UNCHANGED deviceVars

DeviceStep ==
  \/ DeviceGreets       /\ UNCHANGED hostVars
  \/ TakesHelloResponse /\ UNCHANGED hostVars
  \/ TakesImageData     /\ UNCHANGED hostVars
  \/ TakesDone          /\ UNCHANGED hostVars
  \/ TakesExecute       /\ UNCHANGED hostVars
  \/ TakesExecuteData   /\ UNCHANGED hostVars
  \/ SendsResult        /\ UNCHANGED hostVars
  \/ TakesSwitchMode    /\ UNCHANGED hostVars
  \/ TakesReset         /\ UNCHANGED hostVars
  \/ Refuses            /\ UNCHANGED hostVars
  \/ TakesUnexpected    /\ UNCHANGED hostVars
  \/ Ignores            /\ UNCHANGED hostVars

Next ==
  \/ HostCall
  \/ HostStep
  \/ DeviceStep
  \/ Restarts /\ UNCHANGED hostVars

Spec == Init /\ [][Next]_vars

(* The calls of a program that sends an image; it is free to close the port *)
(* or reset the session, and no fairness is assumed of that.                *)
SendsImages ==
  (ReadHello \/ SendHello \/ SendImage \/ SendDone) /\ UNCHANGED deviceVars

(* The device answers, a blocked call's read ends, and the program makes    *)
(* its next call.  No fairness is assumed of restarts.                      *)
FairSpec ==
  /\ Spec
  /\ WF_vars(DeviceStep)
  /\ WF_vars(HostStep)
  /\ WF_vars(SendsImages)

----------------------------------------------------------------------------
(* Every variable keeps its type: the fields of the read request and of the *)
(* client command come from the line unchecked, the control state does not. *)
TypeOK ==
  /\ line \in {"closed", "open", "broken"}
  /\ rx \in Seq(Nat)
  /\ toDevice \in Seq(Packets \cup Data)
  /\ phase \in Phases
  /\ pc \in Calls \cup {"idle"}
  /\ threw \in [at : Calls \cup {"idle", "none"}, io : BOOLEAN]
  /\ sess \in Sessions
  /\ mode \in Nat
  /\ nextOffset \in Requests
  /\ initialImage \in Nat \cup {NoImage}
  /\ totalSent \in Nat
  /\ command \in Nat
  /\ dataSize \in Nat
  /\ ret \in Seq(Nat)
  /\ asked \in Requests
  /\ stored \subseteq [asked : Requests, took : Packets \cup Data]
  /\ executing \in Nat
  /\ remaining \in Nat
  /\ requests \in Nat
  /\ restarts \in Nat

(* What the device took for image data is the part it had asked for of the  *)
(* file of the image it had asked for (sendImage's loop, and the caller's   *)
(* use of the request sendImage returns), unless sendReset gave it up.      *)
(* After a restart it need not be: see RequestIsGenuine.                    *)
ImageIntact ==
  restarts = 0 =>
    \A s \in stored :
      \/ s.took = FileData(s.asked.imageId, s.asked.offset, s.asked.size)
      \/ s.took = Packet(Reset, 0)

(* Host and device never wait on each other: while a call of an established *)
(* session blocks on an empty buffer there is a write for the device to     *)
(* answer, or the device is restarting, sending, or stopped at an error it  *)
(* has reported.                                                            *)
NoMutualWait ==
  (/\ line = "open"
   /\ pc \in {"sendHello", "executeResponse", "executeData",
              "nextImageOffset", "readNextImageOffset", "sendDone"}
   /\ rx = <<>>)
  => toDevice # <<>> \/ phase \in {"boot", "data", "halt"}

(* When sendDone returns, the device has acknowledged the end of the        *)
(* transfer; it may have restarted since.                                   *)
DoneIsAcknowledged ==
  sess = "over" => phase = "left" \/ restarts > 0

(* What sendClientCommand returns is the result of that command, all of it  *)
(* and nothing else, as long as the device did not restart under it.        *)
Returned == pc = "idle" /\ threw = NoThrow /\ sess = "command" /\ ret # <<>>

ResultIsOfCommand ==
  Returned /\ restarts = 0
           => /\ \A i \in DOMAIN ret : ret[i] = DataWord(command)
              /\ 4 * Len(ret) = dataSize

(* A request the program gets to answer is one the device made, and it is   *)
(* told of the end of the transfer only when the device has ended it.       *)
RequestIsGenuine ==
  [][nextOffset' # nextOffset =>
       IF AsksNothing(nextOffset') THEN phase = "ended"
                                   ELSE nextOffset' = asked]_vars

(* A device that restarts while sendHello waits for its answer ("sometimes  *)
(* (at least in memory debug mode) the device will reset itself", says the  *)
(* handler there) costs the caller nothing: the port is opened again and    *)
(* the hello is repeated.                                                   *)
HelloResetIsRetried ==
  restarts <= 1 => threw # [at |-> "sendHello", io |-> TRUE]

(* A transfer once begun does not hang: the program sees the end of it and  *)
(* has that acknowledged, or some call tells it of a failure.               *)
TransferEnds == (sess = "image") ~> (sess = "over" \/ threw # NoThrow)

=============================================================================

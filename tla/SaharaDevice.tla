----------------------------- MODULE SaharaDevice -----------------------------
(***************************************************************************)
(* The device: the Sahara target as SaharaSerial and the packets of        *)
(* sahara.h presuppose it.  It greets the host when its port is opened and *)
(* from then on answers one write at a time.  In an image transfer it      *)
(* takes whatever arrives for the bytes it asked for.                      *)
(***************************************************************************)
EXTENDS SaharaLink

CONSTANTS
  BootModes,     (* the modes it may greet the host in                     *)
  Wanted,        (* the read requests it may make                          *)
  MaxRequests,   (* bound: read requests it makes in one behaviour         *)
  MaxRestarts,   (* bound: restarts in one behaviour                       *)
  ErrorPhases,   (* the phases in which it may answer with an error        *)
  ResultSizes    (* the lengths, in words, of a client command's result    *)

ASSUME BootModesAssumption == BootModes \subseteq Modes
ASSUME WantedAssumption ==
  Wanted \subseteq [imageId : Nat, offset : Nat, size : Nat \ {0}]
ASSUME BoundsAssumption == MaxRequests \in Nat /\ MaxRestarts \in Nat
ASSUME ErrorPhasesAssumption ==
  ErrorPhases \subseteq 
    {"hello", "tx", "ready", "exec", "ended"}
ASSUME ResultSizesAssumption == ResultSizes \subseteq Nat \ {0}

VARIABLES
  asked,         (* the read request it waits on                           *)
  stored,        (* pairs: what it asked for, what it took for the answer  *)
  executing,     (* the command it executes                                *)
  remaining,     (* words of that command's result not sent yet            *)
  requests,      (* read requests made so far                              *)
  restarts       (* restarts so far                                        *)

imageTxVars == <<asked, stored, requests>>
executeVars == <<executing, remaining>>
deviceVars == <<imageTxVars, executeVars, restarts>>

Phases == {"boot", "hello", "tx", "ended", "ready", "exec", "data", "memory",
           "left", "halt"}

DeviceInit ==
  /\ phase = "boot"
  /\ asked = NoRequest
  /\ stored = {}
  /\ executing = 0
  /\ remaining = 0
  /\ requests = 0
  /\ restarts = 0

----------------------------------------------------------------------------
(* What it says is lost when the host's port is not open. *)
Says(words) == rx' = IF line = "open" THEN rx \o words ELSE rx

(* It handles the oldest write. *)
Takes ==
  /\ toDevice # <<>>
  /\ toDevice' = Tail(toDevice)
  /\ UNCHANGED line

Taken == Head(toDevice)
IsPacket(cmd) == Taken.kind = "packet" /\ Taken.cmd = cmd

RefusesWith(image, next) ==
  /\ Says(EndPacket(image, StatusError))
  /\ phase' = next

(* Word by word, the result of a command. *)
DataWord(cmd) == 100 + cmd
Result(cmd, words) == [i \in 1 .. words |-> DataWord(cmd)]

AsksFor(r) ==
  /\ requests < MaxRequests
  /\ requests' = requests + 1
  /\ asked' = r
  /\ phase' = "tx"
  /\ Says(ReadDataPacket(r))

----------------------------------------------------------------------------

(* It starts the protocol with nothing received: what was written to it     *)
(* before it greeted the host is lost.                                      *)
DeviceGreets ==
  /\ phase = "boot"
  /\ line = "open"
  /\ \E m \in BootModes : Says(HelloPacket(m))
  /\ phase' = "hello"
  /\ toDevice' = <<>>
  /\ UNCHANGED <<line, deviceVars>>

TakesHelloResponse ==
  /\ phase = "hello"
  /\ Takes
  /\ \/ /\ Taken = Packet(HelloResponse, ImageTxPending)
        /\ \E r \in Wanted : AsksFor(r)
     \/ /\ Taken = Packet(HelloResponse, CommandMode)
        /\ Says(ReadyPacket)
        /\ phase' = "ready"
        /\ UNCHANGED <<asked, requests>>
     \/ /\ Taken = Packet(HelloResponse, MemoryDebugMode)
        /\ Says(MemoryDebugPacket)
        /\ phase' = "memory"
        /\ UNCHANGED <<asked, requests>>
  /\ UNCHANGED <<stored, executeVars, restarts>>

(* While it waits for image data every write is data: it has no way to tell *)
(* a packet from a part of the file.  Once it has all it asked for it wants *)
(* another part, or ends the transfer, or reports an error.                 *)
TakesImageData ==
  /\ phase = "tx"
  /\ Takes
  /\ stored' = stored \cup {[asked |-> asked, took |-> Taken]}
  /\ \/ /\ Taken.kind = "data" /\ Taken.size = asked.size
        /\ \E r \in Wanted : AsksFor(r)
     \/ /\ Taken.kind = "data" /\ Taken.size = asked.size
        /\ Says(EndPacket(asked.imageId, StatusSuccess))
        /\ phase' = "ended"
        /\ UNCHANGED <<asked, requests>>
     \/ /\ Taken.kind = "data" /\ Taken.size = asked.size
        /\ "tx" \in ErrorPhases
        /\ RefusesWith(asked.imageId, "halt")
        /\ UNCHANGED <<asked, requests>>
     \/ /\ ~(Taken.kind = "data" /\ Taken.size = asked.size)
        /\ UNCHANGED <<rx, phase, asked, requests>>
  /\ UNCHANGED <<executeVars, restarts>>

TakesDone ==
  /\ phase = "ended"
  /\ Takes
  /\ IsPacket(Done)
  /\ Says(DonePacket)
  /\ phase' = "left"
  /\ UNCHANGED deviceVars

TakesExecute ==
  /\ phase = "ready"
  /\ Takes
  /\ IsPacket(Execute)
  /\ \E n \in ResultSizes :
       /\ Says(ExecutePacket(Taken.arg, n))
       /\ executing' = Taken.arg
       /\ remaining' = n
  /\ phase' = "exec"
  /\ UNCHANGED <<imageTxVars, restarts>>

TakesExecuteData ==
  /\ phase = "exec"
  /\ Takes
  /\ IsPacket(ExecuteData)
  /\ phase' = "data"
  /\ UNCHANGED <<rx, deviceVars>>

(* The result comes in pieces of any size. *)
SendsResult ==
  /\ phase = "data"
  /\ \E n \in 1 .. remaining :
       /\ Says(Result(executing, n))
       /\ remaining' = remaining - n
       /\ phase' = IF n = remaining THEN "ready" ELSE "data"
  /\ UNCHANGED <<line, toDevice, imageTxVars, executing, restarts>>

TakesSwitchMode ==
  /\ phase = "ready"
  /\ Takes
  /\ IsPacket(SwitchMode)
  /\ Says(HelloPacket(Taken.arg))
  /\ phase' = "hello"
  /\ UNCHANGED deviceVars

TakesReset ==
  /\ phase \in {"hello", "ended", "ready", "exec", "memory"}
  /\ Takes
  /\ IsPacket(Reset)
  /\ Says(ResetPacket)
  /\ phase' = "left"
  /\ UNCHANGED deviceVars

(* An error packet in answer to what the phase does take; a client command  *)
(* that fails leaves the device in command mode.                            *)
Refuses ==
  /\ phase \in ErrorPhases \ {"tx"}
  /\ Takes
  /\ RefusesWith(asked.imageId,
                 IF phase \in {"ready", "exec"} THEN "ready" ELSE "halt")
  /\ UNCHANGED deviceVars

Expects ==
  \/ phase = "hello" /\ \E m \in Modes \ {ImageTxComplete} :
                           Taken = Packet(HelloResponse, m)
  \/ phase = "ended" /\ IsPacket(Done)
  \/ phase = "ready" /\ (IsPacket(Execute) \/ IsPacket(SwitchMode))
  \/ phase = "exec" /\ IsPacket(ExecuteData)
  \/ IsPacket(Reset)

(* Anything else is a protocol error, after which it waits for a restart. *)
TakesUnexpected ==
  /\ phase \in {"hello", "ended", "ready", "exec", "data", "memory"}
  /\ Takes
  /\ ~Expects
  /\ RefusesWith(asked.imageId, "halt")
  /\ UNCHANGED deviceVars

Ignores ==
  /\ phase \in {"left", "halt"}
  /\ Takes
  /\ UNCHANGED <<rx, phase, deviceVars>>

(* It restarts, on its own or because its user made it.  A USB port goes    *)
(* away with it; a serial one does not notice.                              *)
Restarts ==
  /\ restarts < MaxRestarts
  /\ restarts' = restarts + 1
  /\ phase' = "boot"
  /\ toDevice' = <<>>
  /\ line' \in {line} \cup
       (IF line = "open" /\ "unplug" \in Faults THEN {"broken"} ELSE {})
  /\ UNCHANGED <<rx, imageTxVars, executeVars>>

=============================================================================

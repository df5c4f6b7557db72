----------------------------- MODULE DmEfsManager -----------------------------
(***************************************************************************)
(* DmEfsManager: the phone's file system over the port of a QcdmSerial.    *)
(* A method is one request and its answer, or several in a row; in those   *)
(* call holds the locals between two of them.                              *)
(***************************************************************************)
EXTENDS QcdmSerial

CONSTANTS
  Paths,         (* the paths a program names; <<>> is the empty string     *)
  Datas          (* what it writes to files                                 *)

ASSUME DatasAssumption == Datas \subseteq Seq(Nat)
ASSUME PathsAssumption == \A path \in Paths : WellNamed(path)

VARIABLES
  held,          (* handles the program has: <<kind, handle, path opened>>  *)
  call,          (* the locals of a method of several requests              *)
  spotless       (* ghost: every call so far has returned, none in failure  *)

efsVars == <<held, call, spotless>>

NotRunning == [op |-> "none"]
Running == call.op # "none"

EfsInit ==
  /\ held = {}
  /\ call = NotRunning
  /\ spotless = TRUE

----------------------------------------------------------------------------
(* sendCommand                                                              *)

MaxPacket == 4096

EfsRequest(sub) ==
  [cmd |-> "subsys", sub |-> sub, room |-> AnswerSize(sub)]
(* A request with all of its path, and one of which only as many bytes go   *)
(* out as a pointer has.                                                    *)
PathRequest(sub, path) == EfsRequest(sub) ++ [path |-> path, creates |-> FALSE]
HalfRequest(sub, path) ==
  EfsRequest(sub) ++ [path |-> Arriving(sub, path, PointerSize)]
HandleRequest(sub, h) == EfsRequest(sub) ++ [h |-> h]
InLargeBuffer(req) == [req EXCEPT !.room = MaxPacket]

(* It has the first fields of its kind, or all; a name has more characters   *)
(* than its structure.                                                      *)
PacketSize(packet) ==
  IF packet.sub = "none" THEN HeaderSize
  ELSE PartSize[packet.sub][Cardinality(DOMAIN packet.f)]
         + (IF "label" \in DOMAIN packet.f THEN LabelLength - Width("label") ELSE 0)

(* As SendThrows, but for the command that the answer repeats. *)
SendThrows_AnyAnswer(req, packet) ==
  \/ IsError(packet)
  \/ PacketSize(packet) > req.room
SendThrows(req, packet) ==
  \/ IsError(packet)
  \/ packet.sub # req.sub
  \/ PacketSize(packet) > req.room

(* The fields that came; the structure they are copied to was zeroed. *)
Got(packet, x) == IF x \in DOMAIN packet.f THEN packet.f[x] ELSE Zero(x)
ErrorIn(packet) == Got(packet, "error") # 0

(* A call ends: it returns ("ok"), returns an error ("zero"), or throws.    *)
Ends(op, ret, arg, value) ==
  /\ Ended(op, ret, arg, value)
  /\ call' = NotRunning
  /\ spotless' = (spotless /\ ret = "ok")
Fails(op) == Ends(op, "throws", "none", "none")
(* The read without an answer ends the program. *)
Dies(op) == Ends(op, "dies", "none", "none") /\ held' = {}

SendCommand(req, Dying, Throwing(_), Answered(_)) ==
  \E x \in Exchanges(req) :
    /\ Takes(x)
    /\ CASE x.heard = Silence -> Dying
         [] x.heard # Silence /\ SendThrows(req, x.heard) -> Throwing(x)
         [] OTHER -> Answered(x)

(* A method of one request that takes no handle. *)
Simple(op, req, checked) ==
  SendCommand(req, Dies(op),
    LAMBDA x : Fails(op) /\ UNCHANGED held,
    LAMBDA x : /\ IF checked /\ ErrorIn(x.heard) THEN Fails(op)
                  ELSE Ends(op, "ok", "none", "none")
               /\ UNCHANGED held)
Invalid(op) == Fails(op) /\ UNCHANGED <<lineVars, held>>
Named(op, path, req, checked) ==
  IF path = <<>> THEN Invalid(op) ELSE Simple(op, req, checked)

----------------------------------------------------------------------------
(* The session.                                                             *)

Hello == Simple("hello", EfsRequest("Hello"), FALSE)
Query == Simple("query", EfsRequest("Query"), FALSE)
(* The answer ends with a name, for which the structure has one byte. *)
GetDeviceInfo == Simple("getDeviceInfo", EfsRequest("DevInfo"), FALSE)

----------------------------------------------------------------------------
(* Methods that name a file and send all of the name.                       *)

Symlink ==
  \E path, link \in Paths :
    IF path = <<>> \/ link = <<>> THEN Invalid("symlink")
    ELSE Simple("symlink", PathRequest("Symlink", path) ++ [link |-> link], TRUE)
ReadSimlink ==
  \E path \in Paths :
    Named("readSimlink", path, InLargeBuffer(PathRequest("ReadLink", path)), TRUE)
Unlink ==
  \E path \in Paths : Named("unlink", path, PathRequest("Unlink", path), TRUE)
Mkdir ==
  \E path \in Paths : Named("mkdir", path, PathRequest("Mkdir", path), TRUE)
Rmdir ==
  \E path \in Paths : Named("rmdir", path, PathRequest("Rmdir", path), TRUE)

----------------------------------------------------------------------------
(* Methods that send the first bytes of their request.                      *)

(* The requests for different paths may be the same. *)
HalfCall(op, sub, checked) ==
  \/ <<>> \in Paths /\ Invalid(op)
  \/ \E req \in {HalfRequest(sub, path) : path \in Paths \ {<<>>}} :
       Simple(op, req, checked)
(* The path is not put in at all, or the second of two does not go out.     *)
Pathless(op, sub) ==
  \/ <<>> \in Paths /\ Invalid(op)
  \/ Simple(op, EfsRequest(sub) ++ [path |-> Cut], TRUE)

Rename == Pathless("rename", "Rename")
Stat == HalfCall("stat", "Stat", FALSE)
Lstat == HalfCall("lstat", "Lstat", FALSE)
Chmod == HalfCall("chmod", "Chmod", TRUE)
Statfs == HalfCall("statfs", "StatFS", FALSE)
Chown == HalfCall("chown", "Chown", TRUE)
SetQuota == HalfCall("setQuota", "SetQuota", TRUE)
Deltree == HalfCall("deltree", "Deltree", TRUE)
(* An amount of 0 is as invalid as a path without characters. *)
Truncate == Invalid("truncate") \/ HalfCall("truncate", "Truncate", TRUE)
(* The path is not looked at. *)
StatfsV2 ==
  \E req \in {HalfRequest("StatVFS_V2", path) : path \in Paths} :
    Simple("statfsV2", req, FALSE)
Md5sum == Pathless("md5sum", "Md5Sum")
FormatHotplugDevice == HalfCall("formatHotplugDevice", "HotplugFormat", TRUE)
Shred == HalfCall("shred", "Shred", TRUE)
SyncNoWait == HalfCall("syncNoWait", "SyncNoWait", TRUE)
(* So is a token of 0. *)
GetSyncStatus ==
  Invalid("getSyncStatus") \/ HalfCall("getSyncStatus", "SyncGetStatus", TRUE)
MakeGoldenCopy == HalfCall("makeGoldenCopy", "MakeGoldenCopy", TRUE)

(* These pass their request where sendCommand takes the buffer for the      *)
(* answer: the bare header goes out, and an answer longer than the request  *)
(* is refused.                                                              *)
BareCall(op, sub, room) ==
  SendCommand([EfsRequest(sub) EXCEPT !.room = room] ++ [path |-> Cut], Dies(op),
    LAMBDA x : Fails(op) /\ UNCHANGED held,
    LAMBDA x : /\ Ends(op, IF ErrorIn(x.heard) THEN "zero" ELSE "ok", "none", "none")
               /\ UNCHANGED held)
Access ==
  \E path \in Paths : BareCall("access", "Access", BareSize.Access + Len(path))
GetGroupInfo ==
  \E path \in Paths :
    BareCall("getGroupInfo", "GetGroupInfo", BareSize.GetGroupInfo + Len(path))
FactoryImageRead ==
  BareCall("factoryImageRead", "FactoryImageStart", BareSize.FactoryImageStart)
(* Nothing is sent. *)
FactoryImage ==
  /\ \E ret \in {"zero", "ok"} : Ends("factoryImage", ret, "none", "none")
  /\ UNCHANGED <<lineVars, held>>
==============================================================================

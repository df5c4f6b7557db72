------------------------------ MODULE DiagSystem ------------------------------
(***************************************************************************)
(* A phone in diagnostic mode and the programs that use it, one at a time. *)
(***************************************************************************)
EXTENDS EfsShell

Program == ~Shelling /\ UNCHANGED cPath

(* QcdmSerial and DmEfsManager share the port. *)
CallQcdm ==
  /\ Program
  /\ MayCall
  /\ QcdmCall
  /\ held' = IF last'.ret = "dies" THEN {} ELSE held
  /\ spotless' = (spotless /\ last'.ret # "dies")
  /\ UNCHANGED call

CallEfs ==
  /\ Program
  /\ MayCall
  /\ \/ Hello
     \/ Query
     \/ GetDeviceInfo
     \/ Symlink
     \/ ReadSimlink
     \/ Unlink
     \/ Mkdir
     \/ Rmdir
     \/ FactoryImage
     \/ FactoryImageRead
     \/ GetGroupInfo
     \/ Access

(* The requests that go out in part. *)
CallHalf ==
  /\ Program
  /\ MayCall
  /\ \/ Rename
     \/ Stat
     \/ Lstat
     \/ Chmod
     \/ Statfs
     \/ Chown
     \/ SetQuota
     \/ Deltree
     \/ Truncate
     \/ StatfsV2
     \/ Md5sum
     \/ FormatHotplugDevice
     \/ Shred
     \/ SyncNoWait
     \/ GetSyncStatus
     \/ MakeGoldenCopy

CallHandles ==
  /\ Program
  /\ MayCall
  /\ \/ OpenFile
     \/ Close
     \/ Read
     \/ Write
     \/ Fstat
     \/ Ftruncate
     \/ OpenDir
     \/ CloseDir
     \/ OpenFilesystemImage
     \/ ReadFilesystemImage
     \/ CloseFilesystemImage
     \/ ReadPath
     \/ ReadDir
     \/ ReadDirectory

Continue ==
  /\ UNCHANGED calls
  /\ \/ ReadPath_Fstat
     \/ ReadPath_Read
     \/ ReadPath_Close
     \/ ReadDir_Open
     \/ ReadDir_Read
     \/ ReadDir_Abort
     \/ ReadDir_Close
     \/ ReadDirectory_Read
     \/ ReadDirectory_Abort
  /\ ShellGoesOn

Shell ==
  \/ Shell_Starts
  \/ Shell_Hello
  \/ Shell_Query
  \/ Shell_Lists
  \/ Shell_Cd
  \/ Shell_Del
  \/ Shell_Get
  \/ Get_Fstat
  \/ Get_Read
  \/ Get_Close
  \/ Shell_Put
  \/ Put_Write
  \/ Put_Close

ProgramOver ==
  /\ held' = {}
  /\ cPath' = NoShell
  /\ last' = NoCall
  /\ call' = NotRunning
  /\ UNCHANGED calls

(* The program ends between two calls: it quits, or an exception has ended  *)
(* it. *)
ProgramEnds ==
  /\ ~Running
  /\ Shelling \/ held # {} \/ rx # <<>>
  /\ PortReopens
  /\ ProgramOver
  /\ spotless' = (spotless /\ held = {})

PhoneBoots ==
  /\ phone.mode = "gone" \/ (faults > 0 /\ phone.open # <<>>)
  /\ PhoneStarts
  /\ ProgramOver
  /\ spotless' = TRUE

Next ==
  \/ CallQcdm
  \/ CallEfs
  \/ CallHalf
  \/ CallHandles
  \/ Continue
  \/ Shell
  \/ ProgramEnds
  \/ PhoneBoots

Spec == Init /\ [][Next]_vars

----------------------------------------------------------------------------

Kinds == {"file", "dir", "image"}
Rets == {"ok", "zero", "throws", "dies", "running"}

(* The types of all that the phone, the line and the programs have. *)
TypeOK ==
  /\ \A p \in DOMAIN phone.tree : phone.tree[p].type \in DOMAIN TypeCode
  /\ \A x \in DOMAIN phone.open : x[1] \in Kinds /\ x[2] \in 0 .. MaxOpen
  /\ phone.mode \in {"diag", "gone"}
  /\ \A i \in DOMAIN rx : rx[i].sub \in DOMAIN Answers \cup {"none"}
  /\ faults \in 0 .. MaxFaults
  /\ calls \in 0 .. MaxCalls
  /\ last.ret \in Rets
  /\ \A x \in held : x[1] \in Kinds /\ x[2] \in 0 .. MaxOpen
  /\ (last.ret = "running") = Running
  /\ spotless \in BOOLEAN

(* Files and directories are counted with the handles; readFilesystemImage  *)
(* closes an image behind its caller's back.                                *)
OpenHandles == {x \in DOMAIN phone.open : x[1] # "image"}
HeldHandles == {HandleOf(x) : x \in {y \in held : y[1] # "image"}}

Table == INSTANCE HandleTable WITH open <- OpenHandles, held <- HeldHandles

(* Answers lost, late, or read by another call than the one they are for:   *)
(* open, close and their likes keep what HandleTable says, because an       *)
(* answer is only taken by a call of its own kind, and a failed close is    *)
(* not tried again.                                                         *)
HandlesRefine == Table!Spec

(* While the line is in step, a handle is one of the file it was opened     *)
(* for: what is written through it goes where it was meant to.              *)
HandlesMeanFiles ==
  InStep => \A x \in held :
    x[1] # "image" =>
      /\ HandleOf(x) \in DOMAIN phone.open
      /\ phone.open[HandleOf(x)] = Trimmed(x[3])

(* As long as no call fails, nothing is open on the phone but what the      *)
(* program holds: the methods that go through a whole file or directory     *)
(* close what they open.                                                    *)
ReturnsLeaveNothing == spotless => OpenHandles = HeldHandles

(* A readDir of a path that has ended, by return or exception, has closed   *)
(* the directory it last had a handle of, unless the phone refused a        *)
(* request of it or has left diag mode.                                     *)
ListedDirsClosed ==
  last.op = "readDir" /\ last.ret \in {"ok", "throws"} =>
    \/ last.value.refused
    \/ phone.mode = "gone"
    \/ last.value.dir \notin DOMAIN phone.open

(* A readDir that returns has every entry, those of the directories below   *)
(* too when it is recursive, with a late, cut or unasked packet on the line *)
(* as without, unless the phone refused a request: the error in an answer   *)
(* of ReadDir is not looked at, and taken for the end. With a line that is  *)
(* as many packets behind as the method has requests, every answer is an    *)
(* older one of the same kind, and none of the four properties below holds. *)
ListingIsWhole ==
  last.op = "readDir" /\ last.ret = "ok" /\ ~last.value.refused =>
    {Under(e[1], e[2]) : e \in last.value.found} =
      {p \in DOMAIN phone.tree :
         IF last.value.recursive
         THEN IsStrictPrefix(Slashed(last.arg), p)
         ELSE \E n \in Letters : p = Under(last.arg, n)}

(* A get that gets to its end has written the whole remote file and nothing *)
(* else to the local one, also when something was late or unasked on the    *)
(* line: the requests that follow notice it, the close the last.            *)
GotIsWhole ==
  last.op = "get" /\ last.ret = "ok" =>
    last.value = phone.tree[Trimmed(last.arg)].data

(* read(path, outPath) asks once: it gives the beginning of the file, as    *)
(* much as the phone puts into one answer.                                  *)
ReadPathIsPrefix ==
  last.op = "readPath" /\ last.ret = "ok" =>
    LET data == phone.tree[Trimmed(last.arg)].data
    IN  last.value = SubSeq(data, 1, Min({MaxRead, Len(data)}))

(* A put that gets to its end has put the local file over the beginning of  *)
(* the remote one, also when the phone takes it in parts; the remote file   *)
(* is not truncated and keeps the rest of what it was.                      *)
PutIsWritten ==
  last.op = "put" /\ last.ret = "ok" =>
    phone.tree[Trimmed(last.arg)].data = Overlaid(last.value.old, last.value.data, 0)
==============================================================================

----------------------------- MODULE DiagInvariant -----------------------------
(***************************************************************************)
(* The inductive invariant of DiagSystem: what the types, the handles, the *)
(* values of NV items and the packets on the line have to do with each     *)
(* other between any two steps of a program.                               *)
(***************************************************************************)
EXTENDS DiagSystem

NvValues == {"factory"} \cup Values
NodeTypes == {"file", "dir", "link"}

(* The phone. *)
PhoneOK(p) ==
  /\ p = [tree |-> p.tree, open |-> p.open, nv |-> p.nv, mode |-> p.mode]
  /\ \A path \in DOMAIN p.tree : p.tree[path].type \in NodeTypes
  /\ \A x \in DOMAIN p.open :
       /\ x = <<x[1], x[2]>>
       /\ x[1] \in Kinds
       /\ x[2] \in 0 .. MaxOpen
  /\ DOMAIN p.nv = Items
  /\ \A item \in Items : p.nv[item] \in NvValues
  /\ p.mode \in {"diag", "gone"}

(* A packet on its way: an answer of the file system, which carries a       *)
(* handle when it is one of an open, or a packet of the rest of diag.       *)
PacketOK(packet) ==
  /\ packet.sub \in DOMAIN Answers \cup {"none"}
  /\ packet.sub # "none" => packet.cmd = "subsys"
  /\ packet.cmd = "nvRead" =>
       /\ "value" \in DOMAIN packet.f
       /\ packet.f["value"] \in NvValues
  /\ packet.sub = "Open" => {"fp", "error"} \subseteq DOMAIN packet.f
  /\ packet.sub = "OpenDir" => {"dp", "error"} \subseteq DOMAIN packet.f
  /\ packet.sub = "FsImageOpen" => Got(packet, "handle") \in 0 .. MaxOpen

(* The handle that an answer brings to the call that reads it. *)
Granted(packet) ==
  CASE packet.sub = "Open" /\ packet.f["error"] = 0 -> {<<"file", packet.f["fp"]>>}
    [] packet.sub = "OpenDir" /\ packet.f["error"] = 0 -> {<<"dir", packet.f["dp"]>>}
    [] OTHER -> {}

(* What is opened and not read yet is open and no other's. *)
Waiting(queue, open, owned) ==
  \A i \in 1 .. Len(queue) : \A h \in Granted(queue[i]) :
    /\ h \in open
    /\ h \notin owned
    /\ \A j \in 1 .. Len(queue) : j # i => h \notin Granted(queue[j])

QueueOK(queue, open, owned) ==
  /\ queue \in Seq(Range(queue))
  /\ \A i \in 1 .. Len(queue) : PacketOK(queue[i])
  /\ Waiting(queue, open, owned)

NoAnswers(queue) == \A i \in 1 .. Len(queue) : queue[i].sub = "none"

(* Files and directories among handles, on the phone and in the program.    *)
Counted(open) == {x \in DOMAIN open : x[1] # "image"}
Owned(handles) == {HandleOf(x) : x \in {y \in handles : y[1] # "image"}}

HandlesOK(handles) ==
  /\ \A x \in handles : x[1] \in Kinds /\ x[2] \in 0 .. MaxOpen
  /\ \A x, y \in handles : x[1] # "image" /\ HandleOf(x) = HandleOf(y) => x = y

OpenedFor(p, handles) ==
  \A x \in handles :
    x[1] # "image" => p.open[HandleOf(x)] = Trimmed(x[3])

(* The kind of handle that a method of several requests goes on with. *)
CallKind(op) == IF op \in {"readDir", "readDirectory"} THEN "dir" ELSE "file"
CallOK ==
  /\ call = [x \in DOMAIN call |-> call[x]]
  /\ "op" \in DOMAIN call
  /\ Running =>
       /\ {"at", "x"} \subseteq DOMAIN call
       /\ call.at # "open" => call.x \in held /\ call.x[1] = CallKind(call.op)
Aborting == Running /\ call.at = "abort"

LastOK ==
  /\ last.ret \in Rets
  /\ (last.ret = "running") = Running

IInv ==
  /\ PhoneOK(phone)
  /\ HandlesOK(held)
  /\ HeldHandles \subseteq OpenHandles
  /\ QueueOK(rx, OpenHandles, HeldHandles)
  /\ InStep => OpenedFor(phone, held)
  /\ spotless => OpenHandles = HeldHandles
  /\ spotless /\ ~Aborting => NoAnswers(rx)
  /\ CallOK
  /\ LastOK
  /\ NvReadIsPhones
  /\ faults \in 0 .. MaxFaults
  /\ calls \in 0 .. MaxCalls
  /\ spotless \in BOOLEAN
(* What IInv does not say of readDir: handle 0, the one it gives when no    *)
(* directory has been opened, is never one of the phone's.                  *)
ListingOK ==
  /\ <<"dir", 0>> \notin DOMAIN phone.open
  /\ ListedDirsClosed
  /\ call.op = "readDir" =>
       /\ "refused" \in DOMAIN call
       /\ call.at = "open" => call.x = InvalidDir

----------------------------------------------------------------------------
(* What is in the files, and what the methods that go through a whole file  *)
(* have of it between two of their requests.                                *)

FilesOK(p) ==
  /\ \A path \in DOMAIN p.tree :
       p.tree[path].type = "file" => p.tree[path].data \in Seq(Nat)
  /\ \A x \in DOMAIN p.open :
       x[1] = "file" => /\ p.open[x] \in DOMAIN p.tree
                        /\ p.tree[p.open[x]].type = "file"

(* The line is behind by no more packets than there were faults, and by one *)
(* where the phone sends none unasked.                                      *)
Backlog ==
  /\ Len(rx) + faults <= MaxFaults
  /\ "log" \notin Faults => Len(rx) <= 1
FewLogs(n) == "log" \in Faults => MaxFaults <= n

WrittenCounts ==
  \A i \in 1 .. Len(rx) : rx[i].sub = "Write" => Got(rx[i], "bytesWritten") \in Nat
PutLocals ==
  call.op = "put" =>
    /\ {"at", "x", "data", "written", "readable", "old"} \subseteq DOMAIN call
    /\ call.data \in Seq(Nat)
    /\ call.written \in Nat

DataOK ==
  /\ FilesOK(phone)
  /\ WrittenCounts
  /\ PutLocals
  /\ Backlog

(* A method that was begun with the line behind finds the answer of its own *)
(* open, or a packet that is none, where one of the next n requests expects *)
(* its answer, or finds the line empty: it does not return.                 *)
DoomedBy(queue, mode, n) ==
  \/ \E j \in 1 .. Len(queue) :
       j <= n /\ queue[j].sub \in {"none", "Open", "OpenDir"}
  \/ mode = "gone" /\ Len(queue) < n
Doomed(n) == DoomedBy(rx, phone.mode, n)

(* Otherwise the line is in step, and what the method has is what the phone *)
(* has.  The requests still to come are three, two and one at the least.    *)
OpenData == phone.tree[Trimmed(call.x[3])].data
ReadPathLeft == CASE call.at = "fstat" -> 3 [] call.at = "read" -> 2 [] OTHER -> 1
ReadPathGoes ==
  call.op = "readPath" =>
    \/ Doomed(ReadPathLeft)
    \/ /\ InStep
       /\ call.at = "read" => call.size = Len(OpenData)
       /\ call.at = "close" =>
            call.data = SubSeq(OpenData, 1, Min({MaxRead, Len(OpenData)}))

CopyLeft == IF call.at = "close" THEN 1 ELSE 2
GetGoes ==
  call.op = "get" =>
    \/ Doomed(CopyLeft)
    \/ /\ InStep
       /\ call.at # "fstat" =>
            /\ call.size = Len(OpenData)
            /\ \E n \in 0 .. Len(OpenData) :
                 /\ call.data = SubSeq(OpenData, 1, n)
                 /\ call.at = "close" => n = Len(OpenData)
PutGoes ==
  call.op = "put" /\ call.readable =>
    \/ Doomed(CopyLeft)
    \/ /\ InStep
       /\ call.old \in Seq(Nat)
       /\ call.written \in 0 .. Len(call.data)
       /\ call.at = "close" => call.written = Len(call.data)
       /\ OpenData = Overlaid(call.old, SubSeq(call.data, 1, call.written), 0)

----------------------------------------------------------------------------
(* Listings: the names on the line and in the program are those of files,   *)
(* the directory of the shell is one slash and letters.                     *)

Characters == Letters \cup {"/"}
Naming(packet) ==
  packet.sub = "ReadDir" => Got(packet, "name") \in Letters \cup {""}
NamesOf(found) == {e[2] : e \in found}

(* A path that may be listed: with no more slashes at its end than one.     *)
Listable(path) == path \in Seq(Characters) /\ path # <<>> /\ path # <<"/", "/">>
ShellPath(path) ==
  /\ path \in Seq(Characters)
  /\ path # <<>>
  /\ \A i \in DOMAIN path : (path[i] = "/") = (i = 1)

ListingFields ==
  {"op", "at", "top", "path", "todo", "recursive", "found", "refused", "x", "n",
   "name", "type", "below"}
ListingTyped(c) ==
  /\ DOMAIN c = ListingFields
  /\ Listable(c.path)
  /\ c.todo \in Seq(Range(c.todo))
  /\ c.below \in Seq(Range(c.below))
  /\ \A path \in Range(c.todo) \cup Range(c.below) : Listable(path)
  /\ c.n \in Nat \ {0}
  /\ c.at = "open" => c.n = 1 /\ c.below = <<>> /\ c.name = ""
  /\ c.name \in Letters \cup {""}
  /\ NamesOf(c.found) \subseteq Letters
  /\ c.at # "open" => c.x[3] = c.path
ReadDirLocals == call.op = "readDir" => ListingTyped(call)

NamesKept ==
  /\ TreeOK(phone.tree)
  /\ \A i \in 1 .. Len(rx) : Naming(rx[i])
  /\ Shelling => ShellPath(cPath)
  /\ ReadDirLocals
  /\ last.op = "readDir" /\ last.ret = "ok" => NamesOf(last.value.found) \subseteq Letters
  /\ Shelling /\ last.op = "readDir" => last.ret \in {"ok", "running"}

(* What is below a directory, and what a listing of it has to have.         *)
Below(tree, dir) == {p \in DOMAIN tree : IsStrictPrefix(Slashed(dir), p)}
EntriesOf(tree, dir) == {p \in DOMAIN tree : \E n \in Letters : p = Under(dir, n)}
ContentOf(tree, c, dir) ==
  IF c.recursive THEN Below(tree, dir) ELSE EntriesOf(tree, dir)
IsDir(tree, dir) == Trimmed(dir) \in DOMAIN tree /\ tree[Trimmed(dir)].type = "dir"

(* What it has, the directories it still has to go through, and what it has *)
(* not had yet of the one it is in.                                         *)
Had(c) == {Under(e[1], e[2]) : e \in c.found}
Pending(c) ==
  (IF c.at = "open" THEN {c.path} ELSE {})
    \cup Range(c.todo) \cup (IF c.recursive THEN Range(c.below) ELSE {})
EntryNames(tree, dir) ==
  SetToSeq({n \in Letters : Under(Trimmed(dir), n) \in DOMAIN tree})
Left(tree, c) ==
  IF c.at # "read" THEN {}
  ELSE LET names == EntryNames(tree, c.path)
       IN  {Under(c.path, names[i]) : i \in c.n .. Len(names)}
BelowLeft(tree, c) ==
  IF c.recursive
  THEN UNION {Below(tree, p) : p \in {q \in Left(tree, c) : tree[q].type = "dir"}}
  ELSE {}
Ahead(tree, c) ==
  Left(tree, c) \cup (UNION {ContentOf(tree, c, d) : d \in Pending(c)})
    \cup BelowLeft(tree, c)

(* One of the directories is none, and cannot be opened; or nothing that is *)
(* to be listed gets lost.                                                  *)
Missing(tree, c) == \E d \in Pending(c) : ~ IsDir(tree, d)
Covers(tree, c) ==
  /\ c.at = "read" => IsDir(tree, c.path)
  /\ Missing(tree, c) \/ ContentOf(tree, c, c.top) = Had(c) \cup Ahead(tree, c)

ReadDirGoes ==
  call.op = "readDir" /\ ~ call.refused /\ call.at # "abort" =>
    \/ call.at = "open" /\ ~ InStep
    \/ call.at = "read" /\ Doomed(2)
    \/ call.at = "close" /\ Doomed(1)
    \/ InStep /\ Covers(phone.tree, call)
================================================================================

------------------------------ MODULE DiagPhone ------------------------------
(***************************************************************************)
(* A phone in diagnostic mode, as QcdmSerial and DmEfsManager presuppose   *)
(* it: a file system with open files and directories, NV items, a service  *)
(* code and a mode.  Its state is one record; Serve is what it does with   *)
(* one request.                                                            *)
(*                                                                         *)
(* A path is the sequence of its characters, every name being a letter.    *)
(***************************************************************************)
EXTENDS EfsPackets, Integers, FiniteSets, FiniteSetsExt

CONSTANTS
  Tree,          (* the files at the start: path -> [type, data]            *)
  Letters,       (* the names an entry of a directory may have              *)
  Items,         (* the NV items                                            *)
  MaxOpen,       (* how many files, and how many directories, may be open   *)
  MaxRead,       (* the units one read answers with at the most             *)
  MaxWrite,      (* the units one write takes                               *)
  LabelLength    (* the characters of the flash chip's name, with the zero  *)

(* What a file has in it is a sequence of units, each a number. *)
ASSUME PhoneAssumption ==
  /\ MaxOpen \in Nat
  /\ MaxRead \in Nat
  /\ MaxWrite \in Nat
  /\ \A path \in DOMAIN Tree :
       /\ Tree[path].type \in {"file", "dir", "link"}
       /\ Tree[path].type = "file" => Tree[path].data \in Seq(Nat)

Root == <<"/">>
NoData == <<>>
File(data) == [type |-> "file", data |-> data]
Dir == [type |-> "dir", data |-> NoData]

Trimmed(path) ==
  IF Len(path) > 1 /\ path[Len(path)] = "/" THEN Front(path) ELSE path
Slashed(path) == IF path[Len(path)] = "/" THEN path ELSE Append(path, "/")
Under(dir, name) == Append(Slashed(dir), name)
Parent(path) ==
  LET dir == SubSeq(path, 1, Len(path) - 1) IN Trimmed(dir)

(* Names are divided by slashes; a path may end with one. *)
WellNamed(path) ==
  /\ path \in Seq(Letters \cup {"/"})
  /\ \A i \in DOMAIN path : (path[i] = "/") = (i % 2 = 1)

(* What is in a directory has that directory in the tree. *)
TreeOK(tree) ==
  \A path \in DOMAIN tree :
    /\ WellNamed(path)
    /\ path # <<>>
    /\ path = Root \/ Len(path) % 2 = 0
    /\ \A n \in 1 .. Len(path) - 1 :
         n % 2 = 0 => /\ SubSeq(path, 1, n) \in DOMAIN tree
                      /\ tree[SubSeq(path, 1, n)].type = "dir"

(* The tree at the start is one; the name of no file is empty or a slash. *)
ASSUME TreeAssumption ==
  /\ IsFiniteSet(Letters)
  /\ {"/", ""} \cap Letters = {}
  /\ TreeOK(Tree)

NewPhone ==
  [tree |-> Tree, open |-> <<>>, nv |-> [i \in Items |-> "factory"],
   mode |-> "diag"]

IsA(phone, path, type) ==
  Trimmed(path) \in DOMAIN phone.tree /\ phone.tree[Trimmed(path)].type = type
Names(phone, dir) ==
  {n \in Letters : Under(dir, n) \in DOMAIN phone.tree}
Exists(phone, path) == Trimmed(path) \in DOMAIN phone.tree

(* An answer of the file system, and one of the rest of diag. *)
Answer(sub, given) ==
  [cmd |-> "subsys", sub |-> sub,
   f |-> [x \in Range(Answers[sub]) |->
            IF x \in DOMAIN given THEN given[x] ELSE Zero(x)]]
QcdmAnswer(cmd, given) == [cmd |-> cmd, sub |-> "none", f |-> given]
Refusal(req) ==
  IF req.cmd # "subsys" THEN QcdmAnswer("bad", <<>>)
  ELSE Answer(req.sub, [error |-> 1])
BadCommand == QcdmAnswer("bad", <<>>)
LogPacket == QcdmAnswer("log", <<>>)
Remainder == QcdmAnswer("remainder", <<>>)

Done(phone, ans) == [phone |-> phone, answer |-> ans]
Refused(phone, req) == Done(phone, Refusal(req))
Doing(phone, req, allowed, new) ==
  IF allowed THEN Done(new, Answer(req.sub, <<>>)) ELSE Refused(phone, req)

(* Handles: files from 0, directories and images from 1.                    *)
Free(phone, kind) ==
  Min({n \in (IF kind = "file" THEN 0 .. MaxOpen - 1 ELSE 1 .. MaxOpen) :
         <<kind, n>> \notin DOMAIN phone.open} \cup {MaxOpen + 1})
Opens(phone, req, kind, field, allowed) ==
  LET h == Free(phone, kind)
  IN  IF ~allowed \/ h > MaxOpen THEN Refused(phone, req)
      ELSE Done([phone EXCEPT !.open = Only(<<kind, h>>, Trimmed(req.path)) ++ @],
                Answer(req.sub, Only(field, h)))
Closes(phone, req, kind) ==
  LET x == <<kind, req.h>>
  IN  Doing(phone, req, x \in DOMAIN phone.open,
            [phone EXCEPT !.open =
               [y \in DOMAIN phone.open \ {x} |-> phone.open[y]]])
IsOpen(phone, kind, h) == <<kind, h>> \in DOMAIN phone.open
InUse(phone, path) == \E x \in DOMAIN phone.open : phone.open[x] = path

Put(phone, path, node) == [phone EXCEPT !.tree = Only(path, node) ++ @]
Dropping(phone, path) ==
  [phone EXCEPT !.tree = [p \in DOMAIN phone.tree \ {path} |-> phone.tree[p]]]

OpensFile(phone, req) ==
  LET path == Trimmed(req.path)
      new == /\ req.creates
             /\ ~Exists(phone, req.path)
             /\ IsA(phone, Parent(path), "dir")
  IN  IF new /\ Free(phone, "file") <= MaxOpen
      THEN Opens(Put(phone, path, File(NoData)), req, "file", "fp", TRUE)
      ELSE Opens(phone, req, "file", "fp", IsA(phone, req.path, "file"))

Overlaid(old, new, offset) ==
  SubSeq(old, 1, offset) \o new
    \o SubSeq(old, offset + Len(new) + 1, Len(old))

Reads(phone, req) ==
  IF ~IsOpen(phone, "file", req.h) THEN Refused(phone, req)
  ELSE LET data == phone.tree[phone.open[<<"file", req.h>>]].data
           part == SubSeq(data, req.offset + 1,
                          Min({Len(data), req.offset + Min({req.size, MaxRead})}))
       IN  Done(phone, Answer("Read", [fp |-> req.h, offset |-> req.offset,
                                       bytesRead |-> Len(part), data |-> part]))

Writes(phone, req) ==
  IF ~IsOpen(phone, "file", req.h) THEN Refused(phone, req)
  ELSE LET path == phone.open[<<"file", req.h>>]
           part == SubSeq(req.data, 1, Min({Len(req.data), MaxWrite}))
           old == phone.tree[path].data
       IN  IF req.offset > Len(old) THEN Refused(phone, req)
           ELSE Done(Put(phone, path, File(Overlaid(old, part, req.offset))),
                     Answer("Write", [fp |-> req.h, offset |-> req.offset,
                                      bytesWritten |-> Len(part)]))

TypeCode == [file |-> 0, dir |-> 1, link |-> 2]
ListsEntry(phone, req) ==
  IF ~IsOpen(phone, "dir", req.h) THEN Refused(phone, req)
  ELSE LET dir == phone.open[<<"dir", req.h>>]
           names == SetToSeq(Names(phone, dir))
           n == req.sequence
       IN  Done(phone, Answer("ReadDir",
             IF n \notin DOMAIN names
             THEN [dp |-> req.h, sequenceNumber |-> n]
             ELSE LET node == phone.tree[Under(dir, names[n])]
                  IN  [dp |-> req.h, sequenceNumber |-> n, name |-> names[n],
                       entryType |-> TypeCode[node.type]]))

(* A request whose path was cut is refused. *)
ServesEfs(phone, req) ==
  CASE req.sub = "Open" -> OpensFile(phone, req)
    [] req.sub = "Close" -> Closes(phone, req, "file")
    [] req.sub = "Read" -> Reads(phone, req)
    [] req.sub = "Write" -> Writes(phone, req)
    [] req.sub = "Fstat" ->
         IF ~IsOpen(phone, "file", req.h) THEN Refused(phone, req)
         ELSE Done(phone, Answer("Fstat",
                [size |-> Len(phone.tree[phone.open[<<"file", req.h>>]].data)]))
    [] req.sub = "OpenDir" ->
         Opens(phone, req, "dir", "dp", IsA(phone, req.path, "dir"))
    [] req.sub = "ReadDir" -> ListsEntry(phone, req)
    [] req.sub = "CloseDir" -> Closes(phone, req, "dir")
    [] req.sub = "FsImageOpen" -> Opens(phone, req, "image", "handle", TRUE)
    [] req.sub = "FsImageClose" -> Closes(phone, req, "image")
    [] req.sub = "Unlink" ->
         Doing(phone, req, /\ IsA(phone, req.path, "file")
                           /\ ~InUse(phone, Trimmed(req.path)),
               Dropping(phone, Trimmed(req.path)))
    [] req.sub = "Mkdir" ->
         Doing(phone, req, /\ ~Exists(phone, req.path)
                           /\ IsA(phone, Parent(Trimmed(req.path)), "dir"),
               Put(phone, Trimmed(req.path), Dir))
    [] req.sub = "Rmdir" ->
         Doing(phone, req, /\ IsA(phone, req.path, "dir")
                           /\ Trimmed(req.path) # Root
                           /\ Names(phone, req.path) = {}
                           /\ ~InUse(phone, Trimmed(req.path)),
               Dropping(phone, Trimmed(req.path)))
    [] req.sub = "Symlink" ->
         Doing(phone, req, /\ ~Exists(phone, req.link)
                           /\ IsA(phone, Parent(Trimmed(req.link)), "dir"),
               Put(phone, Trimmed(req.link), [type |-> "link", data |-> req.path]))
    [] req.sub = "ReadLink" ->
         IF ~IsA(phone, req.path, "link") THEN Refused(phone, req)
         ELSE Done(phone, Answer("ReadLink",
                                 [path |-> phone.tree[Trimmed(req.path)].data]))
    [] req.sub = "Ftruncate" ->
         IF ~IsOpen(phone, "file", req.h) THEN Refused(phone, req)
         ELSE Done(LET path == phone.open[<<"file", req.h>>]
                   IN  Put(phone, path,
                           File(SubSeq(phone.tree[path].data, 1, req.size))),
                   Answer("Ftruncate", <<>>))
    [] req.sub \in {"Stat", "Lstat", "StatFS", "StatVFS_V2", "Chmod"} ->
         Doing(phone, req, Exists(phone, req.path), phone)
    [] req.sub \in {"Hello", "Query", "DevInfo", "FactoryImageStart"} ->
         Done(phone, Answer(req.sub, <<>>))
    [] OTHER -> Refused(phone, req)

(* The rest of diag.  A phone switched to download mode or reset leaves     *)
(* diagnostic mode after its answer.                                        *)
ServesQcdm(phone, req) ==
  CASE req.cmd = "nvRead" ->
         Done(phone, QcdmAnswer("nvRead", [item |-> req.item,
                                           value |-> phone.nv[req.item]]))
    [] req.cmd = "nvWrite" ->
         Done([phone EXCEPT !.nv[req.item] = req.value],
              QcdmAnswer("nvWrite", [item |-> req.item]))
    [] req.cmd = "dload" \/ (req.cmd = "control" /\ req.mode = "reset") ->
         Done([phone EXCEPT !.mode = "gone"], QcdmAnswer(req.cmd, <<>>))
    [] OTHER -> Done(phone, QcdmAnswer(req.cmd, [status |-> "yes"]))

Serve(phone, req) ==
  IF req.cmd = "subsys" THEN ServesEfs(phone, req) ELSE ServesQcdm(phone, req)

(* A boot closes everything; what is stored stays. *)
Booted(phone) == [phone EXCEPT !.open = <<>>, !.mode = "diag"]
==============================================================================

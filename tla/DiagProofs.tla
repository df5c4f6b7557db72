------------------------------ MODULE DiagProofs ------------------------------
(***************************************************************************)
(* The handles of the phone's file system, for phones of any files and     *)
(* limits, programs of any paths and any number of faults: proofs of what  *)
(* DiagSystem says of them.  First what one request does to the phone, and *)
(* one exchange to the line.  Every step of a program is of one of a few   *)
(* shapes; the invariant is proved for the shapes, and each method to be   *)
(* of one.                                                                 *)
(***************************************************************************)
EXTENDS DiagInvariant, FunctionTheorems, SequenceTheorems, WellFoundedInduction, TLAPS

----------------------------------------------------------------------------
(* Numbers and sequences.                                                   *)

LEMMA LeastIsThere ==
  ASSUME NEW S, S \subseteq Nat, S # {}
  PROVE  Min(S) \in S /\ \A y \in S : Min(S) <= y
<1>1. PICK x \in S : \A y \in S : ~ (<<y, x>> \in OpToRel(<, Nat))
  BY NatLessThanWellFounded, WFMin
<1>2. \A y \in S : x <= y
  <2>1. SUFFICES ASSUME NEW y \in S, ~ (x <= y)
                 PROVE  FALSE
    OBVIOUS
  <2>2. x \in Nat /\ y \in Nat /\ y < x
    BY <2>1
  <2>3. <<y, x>> \in OpToRel(<, Nat)
    BY <2>2 DEF OpToRel
  <2> QED
    BY <1>1, <2>3
<1> QED
  BY <1>2 DEF Min

(* The first free number of a kind is free, if there is one; directories   *)
(* and images are counted from 1.                                           *)
LEMMA FreeIsFree ==
  ASSUME NEW p, NEW kind
  PROVE  /\ Free(p, kind) \in Nat
         /\ Free(p, kind) <= MaxOpen => <<kind, Free(p, kind)>> \notin DOMAIN p.open
         /\ kind # "file" => Free(p, kind) # 0
<1> DEFINE S == {n \in (IF kind = "file" THEN 0 .. MaxOpen - 1 ELSE 1 .. MaxOpen) :
                   <<kind, n>> \notin DOMAIN p.open} \cup {MaxOpen + 1}
<1>1. S \subseteq Nat /\ S # {}
  BY PhoneAssumption
<1>2. Min(S) \in S
  BY <1>1, LeastIsThere
<1>3. Free(p, kind) = Min(S)
  BY DEF Free
<1> QED
  BY <1>1, <1>2, <1>3, PhoneAssumption

----------------------------------------------------------------------------
(* Packets.                                                                 *)

Opening == {"Open", "OpenDir", "FsImageOpen"}
Handling == Opening \cup {"Close", "CloseDir", "FsImageClose"}

LEMMA JoinedEntry ==
  ASSUME NEW tables, NEW t \in tables, NEW x \in DOMAIN t,
         \A s \in tables : x \in DOMAIN s => s = t
  PROVE  Joined(tables)[x] = t[x]
BY DEF Joined

(* The answers there are, and the fields of those that bring a handle or    *)
(* what is in a file.                                                       *)
LEMMA AnswerTable ==
  /\ DOMAIN Answers =
       {"Hello", "Query", "Open", "Close", "Read", "Write", "Symlink",
        "ReadLink", "Unlink", "Mkdir", "Rmdir", "OpenDir", "ReadDir",
        "CloseDir", "Rename", "Stat", "Lstat", "Fstat", "Chmod", "StatFS",
        "Access", "DevInfo", "FactoryImageStart", "Chown", "SetQuota",
        "SetReservation", "GetGroupInfo", "Deltree", "Truncate", "Ftruncate",
        "StatVFS_V2", "Md5Sum", "HotplugFormat", "Shred", "HotplugDeviceInfo",
        "SyncNoWait", "SyncGetStatus", "MakeGoldenCopy", "FsImageOpen",
        "FsImageRead", "FsImageClose"}
  /\ Answers["Open"] = <<"fp", "error">>
  /\ Answers["OpenDir"] = <<"dp", "error">>
  /\ Answers["FsImageOpen"] = <<"sequence", "handle", "error">>
  /\ Answers["Close"] = <<"error">>
  /\ Answers["CloseDir"] = <<"error">>
  /\ Answers["Read"] = <<"fp", "offset", "bytesRead", "error", "data">>
  /\ Answers["Write"] = <<"fp", "offset", "bytesWritten", "error">>
  /\ Answers["Fstat"] = <<"error", "mode", "size", "linkCount">> \o Times
  /\ Answers["ReadDir"] = <<"dp", "sequenceNumber", "error", "entryType", "mode",
                            "size", "atime", "mtime", "ctime", "name">>
<1> DEFINE Tables == {SessionAnswers, FileAnswers, DirAnswers,
                      AttributeAnswers, DeviceAnswers, OwnerAnswers,
                      TreeAnswers, ImageAnswers}
<1>1. DOMAIN SessionAnswers = {"Hello", "Query"}
  BY DEF SessionAnswers
<1>2. DOMAIN FileAnswers = {"Open", "Close", "Read", "Write", "Symlink", "ReadLink",
                            "Unlink"}
  BY DEF FileAnswers
<1>3. DOMAIN DirAnswers = {"Mkdir", "Rmdir", "OpenDir", "ReadDir", "CloseDir",
                           "Rename"}
  BY DEF DirAnswers
<1>4. DOMAIN AttributeAnswers = {"Stat", "Lstat", "Fstat", "Chmod", "StatFS",
                                 "Access"}
  BY DEF AttributeAnswers
<1>5. DOMAIN DeviceAnswers = {"DevInfo", "FactoryImageStart"}
  BY DEF DeviceAnswers
<1>6. DOMAIN OwnerAnswers = {"Chown", "SetQuota", "SetReservation",
                             "GetGroupInfo"}
  BY DEF OwnerAnswers
<1>7. DOMAIN TreeAnswers = {"Deltree", "Truncate", "Ftruncate", "StatVFS_V2",
                            "Md5Sum", "HotplugFormat", "Shred"}
  BY DEF TreeAnswers
<1>8. DOMAIN ImageAnswers = {"HotplugDeviceInfo", "SyncNoWait", "SyncGetStatus",
                             "MakeGoldenCopy", "FsImageOpen", "FsImageRead",
                             "FsImageClose"}
  BY DEF ImageAnswers
<1>9. Answers = Joined(Tables)
  BY DEF Answers
<1>10. UNION {DOMAIN t : t \in Tables} =
         DOMAIN SessionAnswers \cup DOMAIN FileAnswers \cup DOMAIN DirAnswers
         \cup DOMAIN AttributeAnswers \cup DOMAIN DeviceAnswers
         \cup DOMAIN OwnerAnswers \cup DOMAIN TreeAnswers
         \cup DOMAIN ImageAnswers
  OBVIOUS
<1>11. DOMAIN Answers =
         DOMAIN SessionAnswers \cup DOMAIN FileAnswers \cup DOMAIN DirAnswers
         \cup DOMAIN AttributeAnswers \cup DOMAIN DeviceAnswers
         \cup DOMAIN OwnerAnswers \cup DOMAIN TreeAnswers
         \cup DOMAIN ImageAnswers
  <2>1. DOMAIN Answers = UNION {DOMAIN t : t \in Tables}
    BY <1>9 DEF Joined
  <2> QED
    BY <1>10, <2>1
<1>12. DOMAIN Answers =
         {"Hello", "Query", "Open", "Close", "Read", "Write", "Symlink",
          "ReadLink", "Unlink", "Mkdir", "Rmdir", "OpenDir", "ReadDir",
          "CloseDir", "Rename", "Stat", "Lstat", "Fstat", "Chmod", "StatFS",
          "Access", "DevInfo", "FactoryImageStart", "Chown", "SetQuota",
          "SetReservation", "GetGroupInfo", "Deltree", "Truncate",
          "Ftruncate", "StatVFS_V2", "Md5Sum", "HotplugFormat", "Shred",
          "HotplugDeviceInfo", "SyncNoWait", "SyncGetStatus",
          "MakeGoldenCopy", "FsImageOpen", "FsImageRead", "FsImageClose"}
  BY <1>1, <1>2, <1>3, <1>4, <1>5, <1>6, <1>7, <1>8, <1>11
<1>13. \A x \in {"Open", "Close", "Read", "Write"} : Answers[x] = FileAnswers[x]
  <2>1. \A x \in {"Open", "Close", "Read", "Write"} :
          \A s \in Tables : x \in DOMAIN s => s = FileAnswers
    BY <1>1, <1>2, <1>3, <1>4, <1>5, <1>6, <1>7, <1>8
  <2>2. FileAnswers \in Tables
    OBVIOUS
  <2> HIDE DEF Tables
  <2> QED
    BY <1>2, <1>9, <2>1, <2>2, JoinedEntry
<1>14. \A x \in {"OpenDir", "CloseDir", "ReadDir"} : Answers[x] = DirAnswers[x]
  <2>1. \A x \in {"OpenDir", "CloseDir", "ReadDir"} :
          \A s \in Tables : x \in DOMAIN s => s = DirAnswers
    BY <1>1, <1>2, <1>3, <1>4, <1>5, <1>6, <1>7, <1>8
  <2>2. DirAnswers \in Tables
    OBVIOUS
  <2> HIDE DEF Tables
  <2> QED
    BY <1>3, <1>9, <2>1, <2>2, JoinedEntry
<1>15. Answers["Fstat"] = AttributeAnswers["Fstat"]
  <2>1. \A s \in Tables : "Fstat" \in DOMAIN s => s = AttributeAnswers
    BY <1>1, <1>2, <1>3, <1>4, <1>5, <1>6, <1>7, <1>8
  <2>2. AttributeAnswers \in Tables
    OBVIOUS
  <2> HIDE DEF Tables
  <2> QED
    BY <1>4, <1>9, <2>1, <2>2, JoinedEntry
<1>16. Answers["FsImageOpen"] = ImageAnswers["FsImageOpen"]
  <2>1. \A s \in Tables : "FsImageOpen" \in DOMAIN s => s = ImageAnswers
    BY <1>1, <1>2, <1>3, <1>4, <1>5, <1>6, <1>7, <1>8
  <2>2. ImageAnswers \in Tables
    OBVIOUS
  <2> HIDE DEF Tables
  <2> QED
    BY <1>8, <1>9, <2>1, <2>2, JoinedEntry
<1>17. /\ FileAnswers["Open"] = <<"fp", "error">>
       /\ FileAnswers["Close"] = <<"error">>
       /\ FileAnswers["Read"] = <<"fp", "offset", "bytesRead", "error", "data">>
       /\ FileAnswers["Write"] = <<"fp", "offset", "bytesWritten", "error">>
  BY DEF FileAnswers
<1>18. /\ DirAnswers["OpenDir"] = <<"dp", "error">>
       /\ DirAnswers["CloseDir"] = <<"error">>
       /\ DirAnswers["ReadDir"] =
            <<"dp", "sequenceNumber", "error", "entryType", "mode", "size",
              "atime", "mtime", "ctime", "name">>
  BY DEF DirAnswers
<1>19. /\ AttributeAnswers["Fstat"] =
            <<"error", "mode", "size", "linkCount">> \o Times
       /\ ImageAnswers["FsImageOpen"] = <<"sequence", "handle", "error">>
  BY DEF AttributeAnswers, ImageAnswers
<1> HIDE DEF Tables
<1> QED
  BY <1>12, <1>13, <1>14, <1>15, <1>16, <1>17, <1>18, <1>19

(* The fields of an answer that brings a handle.                            *)
LEMMA AnswerShape ==
  ASSUME NEW sub, NEW given
  PROVE  /\ Answer(sub, given).cmd = "subsys"
         /\ Answer(sub, given).sub = sub
         /\ \A x \in DOMAIN Answer(sub, given).f :
              Answer(sub, given).f[x] =
                IF x \in DOMAIN given THEN given[x] ELSE Zero(x)
BY DEF Answer

LEMMA HandleAnswerFields ==
  ASSUME NEW given
  PROVE  /\ DOMAIN Answer("Open", given).f = {"fp", "error"}
         /\ DOMAIN Answer("OpenDir", given).f = {"dp", "error"}
         /\ DOMAIN Answer("FsImageOpen", given).f = {"sequence", "handle", "error"}
         /\ DOMAIN Answer("Close", given).f = {"error"}
         /\ DOMAIN Answer("CloseDir", given).f = {"error"}
<1>1. Range(<<"fp", "error">>) = {"fp", "error"}
  BY DEF Range
<1>2. Range(<<"dp", "error">>) = {"dp", "error"}
  BY DEF Range
<1>3. Range(<<"sequence", "handle", "error">>) = {"sequence", "handle", "error"}
  BY DEF Range
<1>4. Range(<<"error">>) = {"error"}
  BY DEF Range
<1> QED
  BY <1>1, <1>2, <1>3, <1>4, AnswerTable DEF Answer

LEMMA Zeros ==
  /\ Zero("fp") = 0
  /\ Zero("dp") = 0
  /\ Zero("handle") = 0
  /\ Zero("error") = 0
BY DEF Zero

LEMMA OnlyFields ==
  ASSUME NEW x, NEW v
  PROVE  /\ DOMAIN Only(x, v) = {x}
         /\ Only(x, v)[x] = v
BY DEF Only

(* An answer that grants a handle is the one of an open that was done.      *)
LEMMA GrantingAnswers ==
  ASSUME NEW h
  PROVE  /\ Granted(Answer("Open", Only("fp", h))) = {<<"file", h>>}
         /\ Granted(Answer("OpenDir", Only("dp", h))) = {<<"dir", h>>}
         /\ Answer("Open", Only("fp", h)).f["fp"] = h
         /\ Answer("OpenDir", Only("dp", h)).f["dp"] = h
         /\ Answer("FsImageOpen", Only("handle", h)).f["handle"] = h
<1>1. ASSUME NEW g, DOMAIN g = {"fp"}, g["fp"] = h
      PROVE  /\ Answer("Open", g).f["fp"] = h
             /\ Answer("Open", g).f["error"] = 0
             /\ Granted(Answer("Open", g)) = {<<"file", h>>}
  <2>1. Answer("Open", g).f["fp"] = h /\ Answer("Open", g).f["error"] = 0
    BY <1>1, HandleAnswerFields, AnswerShape, Zeros
  <2> QED
    BY <2>1, AnswerShape DEF Granted
<1>2. ASSUME NEW g, DOMAIN g = {"dp"}, g["dp"] = h
      PROVE  /\ Answer("OpenDir", g).f["dp"] = h
             /\ Answer("OpenDir", g).f["error"] = 0
             /\ Granted(Answer("OpenDir", g)) = {<<"dir", h>>}
  <2>1. Answer("OpenDir", g).f["dp"] = h /\ Answer("OpenDir", g).f["error"] = 0
    BY <1>2, HandleAnswerFields, AnswerShape, Zeros
  <2> QED
    BY <2>1, AnswerShape DEF Granted
<1>3. ASSUME NEW g, DOMAIN g = {"handle"}, g["handle"] = h
      PROVE  Answer("FsImageOpen", g).f["handle"] = h
  BY <1>3, HandleAnswerFields, AnswerShape
<1> QED
  BY <1>1, <1>2, <1>3, OnlyFields

LEMMA NothingGranted ==
  ASSUME NEW packet, packet.sub \notin {"Open", "OpenDir"}
  PROVE  Granted(packet) = {}
BY DEF Granted

(* Answers of the other kinds are in order whatever is in them.             *)
LEMMA PlainAnswerOK ==
  ASSUME NEW sub \in DOMAIN Answers, sub \notin Opening, NEW packet,
         packet.cmd = "subsys", packet.sub = sub
  PROVE  PacketOK(packet) /\ Granted(packet) = {}
<1>1. packet.cmd # "nvRead"
  OBVIOUS
<1> QED
  BY <1>1, NothingGranted DEF PacketOK, Opening

LEMMA QcdmPacketOK ==
  ASSUME NEW packet, packet.sub = "none", packet.cmd # "nvRead"
  PROVE  PacketOK(packet) /\ Granted(packet) = {}
BY NothingGranted DEF PacketOK

LEMMA OddPackets ==
  /\ PacketOK(LogPacket) /\ Granted(LogPacket) = {} /\ LogPacket.sub = "none"
  /\ PacketOK(BadCommand) /\ Granted(BadCommand) = {} /\ BadCommand.sub = "none"
  /\ PacketOK(Remainder) /\ Granted(Remainder) = {} /\ Remainder.sub = "none"
  /\ PacketOK(Silence) /\ Granted(Silence) = {} /\ Silence.sub = "none"
BY QcdmPacketOK DEF LogPacket, BadCommand, Remainder, Silence, QcdmAnswer

----------------------------------------------------------------------------
(* Requests.                                                                *)

EfsReq(req) == req.cmd = "subsys" /\ req.sub \in DOMAIN Answers
QcdmReq(req) ==
  /\ req.cmd # "subsys"
  /\ req.sub = "none"
  /\ req.cmd \in {"nvRead", "nvWrite"} => req.item \in Items
  /\ req.cmd = "nvWrite" => req.value \in Values
Req(req) == EfsReq(req) \/ QcdmReq(req)

LEMMA RefusalOK ==
  ASSUME NEW req, Req(req)
  PROVE  /\ PacketOK(Refusal(req))
         /\ Granted(Refusal(req)) = {}
         /\ Refusal(req).sub = req.sub
         /\ req.sub \in Opening => Refusal(req).f["error"] = 1
<1>1. CASE QcdmReq(req)
  <2>1. Refusal(req) = QcdmAnswer("bad", <<>>)
    BY <1>1 DEF QcdmReq, Refusal
  <2>2. Refusal(req).sub = "none" /\ Refusal(req).cmd = "bad"
    BY <2>1 DEF QcdmAnswer
  <2> QED
    BY <1>1, <2>2, QcdmPacketOK DEF QcdmReq, Opening
<1>2. CASE EfsReq(req) /\ req.sub \notin Opening
  BY <1>2, PlainAnswerOK, AnswerShape DEF EfsReq, Refusal
<1>3. CASE EfsReq(req) /\ req.sub \in Opening
  <2>1. Refusal(req) = Answer(req.sub, [error |-> 1])
    BY <1>3 DEF EfsReq, Refusal
  <2>2. req.sub = "Open" \/ req.sub = "OpenDir" \/ req.sub = "FsImageOpen"
    BY <1>3 DEF Opening
  <2>3. Refusal(req).f["error"] = 1
    BY <2>1, <2>2, HandleAnswerFields, AnswerShape
  <2>4. Refusal(req).sub = req.sub /\ Refusal(req).cmd = "subsys"
    BY <2>1, AnswerShape
  <2>5. req.sub = "FsImageOpen" => Refusal(req).f["handle"] = 0
    BY <2>1, HandleAnswerFields, AnswerShape, Zeros
  <2>6. Granted(Refusal(req)) = {}
    BY <2>3, <2>4 DEF Granted
  <2>7. PacketOK(Refusal(req))
    BY <1>3, <2>1, <2>2, <2>4, <2>5, HandleAnswerFields, PhoneAssumption
       DEF PacketOK, Got, EfsReq
  <2> QED
    BY <2>3, <2>4, <2>6, <2>7
<1> QED
  BY <1>1, <1>2, <1>3 DEF Req

----------------------------------------------------------------------------
(* What a request does to the phone.                                        *)

Opened(p, q, x, path) ==
  /\ x \notin DOMAIN p.open
  /\ DOMAIN q.open = DOMAIN p.open \cup {x}
  /\ q.open[x] = path
  /\ \A y \in DOMAIN p.open : q.open[y] = p.open[y]
Closed(p, q, x) ==
  /\ x \in DOMAIN p.open
  /\ DOMAIN q.open = DOMAIN p.open \ {x}
  /\ \A y \in DOMAIN p.open \ {x} : q.open[y] = p.open[y]
(* The handles and the mode of the phone are as they were. *)
Alike(p, q) == PhoneOK(q) /\ q.open = p.open /\ q.mode = p.mode

LEMMA PutOK ==
  ASSUME NEW p, PhoneOK(p), NEW path, NEW node, node.type \in NodeTypes
  PROVE  Alike(p, Put(p, path, node))
<1> DEFINE q == Put(p, path, node)
<1>1. q = [tree |-> Only(path, node) ++ p.tree, open |-> p.open, nv |-> p.nv,
           mode |-> p.mode]
  BY DEF Put, PhoneOK
<1>2. \A r \in DOMAIN q.tree : q.tree[r].type \in NodeTypes
  BY <1>1 DEF ++, Only, PhoneOK
<1> HIDE DEF q
<1>3. Alike(p, q)
  BY <1>1, <1>2 DEF Alike, PhoneOK
<1> QED
  BY <1>3 DEF q

LEMMA DroppingOK ==
  ASSUME NEW p, PhoneOK(p), NEW path
  PROVE  Alike(p, Dropping(p, path))
<1> DEFINE q == Dropping(p, path)
<1>1. q = [tree |-> [r \in DOMAIN p.tree \ {path} |-> p.tree[r]],
           open |-> p.open, nv |-> p.nv, mode |-> p.mode]
  BY DEF Dropping, PhoneOK
<1> HIDE DEF q
<1>2. Alike(p, q)
  BY <1>1 DEF Alike, PhoneOK
<1> QED
  BY <1>2 DEF q

(* What Opens comes to. *)
OpensTo(p, req, kind, field, s) ==
  LET h == Free(p, kind)
  IN  \/ s = Refused(p, req)
      \/ /\ ~(h > MaxOpen)
         /\ s = Done([p EXCEPT !.open = Only(<<kind, h>>, Trimmed(req.path)) ++ @],
                     Answer(req.sub, Only(field, h)))

LEMMA OpensOK ==
  ASSUME NEW p, PhoneOK(p), NEW req, NEW kind \in Kinds, NEW field, NEW s,
         OpensTo(p, req, kind, field, s)
  PROVE  /\ PhoneOK(s.phone)
         /\ s.phone.mode = p.mode
         /\ \/ s.phone = p /\ s.answer = Refusal(req)
            \/ \E h \in 0 .. MaxOpen :
                 /\ kind # "file" => h # 0
                 /\ Opened(p, s.phone, <<kind, h>>, Trimmed(req.path))
                 /\ s.answer = Answer(req.sub, Only(field, h))
<1> DEFINE h == Free(p, kind)
           q == [p EXCEPT !.open = Only(<<kind, h>>, Trimmed(req.path)) ++ @]
<1>1. CASE s = Refused(p, req)
  BY <1>1 DEF Refused, Done
<1>2. CASE ~(h > MaxOpen) /\ s = Done(q, Answer(req.sub, Only(field, h)))
  <2>1. /\ h \in 0 .. MaxOpen /\ <<kind, h>> \notin DOMAIN p.open
        /\ kind # "file" => h # 0
    BY <1>2, FreeIsFree, PhoneAssumption
  <2>2. s.phone = q /\ s.answer = Answer(req.sub, Only(field, h))
    BY <1>2 DEF Done
  <2> HIDE DEF h
  <2>3. q = [tree |-> p.tree,
             open |-> Only(<<kind, h>>, Trimmed(req.path)) ++ p.open,
             nv |-> p.nv, mode |-> p.mode]
    BY DEF PhoneOK
  <2>4. Opened(p, q, <<kind, h>>, Trimmed(req.path))
    BY <2>1, <2>3 DEF Opened, ++, Only
  <2> HIDE DEF q
  <2>5. PhoneOK(q)
    BY <2>1, <2>3, <2>4 DEF PhoneOK, Opened
  <2> QED
    BY <2>1, <2>2, <2>3, <2>4, <2>5
<1> QED
  BY <1>1, <1>2 DEF OpensTo

LEMMA ClosesOK ==
  ASSUME NEW p, PhoneOK(p), NEW req, NEW kind
  PROVE  LET s == Closes(p, req, kind)
             x == <<kind, req.h>>
         IN  /\ PhoneOK(s.phone)
             /\ s.phone.mode = p.mode
             /\ IF x \in DOMAIN p.open
                THEN Closed(p, s.phone, x) /\ s.answer = Answer(req.sub, <<>>)
                ELSE s.phone = p /\ s.answer = Refusal(req)
<1> DEFINE x == <<kind, req.h>>
           s == Closes(p, req, kind)
<1>1. CASE x \notin DOMAIN p.open
  BY <1>1 DEF Closes, Doing, Refused, Done
<1>2. CASE x \in DOMAIN p.open
  <2> DEFINE q == [p EXCEPT !.open = [y \in DOMAIN p.open \ {x} |-> p.open[y]]]
  <2>1. s.phone = q /\ s.answer = Answer(req.sub, <<>>)
    BY <1>2 DEF Closes, Doing, Done
  <2> HIDE DEF x
  <2>2. q = [tree |-> p.tree,
             open |-> [y \in DOMAIN p.open \ {x} |-> p.open[y]],
             nv |-> p.nv, mode |-> p.mode]
    BY DEF PhoneOK
  <2>3. Closed(p, q, x)
    BY <1>2, <2>2 DEF Closed
  <2> HIDE DEF q
  <2>4. PhoneOK(q)
    BY <2>2, <2>3 DEF PhoneOK, Closed
  <2> QED
    BY <1>2, <2>1, <2>2, <2>3, <2>4 DEF x
<1> QED
  BY <1>1, <1>2

(* Requests that neither open nor close.                                    *)
LEMMA ServePlain ==
  ASSUME NEW p, PhoneOK(p), NEW req, EfsReq(req), req.sub \notin Handling
  PROVE  LET s == ServesEfs(p, req)
         IN  /\ Alike(p, s.phone)
             /\ s.answer.cmd = "subsys"
             /\ s.answer.sub = req.sub
<1> DEFINE s == ServesEfs(p, req)
           Plain(t) == /\ Alike(p, t.phone)
                       /\ t.answer.cmd = "subsys"
                       /\ t.answer.sub = req.sub
<1>0. Alike(p, p)
  BY DEF Alike
<1>1. Plain(Refused(p, req))
  BY <1>0, AnswerShape DEF Refused, Refusal, Done, EfsReq
<1>2. ASSUME NEW given
      PROVE  Plain(Done(p, Answer(req.sub, given)))
  BY <1>0, AnswerShape DEF Done
<1>3. ASSUME NEW q, Alike(p, q), NEW given
      PROVE  Plain(Done(q, Answer(req.sub, given)))
  BY <1>3, AnswerShape DEF Done
<1>4. ASSUME NEW q, Alike(p, q), NEW allowed
      PROVE  Plain(Doing(p, req, allowed, q))
  BY <1>1, <1>3, <1>4 DEF Doing
<1>5. CASE req.sub = "Read"
  <2>1. s = Reads(p, req)
    BY <1>5 DEF ServesEfs
  <2> QED
    BY <1>1, <1>2, <1>5, <2>1 DEF Reads
<1>6. CASE req.sub = "Write"
  <2>1. s = Writes(p, req)
    BY <1>6 DEF ServesEfs
  <2>2. \A path, data : Alike(p, Put(p, path, File(data)))
    BY PutOK DEF File, NodeTypes
  <2> QED
    BY <1>1, <1>3, <1>6, <2>1, <2>2 DEF Writes
<1>7. CASE req.sub = "Fstat"
  BY <1>1, <1>2, <1>7 DEF ServesEfs
<1>8. CASE req.sub = "ReadDir"
  <2>1. s = ListsEntry(p, req)
    BY <1>8 DEF ServesEfs
  <2> QED
    BY <1>1, <1>2, <1>8, <2>1 DEF ListsEntry
<1>9. CASE req.sub \in {"Unlink", "Rmdir"}
  <2>1. \A path : Alike(p, Dropping(p, path))
    BY DroppingOK
  <2> QED
    BY <1>4, <1>9, <2>1 DEF ServesEfs
<1>10. CASE req.sub = "Mkdir"
  <2>1. \A path : Alike(p, Put(p, path, Dir))
    BY PutOK DEF Dir, NodeTypes
  <2> QED
    BY <1>4, <1>10, <2>1 DEF ServesEfs
<1>11. CASE req.sub = "Symlink"
  <2>1. \A path, data : Alike(p, Put(p, path, [type |-> "link", data |-> data]))
    BY PutOK DEF NodeTypes
  <2> QED
    BY <1>4, <1>11, <2>1 DEF ServesEfs
<1>12. CASE req.sub = "ReadLink"
  BY <1>1, <1>2, <1>12 DEF ServesEfs
<1>13. CASE req.sub = "Ftruncate"
  <2>1. \A path, data : Alike(p, Put(p, path, File(data)))
    BY PutOK DEF File, NodeTypes
  <2> QED
    BY <1>1, <1>3, <1>13, <2>1 DEF ServesEfs
<1>14. CASE req.sub \in {"Stat", "Lstat", "StatFS", "StatVFS_V2", "Chmod"}
  BY <1>0, <1>4, <1>14 DEF ServesEfs
<1>15. CASE req.sub \in {"Hello", "Query", "DevInfo", "FactoryImageStart"}
  BY <1>2, <1>15 DEF ServesEfs
<1>16. CASE req.sub \notin {"Read", "Write", "Fstat", "ReadDir", "Unlink", "Rmdir",
                            "Mkdir", "Symlink", "ReadLink", "Ftruncate", "Stat",
                            "Lstat", "StatFS", "StatVFS_V2", "Chmod", "Hello",
                            "Query", "DevInfo", "FactoryImageStart"}
  <2>1. s = Refused(p, req)
    BY <1>16 DEF ServesEfs, Handling, Opening
  <2> QED
    BY <1>1, <2>1
<1> HIDE DEF Plain
<1> QED
  BY <1>5, <1>6, <1>7, <1>8, <1>9, <1>10, <1>11, <1>12, <1>13, <1>14, <1>15,
     <1>16 DEF Plain

(* Requests that open a file or a directory, and those that close one.      *)
HandleKind(sub) ==
  IF sub \in {"Open", "Close"} THEN "file"
  ELSE IF sub = "FsImageClose" THEN "image" ELSE "dir"
ClosedBy(req) == <<HandleKind(req.sub), req.h>>
HandleField(sub) == IF sub = "Open" THEN "fp" ELSE "dp"

LEMMA ServeOpening ==
  ASSUME NEW p, PhoneOK(p), NEW req, EfsReq(req), req.sub \in {"Open", "OpenDir"}
  PROVE  LET s == ServesEfs(p, req)
         IN  /\ PhoneOK(s.phone)
             /\ s.phone.mode = p.mode
             /\ \/ s.phone.open = p.open /\ s.answer = Refusal(req)
                \/ \E h \in 0 .. MaxOpen :
                     /\ HandleKind(req.sub) # "file" => h # 0
                     /\ Opened(p, s.phone, <<HandleKind(req.sub), h>>, Trimmed(req.path))
                     /\ s.answer = Answer(req.sub, Only(HandleField(req.sub), h))
<1> DEFINE s == ServesEfs(p, req)
<1>1. CASE req.sub = "OpenDir"
  <2>1. OpensTo(p, req, "dir", "dp", s)
    BY <1>1 DEF ServesEfs, Opens, OpensTo
  <2> QED
    BY <1>1, <2>1, OpensOK DEF Kinds, HandleKind, HandleField
<1>2. CASE req.sub = "Open"
  <2> DEFINE q == Put(p, Trimmed(req.path), File(NoData))
  <2>1. Alike(p, q)
    BY PutOK DEF File, NodeTypes
  <2>2. s = OpensFile(p, req)
    BY <1>2 DEF ServesEfs
  <2>3. OpensTo(q, req, "file", "fp", s) \/ OpensTo(p, req, "file", "fp", s)
    BY <2>2 DEF OpensFile, Opens, OpensTo
  <2> HIDE DEF q
  <2>4. CASE OpensTo(p, req, "file", "fp", s)
    BY <1>2, <2>4, OpensOK DEF Kinds, HandleKind, HandleField
  <2>5. CASE OpensTo(q, req, "file", "fp", s)
    BY <1>2, <2>1, <2>5, OpensOK
       DEF Kinds, Alike, Opened, HandleKind, HandleField
  <2> QED
    BY <2>3, <2>4, <2>5
<1> QED
  BY <1>1, <1>2

LEMMA ServeImageOpen ==
  ASSUME NEW p, PhoneOK(p), NEW req, EfsReq(req), req.sub = "FsImageOpen"
  PROVE  LET s == ServesEfs(p, req)
         IN  /\ PhoneOK(s.phone)
             /\ s.phone.mode = p.mode
             /\ \/ s.phone = p /\ s.answer = Refusal(req)
                \/ \E h \in 0 .. MaxOpen :
                     /\ Opened(p, s.phone, <<"image", h>>, Trimmed(req.path))
                     /\ s.answer = Answer("FsImageOpen", Only("handle", h))
<1>1. OpensTo(p, req, "image", "handle", ServesEfs(p, req))
  BY DEF ServesEfs, Opens, OpensTo
<1> QED
  BY <1>1, OpensOK DEF Kinds

LEMMA ServeClosing ==
  ASSUME NEW p, PhoneOK(p), NEW req, EfsReq(req),
         req.sub \in {"Close", "CloseDir", "FsImageClose"}
  PROVE  LET s == ServesEfs(p, req)
         IN  /\ PhoneOK(s.phone)
             /\ s.phone.mode = p.mode
             /\ s.answer.cmd = "subsys"
             /\ s.answer.sub = req.sub
             /\ \/ Closed(p, s.phone, ClosedBy(req))
                \/ /\ ClosedBy(req) \notin DOMAIN p.open
                   /\ s.phone = p
                   /\ s.answer = Refusal(req)
<1> DEFINE kind == HandleKind(req.sub)
           s == ServesEfs(p, req)
<1>1. s = Closes(p, req, kind)
  BY DEF ServesEfs, HandleKind
<1>2. ClosedBy(req) = <<kind, req.h>>
  BY DEF ClosedBy
<1> HIDE DEF kind
<1>3. /\ PhoneOK(s.phone)
      /\ s.phone.mode = p.mode
      /\ IF <<kind, req.h>> \in DOMAIN p.open
         THEN Closed(p, s.phone, <<kind, req.h>>) /\ s.answer = Answer(req.sub, <<>>)
         ELSE s.phone = p /\ s.answer = Refusal(req)
  <2> DEFINE t == Closes(p, req, kind)
  <2>1. /\ PhoneOK(t.phone)
        /\ t.phone.mode = p.mode
        /\ IF <<kind, req.h>> \in DOMAIN p.open
           THEN Closed(p, t.phone, <<kind, req.h>>) /\ t.answer = Answer(req.sub, <<>>)
           ELSE t.phone = p /\ t.answer = Refusal(req)
    BY ClosesOK
  <2> HIDE DEF t
  <2>2. s = t
    BY <1>1 DEF t
  <2> QED
    BY <2>1, <2>2
<1>4. s.answer.cmd = "subsys" /\ s.answer.sub = req.sub
  BY <1>3, AnswerShape DEF Refusal, EfsReq
<1> QED
  BY <1>2, <1>3, <1>4

(* All requests.                                                            *)
Closing == {"Close", "CloseDir"}
SameFiles(p, q) ==
  /\ Counted(q.open) = Counted(p.open)
  /\ \A x \in Counted(p.open) : q.open[x] = p.open[x]

LEMMA Serves ==
  ASSUME NEW p, PhoneOK(p), NEW req, Req(req)
  PROVE  LET s == Serve(p, req)
         IN  /\ PhoneOK(s.phone)
             /\ PacketOK(s.answer)
             /\ s.answer.sub = req.sub
             /\ EfsReq(req) => s.phone.mode = p.mode /\ s.answer.cmd = "subsys"
<1> DEFINE s == Serve(p, req)
<1>1. CASE QcdmReq(req)
  <2> DEFINE q == [p EXCEPT !.nv[req.item] = req.value]
             g == [p EXCEPT !.mode = "gone"]
  <2>0. s = ServesQcdm(p, req) /\ req.cmd # "subsys" /\ req.sub = "none"
    BY <1>1 DEF Serve, QcdmReq
  <2>1. \/ /\ req.cmd = "nvRead"
           /\ s = Done(p, QcdmAnswer("nvRead", [item |-> req.item,
                                                value |-> p.nv[req.item]]))
        \/ /\ req.cmd = "nvWrite"
           /\ s = Done(q, QcdmAnswer("nvWrite", [item |-> req.item]))
        \/ /\ req.cmd # "nvRead"
           /\ s = Done(g, QcdmAnswer(req.cmd, <<>>))
        \/ /\ req.cmd # "nvRead"
           /\ s = Done(p, QcdmAnswer(req.cmd, [status |-> "yes"]))
    BY <2>0 DEF ServesQcdm
  <2>2. ASSUME NEW data, req.cmd # "nvRead", s.answer = QcdmAnswer(req.cmd, data)
        PROVE  PacketOK(s.answer) /\ s.answer.sub = req.sub
    <3>1. s.answer.sub = "none" /\ s.answer.cmd # "nvRead"
      BY <2>2 DEF QcdmAnswer
    <3> QED
      BY <2>0, <3>1, QcdmPacketOK
  <2>3. CASE /\ req.cmd = "nvRead"
             /\ s = Done(p, QcdmAnswer("nvRead", [item |-> req.item,
                                                  value |-> p.nv[req.item]]))
    <3>1. s.phone = p /\ s.answer.cmd = "nvRead" /\ s.answer.sub = "none"
          /\ s.answer.f = [item |-> req.item, value |-> p.nv[req.item]]
      BY <2>3 DEF Done, QcdmAnswer
    <3>2. p.nv[req.item] \in NvValues
      BY <1>1, <2>3 DEF QcdmReq, PhoneOK
    <3> QED
      BY <1>1, <2>0, <3>1, <3>2 DEF PacketOK, EfsReq
  <2>4. CASE /\ req.cmd = "nvWrite"
             /\ s = Done(q, QcdmAnswer("nvWrite", [item |-> req.item]))
    <3>1. s.phone = q /\ s.answer = QcdmAnswer(req.cmd, [item |-> req.item])
      BY <2>4 DEF Done
    <3>2. q = [tree |-> p.tree, open |-> p.open,
               nv |-> [p.nv EXCEPT ![req.item] = req.value], mode |-> p.mode]
      BY DEF PhoneOK
    <3>3. PhoneOK(q)
      BY <1>1, <2>4, <3>2 DEF PhoneOK, QcdmReq, NvValues
    <3> QED
      BY <2>0, <2>2, <2>4, <3>1, <3>3 DEF EfsReq
  <2>5. CASE /\ req.cmd # "nvRead"
             /\ s = Done(g, QcdmAnswer(req.cmd, <<>>))
    <3>1. s.phone = g /\ s.answer = QcdmAnswer(req.cmd, <<>>)
      BY <2>5 DEF Done
    <3>2. g = [tree |-> p.tree, open |-> p.open, nv |-> p.nv, mode |-> "gone"]
      BY DEF PhoneOK
    <3>3. PhoneOK(g)
      BY <3>2 DEF PhoneOK
    <3> QED
      BY <2>0, <2>2, <2>5, <3>1, <3>3 DEF EfsReq
  <2>6. CASE /\ req.cmd # "nvRead"
             /\ s = Done(p, QcdmAnswer(req.cmd, [status |-> "yes"]))
    <3>1. s.phone = p /\ s.answer = QcdmAnswer(req.cmd, [status |-> "yes"])
      BY <2>6 DEF Done
    <3> QED
      BY <2>0, <2>2, <2>6, <3>1 DEF EfsReq
  <2> QED
    BY <2>1, <2>3, <2>4, <2>5, <2>6
<1>2. CASE EfsReq(req)
  <2>0. s = ServesEfs(p, req) /\ req.sub # "none" /\ req.sub \in DOMAIN Answers
    BY <1>2, AnswerTable DEF Serve, EfsReq
  <2>1. CASE req.sub \notin Handling
    <3>1. Alike(p, s.phone) /\ s.answer.cmd = "subsys" /\ s.answer.sub = req.sub
      BY <1>2, <2>0, <2>1, ServePlain
    <3>2. PacketOK(s.answer)
      BY <2>0, <2>1, <3>1, PlainAnswerOK DEF Handling
    <3> QED
      BY <3>1, <3>2 DEF Alike
  <2>2. CASE req.sub \in {"Close", "CloseDir", "FsImageClose"}
    <3>1. /\ PhoneOK(s.phone) /\ s.phone.mode = p.mode
          /\ s.answer.cmd = "subsys" /\ s.answer.sub = req.sub
      <4> DEFINE t == ServesEfs(p, req)
      <4>1. /\ PhoneOK(t.phone) /\ t.phone.mode = p.mode
            /\ t.answer.cmd = "subsys" /\ t.answer.sub = req.sub
        BY <1>2, <2>2, ServeClosing
      <4> HIDE DEF t
      <4>2. s = t
        BY <2>0 DEF t
      <4> QED
        BY <4>1, <4>2
    <3>2. PacketOK(s.answer)
      BY <2>0, <2>2, <3>1, PlainAnswerOK DEF Opening
    <3> QED
      BY <3>1, <3>2
  <2>3. CASE req.sub \in {"Open", "OpenDir"}
    <3>1. /\ PhoneOK(s.phone) /\ s.phone.mode = p.mode
          /\ \/ s.answer = Refusal(req)
             \/ \E h : s.answer = Answer(req.sub, Only(HandleField(req.sub), h))
      <4> DEFINE t == ServesEfs(p, req)
      <4>1. /\ PhoneOK(t.phone) /\ t.phone.mode = p.mode
            /\ \/ t.answer = Refusal(req)
               \/ \E h : t.answer = Answer(req.sub, Only(HandleField(req.sub), h))
        BY <1>2, <2>3, ServeOpening
      <4> HIDE DEF t
      <4>2. s = t
        BY <2>0 DEF t
      <4> QED
        BY <4>1, <4>2
    <3>2. ASSUME NEW given, s.answer = Answer(req.sub, given)
          PROVE  PacketOK(s.answer) /\ s.answer.cmd = "subsys"
                 /\ s.answer.sub = req.sub
      BY <2>0, <2>3, <3>2, AnswerShape, HandleAnswerFields DEF PacketOK
    <3>3. Refusal(req) = Answer(req.sub, [error |-> 1])
      BY <1>2 DEF Refusal, EfsReq
    <3> QED
      BY <3>1, <3>2, <3>3
  <2>4. CASE req.sub = "FsImageOpen"
    <3>1. /\ PhoneOK(s.phone) /\ s.phone.mode = p.mode
          /\ \/ s.answer = Refusal(req)
             \/ \E h \in 0 .. MaxOpen : s.answer = Answer("FsImageOpen", Only("handle", h))
      <4> DEFINE t == ServesEfs(p, req)
      <4>1. /\ PhoneOK(t.phone) /\ t.phone.mode = p.mode
            /\ \/ t.answer = Refusal(req)
               \/ \E h \in 0 .. MaxOpen : t.answer = Answer("FsImageOpen", Only("handle", h))
        BY <1>2, <2>4, ServeImageOpen
      <4> HIDE DEF t
      <4>2. s = t
        BY <2>0 DEF t
      <4> QED
        BY <4>1, <4>2
    <3>2. ASSUME NEW h \in 0 .. MaxOpen, s.answer = Answer("FsImageOpen", Only("handle", h))
          PROVE  PacketOK(s.answer) /\ s.answer.cmd = "subsys"
                 /\ s.answer.sub = req.sub
      <4>1. s.answer.f["handle"] = h
        BY <3>2, GrantingAnswers
      <4>2. s.answer.cmd = "subsys" /\ s.answer.sub = "FsImageOpen"
        BY <3>2, AnswerShape
      <4>3. Got(s.answer, "handle") = h
        BY <3>2, <4>1, HandleAnswerFields DEF Got
      <4> QED
        BY <2>0, <2>4, <4>2, <4>3 DEF PacketOK
    <3>3. PacketOK(Refusal(req)) /\ Refusal(req).cmd = "subsys"
          /\ Refusal(req).sub = req.sub
      BY <1>2, RefusalOK, AnswerShape DEF Req, Refusal, EfsReq
    <3> QED
      BY <3>1, <3>2, <3>3
  <2> QED
    BY <2>1, <2>2, <2>3, <2>4 DEF Handling, Opening
<1> QED
  BY <1>1, <1>2 DEF Req

(* What becomes of the handles of files and directories.                    *)
Kept(p, q, handles) == \A x \in handles : q.open[x] = p.open[x]

LEMMA ServesKeeping ==
  ASSUME NEW p, PhoneOK(p), NEW req, Req(req),
         req.sub \notin Closing \cup {"Open", "OpenDir"}
  PROVE  LET s == Serve(p, req)
         IN  SameFiles(p, s.phone) /\ Granted(s.answer) = {}
<1> DEFINE s == Serve(p, req)
<1>0. s.answer.sub = req.sub
  BY Serves
<1>1. Granted(s.answer) = {}
  BY <1>0, NothingGranted
<1>2. CASE QcdmReq(req)
  <2>1. s = ServesQcdm(p, req)
    BY <1>2 DEF Serve, QcdmReq
  <2>2. s.phone.open = p.open
    BY <2>1 DEF ServesQcdm, Done, PhoneOK
  <2> QED
    BY <1>1, <2>2 DEF SameFiles
<1>3. CASE EfsReq(req)
  <2> DEFINE t == ServesEfs(p, req)
  <2>1. s = t
    BY <1>3 DEF Serve, EfsReq
  <2>2. CASE req.sub \notin Handling
    <3>1. Alike(p, t.phone)
      BY <1>3, <2>2, ServePlain
    <3> QED
      BY <1>1, <2>1, <3>1 DEF Alike, SameFiles
  <2>3. CASE req.sub = "FsImageOpen"
    <3>1. \/ t.phone = p
          \/ \E h : Opened(p, t.phone, <<"image", h>>, Trimmed(req.path))
      BY <1>3, <2>3, ServeImageOpen
    <3> HIDE DEF t
    <3>2. ASSUME NEW h, Opened(p, t.phone, <<"image", h>>, Trimmed(req.path))
          PROVE  SameFiles(p, t.phone)
      <4>1. DOMAIN t.phone.open = DOMAIN p.open \cup {<<"image", h>>}
            /\ \A y \in DOMAIN p.open : t.phone.open[y] = p.open[y]
        BY <3>2 DEF Opened
      <4>2. \A x \in {<<"image", h>>} : x[1] = "image"
        OBVIOUS
      <4>3. Counted(t.phone.open) = Counted(p.open)
        BY <4>1, <4>2 DEF Counted
      <4> QED
        BY <4>1, <4>3 DEF SameFiles, Counted
    <3>3. t.phone = p => SameFiles(p, t.phone)
      BY DEF SameFiles
    <3> QED
      BY <1>1, <2>1, <3>1, <3>2, <3>3
  <2>4. CASE req.sub = "FsImageClose"
    <3>1. Closed(p, t.phone, ClosedBy(req)) \/ t.phone = p
      BY <1>3, <2>4, ServeClosing
    <3>2. ClosedBy(req) = <<"image", req.h>>
      BY <2>4 DEF ClosedBy, HandleKind
    <3> HIDE DEF t
    <3>3. SameFiles(p, t.phone)
      BY <3>1, <3>2 DEF Closed, SameFiles, Counted
    <3> QED
      BY <1>1, <2>1, <3>3
  <2> QED
    BY <2>2, <2>3, <2>4 DEF Handling, Opening, Closing
<1> QED
  BY <1>2, <1>3 DEF Req

LEMMA ServesOpening ==
  ASSUME NEW p, PhoneOK(p), NEW req, EfsReq(req), req.sub \in {"Open", "OpenDir"}
  PROVE  LET s == Serve(p, req)
         IN  \/ SameFiles(p, s.phone) /\ s.answer = Refusal(req)
             \/ \E h \in 0 .. MaxOpen :
                  /\ <<HandleKind(req.sub), h>> \notin Counted(p.open)
                  /\ Counted(s.phone.open) =
                       Counted(p.open) \cup {<<HandleKind(req.sub), h>>}
                  /\ s.phone.open[<<HandleKind(req.sub), h>>] = Trimmed(req.path)
                  /\ Kept(p, s.phone, Counted(p.open))
                  /\ Granted(s.answer) = {<<HandleKind(req.sub), h>>}
<1> DEFINE t == ServesEfs(p, req)
<1>1. Serve(p, req) = t
  BY DEF Serve, EfsReq
<1>2. \/ t.phone.open = p.open /\ t.answer = Refusal(req)
      \/ \E h \in 0 .. MaxOpen :
           /\ Opened(p, t.phone, <<HandleKind(req.sub), h>>, Trimmed(req.path))
           /\ t.answer = Answer(req.sub, Only(HandleField(req.sub), h))
  BY ServeOpening
<1> HIDE DEF t
<1>3. CASE t.phone.open = p.open /\ t.answer = Refusal(req)
  BY <1>1, <1>3 DEF SameFiles
<1>4. ASSUME NEW h \in 0 .. MaxOpen,
             Opened(p, t.phone, <<HandleKind(req.sub), h>>, Trimmed(req.path)),
             t.answer = Answer(req.sub, Only(HandleField(req.sub), h))
      PROVE  /\ <<HandleKind(req.sub), h>> \notin Counted(p.open)
             /\ Counted(t.phone.open) =
                  Counted(p.open) \cup {<<HandleKind(req.sub), h>>}
             /\ t.phone.open[<<HandleKind(req.sub), h>>] = Trimmed(req.path)
             /\ Kept(p, t.phone, Counted(p.open))
             /\ Granted(t.answer) = {<<HandleKind(req.sub), h>>}
  <2>1. HandleKind(req.sub) # "image"
    BY DEF HandleKind
  <2>2. Granted(t.answer) = {<<HandleKind(req.sub), h>>}
    <3>1. CASE req.sub = "Open"
      BY <1>4, <3>1, GrantingAnswers DEF HandleKind, HandleField
    <3>2. CASE req.sub = "OpenDir"
      BY <1>4, <3>2, GrantingAnswers DEF HandleKind, HandleField
    <3> QED
      BY <3>1, <3>2
  <2> QED
    BY <1>4, <2>1, <2>2 DEF Opened, Counted, Kept
<1> QED
  BY <1>1, <1>2, <1>3, <1>4

LEMMA ServesClosing ==
  ASSUME NEW p, PhoneOK(p), NEW req, EfsReq(req), req.sub \in Closing
  PROVE  LET s == Serve(p, req)
         IN  /\ Granted(s.answer) = {}
             /\ \/ /\ ClosedBy(req) \in Counted(p.open)
                   /\ Counted(s.phone.open) = Counted(p.open) \ {ClosedBy(req)}
                   /\ Kept(p, s.phone, Counted(s.phone.open))
                \/ /\ ClosedBy(req) \notin Counted(p.open)
                   /\ s.phone = p
                   /\ s.answer = Refusal(req)
<1> DEFINE t == ServesEfs(p, req)
<1>1. Serve(p, req) = t
  BY DEF Serve, EfsReq
<1>2. /\ t.answer.sub = req.sub
      /\ \/ Closed(p, t.phone, ClosedBy(req))
         \/ /\ ClosedBy(req) \notin DOMAIN p.open
            /\ t.phone = p
            /\ t.answer = Refusal(req)
  BY ServeClosing DEF Closing
<1> HIDE DEF t
<1>3. Granted(t.answer) = {}
  BY <1>2, NothingGranted DEF Closing
<1>4. ClosedBy(req)[1] # "image"
  BY DEF ClosedBy, HandleKind, Closing
<1> QED
  BY <1>1, <1>2, <1>3, <1>4 DEF Closed, Counted, Kept

----------------------------------------------------------------------------
(* Packets on the line.                                                     *)

LEMMA TypedByRange ==
  ASSUME NEW S, NEW q \in Seq(S)
  PROVE  q \in Seq(Range(q))
<1>1. DOMAIN q = 1 .. Len(q) /\ Len(q) \in Nat /\ q = [i \in 1 .. Len(q) |-> q[i]]
  OBVIOUS
<1>2. \A i \in 1 .. Len(q) : q[i] \in Range(q)
  BY <1>1 DEF Range
<1> QED
  BY <1>1, <1>2

LEMMA QueueEmpty ==
  ASSUME NEW open, NEW owned
  PROVE  QueueOK(<<>>, open, owned)
<1>1. <<>> \in Seq({}) /\ Len(<<>>) = 0
  OBVIOUS
<1> QED
  BY <1>1, TypedByRange DEF QueueOK, Waiting

LEMMA QueueMono ==
  ASSUME NEW q, NEW o, NEW w, QueueOK(q, o, w),
         NEW o2, NEW w2, o \ w \subseteq o2, w2 \cap o \subseteq w
  PROVE  QueueOK(q, o2, w2)
BY DEF QueueOK, Waiting

LEMMA AppendIs ==
  ASSUME NEW q, q \in Seq(Range(q)), NEW packet
  PROVE  LET a == Append(q, packet)
         IN  /\ a \in Seq(Range(a))
             /\ Len(a) = Len(q) + 1
             /\ \A i \in 1 .. Len(q) : a[i] = q[i]
             /\ a[Len(q) + 1] = packet
             /\ a # <<>>
             /\ Head(a) = IF q = <<>> THEN packet ELSE Head(q)
             /\ Tail(a) = IF q = <<>> THEN <<>> ELSE Append(Tail(q), packet)
<1> DEFINE S == Range(q) \cup {packet}
           a == Append(q, packet)
<1>1. q \in Seq(S) /\ packet \in S
  BY SeqMonotonic
<1>2. /\ a \in Seq(S) /\ a # <<>> /\ Len(a) = Len(q) + 1
      /\ \A i \in 1 .. Len(q) : a[i] = q[i]
      /\ a[Len(q) + 1] = packet
  BY <1>1, AppendProperties
<1>3. a \in Seq(Range(a))
  BY <1>2, TypedByRange
<1>4. /\ Head(a) = IF q = <<>> THEN packet ELSE Head(q)
      /\ Tail(a) = IF q = <<>> THEN <<>> ELSE Append(Tail(q), packet)
  BY <1>1, HeadTailAppend
<1> QED
  BY <1>2, <1>3, <1>4

LEMMA QueueGrows ==
  ASSUME NEW q, NEW o, NEW w, QueueOK(q, o, w), NEW packet, PacketOK(packet),
         Granted(packet) \cap (o \cup w) = {}
  PROVE  QueueOK(Append(q, packet), o \cup Granted(packet), w)
<1> DEFINE a == Append(q, packet)
           n == Len(q)
<1>1. /\ a \in Seq(Range(a)) /\ Len(a) = n + 1 /\ n \in Nat
      /\ \A i \in 1 .. n : a[i] = q[i]
      /\ a[n + 1] = packet
  BY AppendIs DEF QueueOK
<1> HIDE DEF a
<1>2. \A i \in 1 .. n + 1 : i \in 1 .. n \/ i = n + 1
  BY <1>1
<1>3. \A i \in 1 .. n + 1 : PacketOK(a[i])
  BY <1>1, <1>2 DEF QueueOK
<1>4. ASSUME NEW i \in 1 .. n + 1, NEW h \in Granted(a[i])
      PROVE  /\ h \in o \cup Granted(packet)
             /\ h \notin w
             /\ \A j \in 1 .. n + 1 : j # i => h \notin Granted(a[j])
  <2>1. CASE i \in 1 .. n
    <3>1. h \in Granted(q[i]) /\ h \in o /\ h \notin w
          /\ \A j \in 1 .. n : j # i => h \notin Granted(q[j])
      BY <1>1, <1>4, <2>1 DEF QueueOK, Waiting
    <3> QED
      BY <1>1, <1>2, <3>1
  <2>2. CASE i = n + 1
    <3>1. h \in Granted(packet) /\ h \notin o /\ h \notin w
      BY <1>1, <1>4, <2>2
    <3>2. \A j \in 1 .. n : h \notin Granted(q[j])
      BY <3>1 DEF QueueOK, Waiting
    <3> QED
      BY <1>1, <1>2, <2>2, <3>1, <3>2
  <2> QED
    BY <1>2, <2>1, <2>2
<1>5. QueueOK(a, o \cup Granted(packet), w)
  BY <1>1, <1>3, <1>4 DEF QueueOK, Waiting
<1> QED
  BY <1>5 DEF a

LEMMA QueueTaken ==
  ASSUME NEW q, NEW o, NEW w, QueueOK(q, o, w), q # <<>>
  PROVE  /\ PacketOK(Head(q))
         /\ Granted(Head(q)) \subseteq o \ w
         /\ QueueOK(Tail(q), o, w \cup Granted(Head(q)))
<1> DEFINE t == Tail(q)
           n == Len(t)
<1>0. q \in Seq(Range(q)) /\ Len(q) \in Nat
  BY DEF QueueOK
<1>1. /\ t \in Seq(Range(q)) /\ Len(t) = Len(q) - 1
      /\ \A i \in 1 .. Len(t) : t[i] = q[i + 1]
  BY <1>0, HeadTailProperties
<1>2. Len(q) >= 1 /\ Head(q) = q[1] /\ n \in Nat
  BY <1>0, <1>1, EmptySeq
<1>3. t \in Seq(Range(t))
  BY <1>1, TypedByRange
<1> HIDE DEF t
<1>4. \A i \in 1 .. n : i + 1 \in 1 .. Len(q) /\ i + 1 # 1
  BY <1>1, <1>2
<1>5. PacketOK(q[1]) /\ \A i \in 1 .. n : PacketOK(t[i])
  BY <1>1, <1>2, <1>4 DEF QueueOK
<1>6. Granted(q[1]) \subseteq o \ w
  BY <1>2 DEF QueueOK, Waiting
<1>7. ASSUME NEW i \in 1 .. n, NEW h \in Granted(t[i])
      PROVE  /\ h \in o
             /\ h \notin w \cup Granted(q[1])
             /\ \A j \in 1 .. n : j # i => h \notin Granted(t[j])
  <2>1. h \in Granted(q[i + 1])
    BY <1>1, <1>7
  <2>2. /\ h \in o /\ h \notin w
        /\ \A j \in 1 .. Len(q) : j # i + 1 => h \notin Granted(q[j])
    BY <1>4, <2>1 DEF QueueOK, Waiting
  <2>3. h \notin Granted(q[1])
    BY <1>2, <1>4, <2>2
  <2>4. ASSUME NEW j \in 1 .. n, j # i
        PROVE  h \notin Granted(t[j])
    BY <1>1, <1>4, <2>2, <2>4
  <2> QED
    BY <2>2, <2>3, <2>4
<1>8. QueueOK(t, o, w \cup Granted(q[1]))
  BY <1>3, <1>5, <1>7 DEF QueueOK, Waiting
<1> QED
  BY <1>2, <1>5, <1>6, <1>8 DEF t

----------------------------------------------------------------------------
(* Exchanges.                                                               *)

(* Answers that bring a handle come whole. *)
OpensComeWhole == Cuttable \cap {"Open", "OpenDir"} = {}

TakenFrom(x, queue) ==
  IF queue = <<>> THEN x.heard = Silence /\ x.rest = <<>>
  ELSE x.heard = Head(queue) /\ x.rest = Tail(queue)

(* The ways an exchange may go. *)
Gone(x) == phone.mode # "diag" /\ x.phone = phone /\ TakenFrom(x, rx)
Answered(req, x) ==
  /\ x.phone = Serve(phone, req).phone
  /\ TakenFrom(x, Append(rx, Serve(phone, req).answer))
Logged(req, x) ==
  /\ x.fault = "log" /\ "log" \in Faults
  /\ x.phone = Serve(phone, req).phone
  /\ TakenFrom(x, rx \o <<LogPacket, Serve(phone, req).answer>>)
Turned(req, x) ==
  /\ x.phone = phone
  /\ x.fault \in {"refuse", "bad"}
  /\ \/ TakenFrom(x, Append(rx, Refusal(req)))
     \/ TakenFrom(x, Append(rx, BadCommand))
Late(req, x) ==
  /\ x.fault = "slow"
  /\ rx = <<>>
  /\ x.phone = Serve(phone, req).phone
  /\ x.heard = Silence
  /\ x.rest = <<Serve(phone, req).answer>>
Shortened(req, x) ==
  /\ x.fault = "cut"
  /\ rx = <<>>
  /\ req.sub \in Cuttable
  /\ x.phone = Serve(phone, req).phone
  /\ x.rest = <<Remainder>>
  /\ x.heard \in CutAnswers(Serve(phone, req).answer)

LEMMA OutcomeTakes ==
  ASSUME NEW fault, NEW after, NEW queue
  PROVE  /\ Outcome(fault, after, queue).phone = after
         /\ TakenFrom(Outcome(fault, after, queue), queue)
         /\ Outcome(fault, after, queue).fault = fault
BY DEF Outcome, TakenFrom

LEMMA ExchangeForms ==
  ASSUME NEW req, NEW x \in Exchanges(req)
  PROVE  /\ \/ Gone(x)
            \/ /\ phone.mode = "diag"
               /\ \/ Answered(req, x)
                  \/ Logged(req, x)
                  \/ Turned(req, x)
                  \/ Late(req, x)
                  \/ Shortened(req, x)
         /\ x.fault = "none" \/ faults # 0
<1> DEFINE s == Serve(phone, req)
<1>1. CASE phone.mode # "diag"
  <2>1. x = Outcome("none", phone, rx)
    BY <1>1 DEF Exchanges
  <2> QED
    BY <1>1, <2>1, OutcomeTakes DEF Gone
<1>2. CASE phone.mode = "diag"
  <2>1. \/ x = Outcome("none", s.phone, Append(rx, s.answer))
        \/ faults # 0 /\ \E name \in Faults : x \in Fault(name, s, req)
    BY <1>2 DEF Exchanges
  <2>2. CASE x = Outcome("none", s.phone, Append(rx, s.answer))
    BY <1>2, <2>2, OutcomeTakes DEF Answered
  <2>3. ASSUME NEW name \in Faults, x \in Fault(name, s, req), faults # 0
        PROVE  Logged(req, x) \/ Turned(req, x) \/ Late(req, x) \/ Shortened(req, x)
    <3> HIDE DEF s
    <3>1. CASE name = "log"
      <4>1. x = Outcome(name, s.phone, rx \o <<LogPacket, s.answer>>)
        BY <2>3, <3>1 DEF Fault
      <4> QED
        BY <2>3, <3>1, <4>1, OutcomeTakes DEF Logged, s
    <3>2. CASE name = "refuse"
      <4> DEFINE q == Append(rx, Refusal(req))
      <4>1. x = Outcome(name, phone, q)
        BY <2>3, <3>2 DEF Fault
      <4> HIDE DEF q
      <4>2. x.phone = phone /\ TakenFrom(x, q) /\ x.fault = name
        BY <4>1, OutcomeTakes
      <4> QED
        BY <3>2, <4>2 DEF Turned, q
    <3>3. CASE name = "bad"
      <4> DEFINE q == Append(rx, BadCommand)
      <4>1. x = Outcome(name, phone, q)
        BY <2>3, <3>3 DEF Fault
      <4> HIDE DEF q
      <4>2. x.phone = phone /\ TakenFrom(x, q) /\ x.fault = name
        BY <4>1, OutcomeTakes
      <4> QED
        BY <3>3, <4>2 DEF Turned, q
    <3>4. CASE name = "slow"
      <4>1. rx = <<>> /\ x = [Outcome(name, s.phone, <<>>) EXCEPT !.rest = <<s.answer>>]
        BY <2>3, <3>4 DEF Fault
      <4> QED
        BY <3>4, <4>1 DEF Outcome, Late, s
    <3>5. CASE name = "cut"
      <4>1. rx = <<>> /\ req.sub \in Cuttable
            /\ x \in {Outcome(name, s.phone, <<part, Remainder>>) :
                        part \in CutAnswers(s.answer)}
        BY <2>3, <3>5 DEF Fault
      <4>2. PICK part \in CutAnswers(s.answer) :
              x = Outcome(name, s.phone, <<part, Remainder>>)
        BY <4>1
      <4>3. /\ x.phone = s.phone /\ x.heard = part /\ x.rest = <<Remainder>>
            /\ x.fault = "cut"
        BY <3>5, <4>2 DEF Outcome
      <4> QED
        BY <4>1, <4>2, <4>3 DEF Shortened, s
    <3> QED
      BY <2>3, <3>1, <3>2, <3>3, <3>4, <3>5, LineAssumption
  <2> QED
    BY <1>2, <2>1, <2>2, <2>3
<1> QED
  BY <1>1, <1>2

(* What is left of an answer that is cut brings no handle.                  *)
LEMMA ImageAnswerWhole ==
  ASSUME NEW p, PhoneOK(p), NEW req, EfsReq(req), req.sub = "FsImageOpen"
  PROVE  LET a == Serve(p, req).answer
         IN  "handle" \in DOMAIN a.f /\ a.f["handle"] \in 0 .. MaxOpen
<1> DEFINE t == ServesEfs(p, req)
           a == Serve(p, req).answer
<1>1. Serve(p, req) = t
  BY DEF Serve, EfsReq
<1>2. \/ t.answer = Refusal(req)
      \/ \E h \in 0 .. MaxOpen : t.answer = Answer("FsImageOpen", Only("handle", h))
  BY ServeImageOpen
<1> HIDE DEF t
<1>3. \E given : t.answer = Answer("FsImageOpen", given)
  BY <1>2 DEF Refusal, EfsReq
<1>4. "handle" \in DOMAIN a.f
  BY <1>1, <1>3, HandleAnswerFields
<1>5. PacketOK(a) /\ a.sub = "FsImageOpen"
  BY Serves DEF Req
<1> QED
  BY <1>4, <1>5 DEF PacketOK, Got

LEMMA CutIsPlain ==
  ASSUME OpensComeWhole, PhoneOK(phone), NEW req, Req(req), req.sub \in Cuttable,
         NEW part \in CutAnswers(Serve(phone, req).answer)
  PROVE  /\ PacketOK(part)
         /\ Granted(part) = {}
         /\ EfsReq(req)
         /\ part.sub = req.sub
<1> DEFINE a == Serve(phone, req).answer
<1>1. /\ PacketOK(a) /\ a.sub = req.sub
  BY Serves
<1>2. a.cmd = "subsys"
  BY DEF CutAnswers
<1>3. PICK n \in 0 .. Len(Answers[a.sub]) - 1 :
        part = [cmd |-> a.cmd, sub |-> a.sub,
                f |-> [y \in Range(SubSeq(Answers[a.sub], 1, n)) |-> a.f[y]]]
  BY <1>2 DEF CutAnswers
<1>4. part.cmd = "subsys" /\ part.sub = req.sub
  BY <1>1, <1>2, <1>3
<1>5. req.sub \notin {"Open", "OpenDir"}
  BY DEF OpensComeWhole
<1>6. Granted(part) = {}
  BY <1>4, <1>5, NothingGranted
<1>7. EfsReq(req)
  <2>1. SUFFICES ASSUME QcdmReq(req)
                 PROVE  FALSE
    BY DEF Req
  <2>2. Serve(phone, req) = ServesQcdm(phone, req) /\ req.cmd # "subsys"
    BY <2>1 DEF Serve, QcdmReq
  <2>3. a.cmd # "subsys"
    BY <2>2 DEF ServesQcdm, Done, QcdmAnswer
  <2> QED
    BY <1>2, <2>3
<1>8. PacketOK(part)
  <2>1. CASE req.sub # "FsImageOpen"
    BY <1>4, <1>5, <1>7, <2>1, PlainAnswerOK DEF EfsReq, Opening
  <2>2. CASE req.sub = "FsImageOpen"
    <3>1. a.f["handle"] \in 0 .. MaxOpen
      BY <1>7, <2>2, ImageAnswerWhole
    <3>2. Got(part, "handle") \in 0 .. MaxOpen
      BY <1>3, <3>1, Zeros, PhoneAssumption DEF Got
    <3> QED
      BY <1>4, <1>7, <2>2, <3>2 DEF PacketOK, EfsReq
  <2> QED
    BY <2>1, <2>2
<1> QED
  BY <1>4, <1>6, <1>7, <1>8

(* Before the answer of a request is on the line.                           *)
LEMMA ServesQueue ==
  ASSUME PhoneOK(phone), NEW req, Req(req), NEW q, NEW w,
         w \subseteq OpenHandles, QueueOK(q, OpenHandles, w),
         req.sub \in Closing => ClosedBy(req) \in w
  PROVE  LET s == Serve(phone, req)
             o == Counted(s.phone.open)
         IN  QueueOK(Append(q, s.answer), o, w)
<1> DEFINE s == Serve(phone, req)
           o == Counted(s.phone.open)
           G == Granted(s.answer)
<1>0. OpenHandles = Counted(phone.open)
  BY DEF OpenHandles, Counted
<1>1. PacketOK(s.answer)
  BY Serves
<1>2. CASE req.sub \notin Closing \cup {"Open", "OpenDir"}
  <2>1. o = OpenHandles /\ G = {}
    BY <1>0, <1>2, ServesKeeping DEF SameFiles
  <2> HIDE DEF o, s
  <2>2. QueueOK(Append(q, s.answer), OpenHandles \cup G, w)
    BY <1>1, <2>1, QueueGrows
  <2> QED
    BY <2>1, <2>2 DEF o, s
<1>3. CASE req.sub \in {"Open", "OpenDir"}
  <2>0. EfsReq(req)
    BY <1>3 DEF Req, QcdmReq
  <2>1. \/ SameFiles(phone, s.phone) /\ s.answer = Refusal(req)
        \/ \E h \in 0 .. MaxOpen :
             /\ <<HandleKind(req.sub), h>> \notin OpenHandles
             /\ o = OpenHandles \cup {<<HandleKind(req.sub), h>>}
             /\ G = {<<HandleKind(req.sub), h>>}
    BY <1>0, <1>3, <2>0, ServesOpening
  <2>2. Granted(Refusal(req)) = {}
    BY RefusalOK
  <2>3. /\ G \cap (OpenHandles \cup w) = {}
        /\ o = OpenHandles \cup G
    BY <1>0, <2>1, <2>2 DEF SameFiles
  <2> HIDE DEF o, s
  <2>4. QueueOK(Append(q, s.answer), OpenHandles \cup G, w)
    BY <1>1, <2>3, QueueGrows
  <2> QED
    BY <2>3, <2>4 DEF o, s
<1>4. CASE req.sub \in Closing
  <2>0. EfsReq(req)
    BY <1>4 DEF Req, QcdmReq, Closing
  <2>1. G = {} /\ o = OpenHandles \ {ClosedBy(req)}
    BY <1>0, <1>4, <2>0, ServesClosing
  <2> HIDE DEF o, s
  <2>2. QueueOK(q, o, w)
    BY <1>4, <2>1, QueueMono
  <2>3. G \cap (o \cup w) = {} /\ o \cup G = o
    BY <2>1
  <2>4. QueueOK(Append(q, s.answer), o \cup G, w)
    BY <1>1, <2>2, <2>3, QueueGrows
  <2> QED
    BY <2>3, <2>4 DEF o, s
<1> QED
  BY <1>2, <1>3, <1>4

(* A packet that brings no handle.                                          *)
LEMMA QueueGrowsPlain ==
  ASSUME NEW q, NEW o, NEW w, QueueOK(q, o, w), NEW packet, PacketOK(packet),
         Granted(packet) = {}
  PROVE  QueueOK(Append(q, packet), o, w)
<1>1. Granted(packet) \cap (o \cup w) = {} /\ o \cup Granted(packet) = o
  OBVIOUS
<1>2. QueueOK(Append(q, packet), o \cup Granted(packet), w)
  BY <1>1, QueueGrows
<1> QED
  BY <1>1, <1>2

LEMMA TakenOK ==
  ASSUME NEW x, NEW queue, NEW o, NEW w, QueueOK(queue, o, w), TakenFrom(x, queue)
  PROVE  /\ PacketOK(x.heard)
         /\ Granted(x.heard) \subseteq o \ w
         /\ QueueOK(x.rest, o, w \cup Granted(x.heard))
<1>1. CASE queue = <<>>
  BY <1>1, QueueEmpty, OddPackets DEF TakenFrom
<1>2. CASE queue # <<>>
  <2>1. /\ PacketOK(Head(queue))
        /\ Granted(Head(queue)) \subseteq o \ w
        /\ QueueOK(Tail(queue), o, w \cup Granted(Head(queue)))
    BY <1>2, QueueTaken
  <2>2. x.heard = Head(queue) /\ x.rest = Tail(queue)
    BY <1>2 DEF TakenFrom
  <2> QED
    BY <2>1, <2>2
<1> QED
  BY <1>1, <1>2

(* The line after an exchange: every handle that is on it, or has just been *)
(* read from it, is open and nobody else's.                                 *)
LEMMA ExchangeQueue ==
  ASSUME OpensComeWhole, PhoneOK(phone), NEW req, Req(req), NEW w,
         w \subseteq OpenHandles, QueueOK(rx, OpenHandles, w),
         req.sub \in Closing => ClosedBy(req) \in w,
         NEW x \in Exchanges(req)
  PROVE  LET o == Counted(x.phone.open)
         IN  /\ PhoneOK(x.phone)
             /\ PacketOK(x.heard)
             /\ Granted(x.heard) \subseteq o \ w
             /\ QueueOK(x.rest, o, w \cup Granted(x.heard))
<1> DEFINE s == Serve(phone, req)
           o == Counted(x.phone.open)
           so == Counted(s.phone.open)
           Good == /\ PhoneOK(x.phone)
                   /\ PacketOK(x.heard)
                   /\ Granted(x.heard) \subseteq o \ w
                   /\ QueueOK(x.rest, o, w \cup Granted(x.heard))
<1>0. OpenHandles = Counted(phone.open)
  BY DEF OpenHandles, Counted
<1>1. ASSUME NEW queue, PhoneOK(x.phone), QueueOK(queue, o, w), TakenFrom(x, queue)
      PROVE  Good
  <2> HIDE DEF o
  <2> QED
    BY <1>1, TakenOK
<1>2. /\ PhoneOK(s.phone)
      /\ PacketOK(s.answer)
  BY Serves
<1>3. ASSUME NEW q, QueueOK(q, OpenHandles, w)
      PROVE  QueueOK(Append(q, s.answer), so, w)
  BY <1>3, ServesQueue
<1>4. ASSUME NEW packet, PacketOK(packet), Granted(packet) = {}
      PROVE  QueueOK(Append(rx, packet), OpenHandles, w)
  BY <1>4, QueueGrowsPlain
<1> SUFFICES Good
  OBVIOUS
<1> HIDE DEF Good
<1>5. CASE Gone(x)
  <2>1. o = OpenHandles /\ PhoneOK(x.phone) /\ TakenFrom(x, rx)
    BY <1>0, <1>5 DEF Gone
  <2> HIDE DEF o
  <2> QED
    BY <1>1, <2>1
<1>6. CASE Answered(req, x)
  <2>1. o = so /\ PhoneOK(x.phone)
    BY <1>2, <1>6 DEF Answered
  <2>2. QueueOK(Append(rx, s.answer), so, w)
    BY <1>3
  <2> QED
    <3>1. TakenFrom(x, Append(rx, s.answer))
      BY <1>6 DEF Answered
    <3> HIDE DEF o, s, so
    <3> QED
      BY <1>1, <2>1, <2>2, <3>1
<1>7. CASE Logged(req, x)
  <2>1. o = so /\ PhoneOK(x.phone)
    BY <1>2, <1>7 DEF Logged
  <2> DEFINE logged == Append(rx, LogPacket)
  <2>2. QueueOK(logged, OpenHandles, w)
    BY <1>4, OddPackets
  <2>3. rx \o <<LogPacket, s.answer>> = Append(logged, s.answer)
    <3>1. rx \in Seq(Range(rx))
      BY DEF QueueOK
    <3> HIDE DEF s
    <3> QED
      BY <3>1
  <2> HIDE DEF logged
  <2>4. QueueOK(Append(logged, s.answer), so, w)
    BY <1>3, <2>2
  <2> QED
    <3>1. TakenFrom(x, Append(logged, s.answer))
      BY <1>7, <2>3 DEF Logged
    <3> HIDE DEF o, s, so
    <3> QED
      BY <1>1, <2>1, <2>4, <3>1
<1>8. CASE Turned(req, x)
  <2>1. o = OpenHandles /\ PhoneOK(x.phone)
    BY <1>0, <1>8 DEF Turned
  <2>2. /\ QueueOK(Append(rx, Refusal(req)), o, w)
        /\ QueueOK(Append(rx, BadCommand), o, w)
    BY <1>4, <2>1, RefusalOK, OddPackets
  <2> QED
    <3>1. \/ TakenFrom(x, Append(rx, Refusal(req)))
          \/ TakenFrom(x, Append(rx, BadCommand))
      BY <1>8 DEF Turned
    <3> HIDE DEF o
    <3> QED
      BY <1>1, <2>1, <2>2, <3>1
<1>9. CASE Late(req, x)
  <2>1. o = so /\ PhoneOK(x.phone)
    BY <1>2, <1>9 DEF Late
  <2>2. QueueOK(Append(<<>>, s.answer), so, w)
    BY <1>3, QueueEmpty
  <2>3. x.rest = Append(<<>>, s.answer) /\ x.heard = Silence
    BY <1>9 DEF Late
  <2>4. Granted(x.heard) = {} /\ PacketOK(x.heard) /\ w \cup {} = w
    BY <2>3, OddPackets
  <2> QED
    BY <2>1, <2>2, <2>3, <2>4 DEF Good
<1>10. CASE Shortened(req, x)
  <2>1. o = so /\ PhoneOK(x.phone)
    BY <1>2, <1>10 DEF Shortened
  <2>2. PacketOK(x.heard) /\ Granted(x.heard) = {}
    BY <1>10, CutIsPlain DEF Shortened
  <2>3. QueueOK(Append(<<>>, Remainder), o, w)
    BY QueueEmpty, QueueGrowsPlain, OddPackets
  <2>4. x.rest = Append(<<>>, Remainder)
    BY <1>10 DEF Shortened
  <2>5. w \cup Granted(x.heard) = w
    BY <2>2
  <2> QED
    BY <2>1, <2>2, <2>3, <2>4, <2>5 DEF Good
<1> QED
  BY <1>5, <1>6, <1>7, <1>8, <1>9, <1>10, ExchangeForms

LEMMA ExchangePhone ==
  ASSUME NEW req, NEW x \in Exchanges(req)
  PROVE  x.phone = phone \/ x.phone = Serve(phone, req).phone
BY ExchangeForms DEF Gone, Answered, Logged, Turned, Late, Shortened

LEMMA ExchangeHandles ==
  ASSUME PhoneOK(phone), NEW req, Req(req), NEW x \in Exchanges(req)
  PROVE  LET o == Counted(x.phone.open)
         IN  \/ SameFiles(phone, x.phone)
             \/ /\ req.sub \in {"Open", "OpenDir"}
                /\ \E h : /\ h \notin OpenHandles
                          /\ o = OpenHandles \cup {h}
                          /\ Kept(phone, x.phone, OpenHandles)
             \/ /\ req.sub \in Closing
                /\ ClosedBy(req) \in OpenHandles
                /\ o = OpenHandles \ {ClosedBy(req)}
                /\ Kept(phone, x.phone, o)
<1> DEFINE s == Serve(phone, req)
           so == Counted(s.phone.open)
<1>0. OpenHandles = Counted(phone.open)
  BY DEF OpenHandles, Counted
<1>1. CASE x.phone = phone
  BY <1>1 DEF SameFiles
<1>2. CASE x.phone = s.phone
  <2>1. CASE req.sub \notin Closing \cup {"Open", "OpenDir"}
    BY <1>2, <2>1, ServesKeeping
  <2>2. CASE req.sub \in {"Open", "OpenDir"}
    <3>1. EfsReq(req)
      BY <2>2 DEF Req, QcdmReq
    <3>2. \/ SameFiles(phone, s.phone)
          \/ \E h \in 0 .. MaxOpen :
               /\ <<HandleKind(req.sub), h>> \notin OpenHandles
               /\ so = OpenHandles \cup {<<HandleKind(req.sub), h>>}
               /\ Kept(phone, s.phone, OpenHandles)
      BY <1>0, <2>2, <3>1, ServesOpening
    <3> HIDE DEF s
    <3> QED
      BY <1>2, <2>2, <3>2
  <2>3. CASE req.sub \in Closing
    <3>1. EfsReq(req)
      BY <2>3 DEF Req, QcdmReq, Closing
    <3>2. \/ s.phone = phone
          \/ /\ ClosedBy(req) \in OpenHandles
             /\ so = OpenHandles \ {ClosedBy(req)}
             /\ Kept(phone, s.phone, so)
      BY <1>0, <2>3, <3>1, ServesClosing
    <3> HIDE DEF s
    <3> QED
      BY <1>2, <2>3, <3>2 DEF SameFiles
  <2> QED
    BY <2>1, <2>2, <2>3
<1> QED
  BY <1>1, <1>2, ExchangePhone

(* A packet that is put on the line stays there, unless the line was in     *)
(* step: the answer that is read then is the one to the request.            *)
LEMMA AppendedStays ==
  ASSUME NEW x, NEW q, q \in Seq(Range(q)), NEW packet,
         TakenFrom(x, Append(q, packet)), x.rest = <<>>
  PROVE  q = <<>> /\ x.heard = packet
<1>1. /\ Append(q, packet) # <<>>
      /\ Head(Append(q, packet)) = IF q = <<>> THEN packet ELSE Head(q)
      /\ Tail(Append(q, packet)) = IF q = <<>> THEN <<>> ELSE Append(Tail(q), packet)
  BY AppendIs
<1>2. x.heard = Head(Append(q, packet)) /\ x.rest = Tail(Append(q, packet))
  BY <1>1 DEF TakenFrom
<1>3. q # <<>> => Append(Tail(q), packet) # <<>>
  <2>1. ASSUME q # <<>>
        PROVE  Tail(q) \in Seq(Range(q))
    BY <2>1, HeadTailProperties
  <2>2. ASSUME NEW t \in Seq(Range(q))
        PROVE  Append(t, packet) # <<>>
    BY <2>2, TypedByRange, AppendIs
  <2> QED
    BY <2>1, <2>2
<1> QED
  BY <1>1, <1>2, <1>3

LEMMA LoggedTwice ==
  ASSUME NEW q, q \in Seq(Range(q)), NEW a, NEW b
  PROVE  /\ Append(q, a) \in Seq(Range(Append(q, a)))
         /\ q \o <<a, b>> = Append(Append(q, a), b)
<1>1. Append(q, a) \in Seq(Range(Append(q, a)))
  BY AppendIs
<1>2. q \o <<a, b>> = Append(Append(q, a), b)
  OBVIOUS
<1> QED
  BY <1>1, <1>2

LEMMA ExchangeInStep ==
  ASSUME rx \in Seq(Range(rx)), NEW req, NEW x \in Exchanges(req),
         x.rest = <<>>, x.phone.mode = "diag"
  PROVE  /\ InStep
         /\ \/ /\ x.phone = Serve(phone, req).phone
               /\ x.heard = Serve(phone, req).answer
            \/ x.phone = phone /\ x.heard \in {Refusal(req), BadCommand}
<1> DEFINE s == Serve(phone, req)
<1>1. ~ Gone(x)
  BY DEF Gone
<1>2. ~ Late(req, x)
  BY DEF Late
<1>3. ~ Shortened(req, x)
  BY DEF Shortened
<1>4. CASE Answered(req, x)
  <2>1. TakenFrom(x, Append(rx, s.answer)) /\ x.phone = s.phone
    BY <1>4 DEF Answered
  <2> HIDE DEF s
  <2>2. rx = <<>> /\ x.heard = s.answer
    BY <2>1, AppendedStays
  <2> QED
    BY <1>1, <2>1, <2>2, ExchangeForms DEF InStep, s
<1>5. CASE Turned(req, x)
  <2>1. rx = <<>> /\ x.heard \in {Refusal(req), BadCommand}
    BY <1>5, AppendedStays DEF Turned
  <2> QED
    BY <1>5, <2>1 DEF InStep, Turned
<1>6. ~ Logged(req, x)
  <2> SUFFICES ASSUME Logged(req, x)
               PROVE  FALSE
    OBVIOUS
  <2> DEFINE logged == Append(rx, LogPacket)
  <2>1. logged \in Seq(Range(logged)) /\ logged # <<>>
    BY AppendIs
  <2> HIDE DEF s
  <2>3. rx \o <<LogPacket, s.answer>> = Append(logged, s.answer)
    BY LoggedTwice
  <2> USE DEF s
  <2>4. TakenFrom(x, rx \o <<LogPacket, s.answer>>)
    BY DEF Logged
  <2>2. TakenFrom(x, Append(logged, s.answer))
    BY <2>3, <2>4
  <2> HIDE DEF logged, s
  <2> QED
    BY <2>1, <2>2, AppendedStays
<1> QED
  BY <1>1, <1>2, <1>3, <1>4, <1>5, <1>6, ExchangeForms

(* A packet that is put behind others that are no answers, and is heard.    *)
LEMMA HeardOdd ==
  ASSUME NEW x, NEW q, q \in Seq(Range(q)), NoAnswers(q), NEW packet,
         TakenFrom(x, Append(q, packet))
  PROVE  \/ x.heard.sub = "none"
         \/ x.heard = packet /\ x.rest = <<>>
<1>1. /\ Append(q, packet) # <<>>
      /\ Head(Append(q, packet)) = IF q = <<>> THEN packet ELSE Head(q)
      /\ Tail(Append(q, packet)) = IF q = <<>> THEN <<>> ELSE Append(Tail(q), packet)
  BY AppendIs
<1>2. x.heard = Head(Append(q, packet)) /\ x.rest = Tail(Append(q, packet))
  BY <1>1 DEF TakenFrom
<1>3. CASE q # <<>>
  <2>1. Head(q) = q[1] /\ 1 \in 1 .. Len(q)
    BY <1>3, HeadTailProperties
  <2> QED
    BY <1>1, <1>2, <1>3, <2>1 DEF NoAnswers
<1> QED
  BY <1>1, <1>2, <1>3

LEMMA NoAnswersEmpty == NoAnswers(<<>>)
BY DEF NoAnswers

LEMMA NoAnswersOnly ==
  ASSUME NEW packet, packet.sub = "none"
  PROVE  NoAnswers(<<packet>>)
BY DEF NoAnswers

(* An answer that is taken is the one to the request, when the line has     *)
(* brought nothing but answers to other kinds of requests before.           *)
LEMMA ExchangeSpotless ==
  ASSUME OpensComeWhole, PhoneOK(phone), rx \in Seq(Range(rx)), NoAnswers(rx),
         NEW req, EfsReq(req), NEW x \in Exchanges(req),
         x.heard # Silence, ~ SendThrows(req, x.heard)
  PROVE  /\ NoAnswers(x.rest)
         /\ \/ /\ x.phone = Serve(phone, req).phone
               /\ x.heard = Serve(phone, req).answer \/ req.sub \in Cuttable
            \/ x.phone = phone /\ x.heard = Refusal(req)
<1> DEFINE s == Serve(phone, req)
<1>0. x.heard.sub = req.sub /\ req.sub # "none" /\ x.heard.sub # "none"
  BY AnswerTable DEF SendThrows, EfsReq
<1>1. ~ Gone(x)
  <2> SUFFICES ASSUME TakenFrom(x, rx)
               PROVE  FALSE
    BY DEF Gone
  <2>1. rx # <<>> /\ x.heard = Head(rx)
    BY DEF TakenFrom
  <2>2. Head(rx) = rx[1] /\ 1 \in 1 .. Len(rx)
    BY <2>1, HeadTailProperties
  <2> QED
    BY <1>0, <2>1, <2>2 DEF NoAnswers
<1>2. ~ Late(req, x)
  BY DEF Late
<1>3. CASE Answered(req, x)
  <2>1. TakenFrom(x, Append(rx, s.answer)) /\ x.phone = s.phone
    BY <1>3 DEF Answered
  <2> HIDE DEF s
  <2>2. x.heard = s.answer /\ x.rest = <<>>
    BY <1>0, <2>1, HeardOdd
  <2> QED
    BY <2>1, <2>2, NoAnswersEmpty DEF s
<1>4. ~ Logged(req, x)
  <2> SUFFICES ASSUME TakenFrom(x, rx \o <<LogPacket, s.answer>>)
               PROVE  FALSE
    BY DEF Logged
  <2> DEFINE logged == Append(rx, LogPacket)
  <2> HIDE DEF s
  <2>1. /\ rx \o <<LogPacket, s.answer>> = Append(logged, s.answer)
        /\ logged \in Seq(Range(logged))
    BY LoggedTwice
  <2>2. /\ Len(logged) = Len(rx) + 1 /\ Len(rx) \in Nat
        /\ \A i \in 1 .. Len(rx) : logged[i] = rx[i]
        /\ logged[Len(rx) + 1] = LogPacket
        /\ logged # <<>>
    BY AppendIs
  <2>3. NoAnswers(logged)
    BY <2>2, OddPackets DEF NoAnswers
  <2>4. TakenFrom(x, Append(logged, s.answer))
    BY <2>1
  <2> HIDE DEF logged
  <2>5. x.heard = s.answer /\ x.rest = <<>>
    BY <1>0, <2>1, <2>3, <2>4, HeardOdd
  <2> QED
    BY <2>1, <2>2, <2>4, <2>5, AppendedStays
<1>5. CASE Turned(req, x)
  <2>1. x.heard \in {Refusal(req), BadCommand} \/ x.heard.sub = "none"
    BY <1>5, HeardOdd DEF Turned
  <2>2. x.heard = Refusal(req) /\ TakenFrom(x, Append(rx, Refusal(req)))
    <3>1. ASSUME TakenFrom(x, Append(rx, BadCommand))
          PROVE  FALSE
      <4>1. x.heard = BadCommand
        BY <1>0, <3>1, HeardOdd
      <4> QED
        BY <1>0, <4>1, OddPackets
    <3>2. TakenFrom(x, Append(rx, Refusal(req)))
      BY <1>5, <3>1 DEF Turned
    <3> QED
      BY <1>0, <3>2, HeardOdd
  <2>3. x.rest = <<>>
    BY <1>0, <2>2, HeardOdd
  <2> QED
    BY <1>5, <2>2, <2>3, NoAnswersEmpty DEF Turned
<1>6. CASE Shortened(req, x)
  BY <1>6, NoAnswersOnly, OddPackets DEF Shortened
<1> QED
  BY <1>1, <1>2, <1>3, <1>4, <1>5, <1>6, ExchangeForms

(* Behind packets that are no answers of the file system, a request of      *)
(* another kind leaves none either.                                         *)
LEMMA NoAnswersGrow ==
  ASSUME NEW q, q \in Seq(Range(q)), NoAnswers(q), NEW packet, packet.sub = "none"
  PROVE  NoAnswers(Append(q, packet)) /\ Append(q, packet) \in Seq(Range(Append(q, packet)))
<1> DEFINE a == Append(q, packet)
<1>1. /\ Len(a) = Len(q) + 1 /\ a \in Seq(Range(a))
      /\ \A i \in 1 .. Len(q) : a[i] = q[i]
      /\ a[Len(q) + 1] = packet
  BY AppendIs
<1>2. Len(q) \in Nat
  OBVIOUS
<1> QED
  BY <1>1, <1>2 DEF NoAnswers

LEMMA NoAnswersTaken ==
  ASSUME NEW q, q \in Seq(Range(q)), NoAnswers(q), NEW x, TakenFrom(x, q)
  PROVE  NoAnswers(x.rest)
<1>1. CASE q = <<>>
  BY <1>1, NoAnswersEmpty DEF TakenFrom
<1>2. CASE q # <<>>
  <2>1. /\ Len(Tail(q)) = Len(q) - 1 /\ Len(q) \in Nat
        /\ \A i \in 1 .. Len(Tail(q)) : Tail(q)[i] = q[i + 1]
    BY <1>2, HeadTailProperties
  <2> QED
    BY <1>2, <2>1 DEF NoAnswers, TakenFrom
<1> QED
  BY <1>1, <1>2

LEMMA ExchangeQuiet ==
  ASSUME OpensComeWhole, PhoneOK(phone), rx \in Seq(Range(rx)), NoAnswers(rx),
         NEW req, QcdmReq(req), NEW x \in Exchanges(req)
  PROVE  NoAnswers(x.rest)
<1> DEFINE s == Serve(phone, req)
<1>0. s.answer.sub = "none" /\ Refusal(req).sub = "none"
  BY Serves, RefusalOK DEF Req, QcdmReq
<1>1. CASE Gone(x)
  BY <1>1, NoAnswersTaken DEF Gone
<1>2. CASE Late(req, x)
  <2>1. x.rest = <<s.answer>>
    BY <1>2 DEF Late
  <2> HIDE DEF s
  <2> QED
    BY <1>0, <2>1, NoAnswersOnly
<1>3. CASE Answered(req, x)
  <2>1. TakenFrom(x, Append(rx, s.answer))
    BY <1>3 DEF Answered
  <2> HIDE DEF s
  <2>2. /\ NoAnswers(Append(rx, s.answer))
        /\ Append(rx, s.answer) \in Seq(Range(Append(rx, s.answer)))
    BY <1>0, NoAnswersGrow
  <2> DEFINE a == Append(rx, s.answer)
  <2> HIDE DEF a
  <2> QED
    BY <2>1, <2>2, NoAnswersTaken DEF a
<1>4. CASE Logged(req, x)
  <2>1. TakenFrom(x, rx \o <<LogPacket, s.answer>>)
    BY <1>4 DEF Logged
  <2> DEFINE logged == Append(rx, LogPacket)
             a == Append(logged, s.answer)
  <2> HIDE DEF s
  <2>2. rx \o <<LogPacket, s.answer>> = a
    BY LoggedTwice
  <2>3. NoAnswers(logged) /\ logged \in Seq(Range(logged))
    BY OddPackets, NoAnswersGrow
  <2> HIDE DEF logged
  <2>4. NoAnswers(a) /\ a \in Seq(Range(a))
    BY <1>0, <2>3, NoAnswersGrow
  <2> HIDE DEF a
  <2> QED
    BY <2>1, <2>2, <2>4, NoAnswersTaken
<1>5. CASE Turned(req, x)
  <2>1. ASSUME NEW packet, packet.sub = "none", TakenFrom(x, Append(rx, packet))
        PROVE  NoAnswers(x.rest)
    <3> DEFINE a == Append(rx, packet)
    <3>1. NoAnswers(a) /\ a \in Seq(Range(a))
      BY <2>1, NoAnswersGrow
    <3>2. TakenFrom(x, a)
      BY <2>1
    <3> HIDE DEF a
    <3> QED
      BY <3>1, <3>2, NoAnswersTaken
  <2> QED
    BY <1>0, <1>5, <2>1, OddPackets DEF Turned
<1>6. ~ Shortened(req, x)
  BY CutIsPlain DEF Shortened, Req, QcdmReq, EfsReq
<1> QED
  BY <1>1, <1>2, <1>3, <1>4, <1>5, <1>6, ExchangeForms

(* A refused close says so.                                                 *)
LEMMA RefusedClose ==
  ASSUME NEW req, EfsReq(req), req.sub \in Closing
  PROVE  ErrorIn(Refusal(req))
<1>1. Refusal(req) = Answer(req.sub, [error |-> 1])
  BY DEF Refusal, EfsReq
<1>2. Refusal(req).f["error"] = 1 /\ "error" \in DOMAIN Refusal(req).f
  BY <1>1, HandleAnswerFields, AnswerShape DEF Closing
<1> QED
  BY <1>2 DEF ErrorIn, Got

LEMMA FaultsCounted ==
  ASSUME faults \in 0 .. MaxFaults, NEW req, NEW x \in Exchanges(req), Takes(x)
  PROVE  faults' \in 0 .. MaxFaults
<1>1. x.fault = "none" \/ faults # 0
  BY ExchangeForms
<1> QED
  BY <1>1, LineAssumption DEF Takes

----------------------------------------------------------------------------
(* Shapes.                                                                  *)

Files(handles) == {y \in handles : y[1] # "image"}

(* As long as the program is spotless it has heard the answer of every      *)
(* request it made, or goes on to close what it was reading.                *)
Unspoilt(req, x) ==
  /\ spotless' \in BOOLEAN
  /\ spotless' =>
       /\ spotless
       /\ ~Aborting
       /\ x.heard # Silence
       /\ SendThrows(req, x.heard) => Aborting'

(* The program has what it had, or an image more, or has lost handles. *)
KeepsFiles ==
  /\ \A y \in held' : y \in held \/ (y[1] = "image" /\ y[2] \in 0 .. MaxOpen)
  /\ spotless' => Files(held) \subseteq held'

(* What is written to a file is a sequence, put at some place in it; what   *)
(* is put into the tree, or taken out of it with what it has, has a path.   *)
Changing == {"Write", "Ftruncate", "Mkdir", "Rmdir", "Symlink"}
Sound(req) ==
  /\ req.sub = "Write" => req.data \in Seq(Nat) /\ req.offset \in Nat
  /\ req.sub = "Ftruncate" => req.size = 0
  /\ req.sub = "Open" /\ req.creates => WellNamed(req.path)
  /\ req.sub \in {"Mkdir", "Rmdir"} => WellNamed(req.path)
  /\ req.sub = "Symlink" => WellNamed(req.link)

PlainReq(req) ==
  /\ EfsReq(req)
  /\ req.sub \notin Closing \cup {"Open", "OpenDir"}
  /\ PutLocals => Sound(req)
Keeping(req) ==
  /\ PlainReq(req)
  /\ \E x \in Exchanges(req) : Takes(x) /\ Unspoilt(req, x) /\ KeepsFiles

(* A request of the rest of diag. *)
Asking(req) ==
  /\ QcdmReq(req)
  /\ \E x \in Exchanges(req) : Takes(x)
  /\ spotless' \in BOOLEAN
  /\ spotless' => spotless /\ held' = held
  /\ held' \subseteq held
  /\ ~Aborting

Taking(req) ==
  /\ EfsReq(req)
  /\ req.sub \in {"Open", "OpenDir"}
  /\ Sound(req)
  /\ \E x \in Exchanges(req) :
       /\ Takes(x)
       /\ Unspoilt(req, x)
       /\ \/ held' \subseteq held /\ ~ spotless'
          \/ /\ x.heard # Silence
             /\ ~ SendThrows(req, x.heard)
             /\ \E h : /\ Granted(x.heard) = {<<HandleKind(req.sub), h>>}
                       /\ held' = held \cup {<<HandleKind(req.sub), h, req.path>>}

Giving(req, y) ==
  /\ EfsReq(req)
  /\ req.sub \in Closing
  /\ y \in held
  /\ HandleOf(y) = ClosedBy(req)
  /\ held' \subseteq held \ {y}
  /\ \E x \in Exchanges(req) :
       /\ Takes(x)
       /\ Unspoilt(req, x)
       /\ spotless' => held' = held \ {y} /\ ~ ErrorIn(x.heard) /\ ~ Aborting'

Quiet ==
  /\ UNCHANGED lineVars
  /\ held' \subseteq held
  /\ spotless' \in BOOLEAN
  /\ spotless' => spotless /\ held' = held /\ ~ Aborting

(* The program ends; the line is emptied or not. *)
Leaving ==
  /\ PortReopens
  /\ held' = {}
  /\ spotless' = (spotless /\ held = {})
  /\ ~ Aborting

Booting ==
  /\ PhoneStarts
  /\ held' = {}
  /\ spotless' = TRUE

Shaped ==
  \/ \E req : Keeping(req)
  \/ \E req : Asking(req)
  \/ \E req : Taking(req)
  \/ \E req, y : Giving(req, y)
  \/ Quiet
  \/ Leaving
  \/ Booting

(* What the shapes preserve. *)
Core ==
  /\ PhoneOK(phone)
  /\ HandlesOK(held)
  /\ HeldHandles \subseteq OpenHandles
  /\ QueueOK(rx, OpenHandles, HeldHandles)
  /\ InStep => OpenedFor(phone, held)
  /\ spotless => OpenHandles = HeldHandles
  /\ spotless /\ ~Aborting => NoAnswers(rx)
  /\ faults \in 0 .. MaxFaults
  /\ spotless \in BOOLEAN

(* What a method has to show of its locals and of what it ended with.       *)
After == CallOK' /\ LastOK' /\ NvReadIsPhones'

----------------------------------------------------------------------------
(* Each shape preserves the core, and is a step of HandleTable.             *)

LEMMA HandleNames ==
  /\ OpenHandles = Counted(phone.open)
  /\ HeldHandles = Owned(held)
  /\ OpenHandles' = Counted(phone'.open)
  /\ HeldHandles' = Owned(held')
BY DEF OpenHandles, Counted, HeldHandles, Owned

LEMMA OwnedMono ==
  ASSUME NEW a, NEW b, \A y \in a : y \in b \/ y[1] = "image"
  PROVE  Owned(a) \subseteq Owned(b)
BY DEF Owned

LEMMA OwnedLess ==
  ASSUME NEW a, NEW b, HandlesOK(a), NEW y \in a, y[1] # "image", b \subseteq a \ {y}
  PROVE  /\ Owned(b) \subseteq Owned(a) \ {HandleOf(y)}
         /\ b = a \ {y} => Owned(b) = Owned(a) \ {HandleOf(y)}
BY DEF Owned, HandlesOK

LEMMA KeepingStep ==
  ASSUME OpensComeWhole, Core, NEW req, Keeping(req)
  PROVE  Core' /\ [Table!Next]_(Table!vars)
<1>0. /\ PlainReq(req) /\ KeepsFiles /\ Req(req) /\ req.sub \notin Closing
      /\ EfsReq(req)
  BY DEF Keeping, PlainReq, Req
<1>1. PICK x \in Exchanges(req) : Takes(x) /\ Unspoilt(req, x)
  BY DEF Keeping
<1>2. phone' = x.phone /\ rx' = x.rest
  BY <1>1 DEF Takes
<1> DEFINE w == HeldHandles
<1>3. w \subseteq OpenHandles /\ QueueOK(rx, OpenHandles, w) /\ PhoneOK(phone)
  BY DEF Core
<1> HIDE DEF w
<1>4. /\ PhoneOK(x.phone)
      /\ QueueOK(x.rest, Counted(x.phone.open), w \cup Granted(x.heard))
      /\ Granted(x.heard) \subseteq Counted(x.phone.open) \ w
  BY <1>0, <1>3, ExchangeQueue
<1>5. SameFiles(phone, x.phone)
  BY <1>0, <1>3, ExchangeHandles DEF PlainReq
<1>6. OpenHandles' = OpenHandles
  BY <1>2, <1>5, HandleNames DEF SameFiles
<1>7. HeldHandles' \subseteq HeldHandles
  BY <1>0, HandleNames, OwnedMono DEF KeepsFiles
<1>8. spotless' => HeldHandles' = HeldHandles
  <2>1. ASSUME spotless'
        PROVE  Owned(held) \subseteq Owned(held')
    BY <1>0, <2>1 DEF KeepsFiles, Files, Owned
  <2> QED
    BY <1>7, <2>1, HandleNames
<1>9. HandlesOK(held')
  <2>1. \A y, z : HandleOf(y) = HandleOf(z) => y[1] = z[1]
    BY DEF HandleOf
  <2> QED
    BY <1>0, <2>1 DEF Core, HandlesOK, KeepsFiles, Kinds
<1>10. QueueOK(rx', OpenHandles', HeldHandles')
  <2> DEFINE o == OpenHandles
             w2 == HeldHandles'
             g == w \cup Granted(x.heard)
             q == x.rest
  <2>1. QueueOK(q, o, g)
    BY <1>4, <1>2, <1>6, HandleNames
  <2>2. o \ g \subseteq o /\ w2 \cap o \subseteq g
    BY <1>7 DEF w
  <2> HIDE DEF o, w2, g, q
  <2>3. QueueOK(q, o, w2)
    BY <2>1, <2>2, QueueMono
  <2> QED
    BY <1>2, <1>6, <2>3 DEF o, w2, q
<1>11. (InStep => OpenedFor(phone, held))'
  <2> SUFFICES ASSUME InStep'
               PROVE  OpenedFor(phone', held')
    OBVIOUS
  <2>1. x.rest = <<>> /\ x.phone.mode = "diag"
    BY <1>2 DEF InStep
  <2>2. InStep
    BY <1>3, <2>1, ExchangeInStep DEF QueueOK
  <2>3. OpenedFor(phone, held)
    BY <2>2 DEF Core
  <2>4. ASSUME NEW y \in held', y[1] # "image"
        PROVE  phone'.open[HandleOf(y)] = Trimmed(y[3])
    <3>1. y \in held
      BY <1>0, <2>4 DEF KeepsFiles
    <3>2. HandleOf(y) \in Counted(phone.open)
      BY <1>3, <2>4, <3>1, HandleNames DEF w, Owned
    <3> QED
      BY <1>2, <1>5, <2>3, <2>4, <3>1, <3>2 DEF SameFiles, OpenedFor
  <2> QED
    BY <2>4 DEF OpenedFor
<1>12. (spotless => OpenHandles = HeldHandles)'
  BY <1>1, <1>6, <1>8 DEF Core, Unspoilt
<1>13. (spotless /\ ~Aborting => NoAnswers(rx))'
  <2> SUFFICES ASSUME spotless', ~Aborting'
               PROVE  NoAnswers(rx')
    OBVIOUS
  <2>1. spotless /\ ~Aborting /\ x.heard # Silence /\ ~ SendThrows(req, x.heard)
    BY <1>1 DEF Unspoilt
  <2>2. NoAnswers(rx) /\ rx \in Seq(Range(rx))
    BY <2>1 DEF Core, QueueOK
  <2> QED
    BY <1>0, <1>2, <1>3, <2>1, <2>2, ExchangeSpotless
<1>14. faults' \in 0 .. MaxFaults
  BY <1>1, FaultsCounted DEF Core
<1>15. Core'
  BY <1>1, <1>2, <1>4, <1>6, <1>7, <1>3, <1>9, <1>10, <1>11, <1>12, <1>13, <1>14
     DEF Core, Unspoilt, w
<1>16. Table!Forget
  BY <1>6, <1>7 DEF Table!Forget
<1> QED
  BY <1>15, <1>16 DEF Table!Next

LEMMA AskingStep ==
  ASSUME OpensComeWhole, Core, NEW req, Asking(req)
  PROVE  Core' /\ [Table!Next]_(Table!vars)
<1>0. QcdmReq(req) /\ Req(req) /\ req.sub \notin Closing \cup {"Open", "OpenDir"}
  BY DEF Asking, Req, QcdmReq, Closing
<1>1. PICK x \in Exchanges(req) : Takes(x)
  BY DEF Asking
<1>2. phone' = x.phone /\ rx' = x.rest
  BY <1>1 DEF Takes
<1> DEFINE w == HeldHandles
<1>3. w \subseteq OpenHandles /\ QueueOK(rx, OpenHandles, w) /\ PhoneOK(phone)
  BY DEF Core
<1> HIDE DEF w
<1>4. /\ PhoneOK(x.phone)
      /\ QueueOK(x.rest, Counted(x.phone.open), w \cup Granted(x.heard))
  BY <1>0, <1>3, ExchangeQueue
<1>5. SameFiles(phone, x.phone)
  BY <1>0, <1>3, ExchangeHandles
<1>6. OpenHandles' = OpenHandles
  BY <1>2, <1>5, HandleNames DEF SameFiles
<1>7. /\ HeldHandles' \subseteq HeldHandles
      /\ held' = held => HeldHandles' = HeldHandles
  BY HandleNames DEF Asking, Owned
<1>9. HandlesOK(held')
  BY DEF Core, HandlesOK, Asking
<1>10. QueueOK(rx', OpenHandles', HeldHandles')
  <2> DEFINE o == OpenHandles
             w2 == HeldHandles'
             g == w \cup Granted(x.heard)
             q == x.rest
  <2>1. QueueOK(q, o, g)
    BY <1>4, <1>2, <1>6, HandleNames
  <2>2. o \ g \subseteq o /\ w2 \cap o \subseteq g
    BY <1>7 DEF w
  <2> HIDE DEF o, w2, g, q
  <2>3. QueueOK(q, o, w2)
    BY <2>1, <2>2, QueueMono
  <2> QED
    BY <1>2, <1>6, <2>3 DEF o, w2, q
<1>11. (InStep => OpenedFor(phone, held))'
  <2> SUFFICES ASSUME InStep'
               PROVE  OpenedFor(phone', held')
    OBVIOUS
  <2>1. x.rest = <<>> /\ x.phone.mode = "diag"
    BY <1>2 DEF InStep
  <2>2. InStep
    BY <1>3, <2>1, ExchangeInStep DEF QueueOK
  <2>3. OpenedFor(phone, held)
    BY <2>2 DEF Core
  <2>4. ASSUME NEW y \in held', y[1] # "image"
        PROVE  phone'.open[HandleOf(y)] = Trimmed(y[3])
    <3>1. y \in held
      BY <2>4 DEF Asking
    <3>2. HandleOf(y) \in Counted(phone.open)
      BY <1>3, <2>4, <3>1, HandleNames DEF w, Owned
    <3> QED
      BY <1>2, <1>5, <2>3, <2>4, <3>1, <3>2 DEF SameFiles, OpenedFor
  <2> QED
    BY <2>4 DEF OpenedFor
<1>12. (spotless => OpenHandles = HeldHandles)'
  BY <1>6, <1>7 DEF Core, Asking
<1>13. (spotless /\ ~Aborting => NoAnswers(rx))'
  <2> SUFFICES ASSUME spotless'
               PROVE  NoAnswers(rx')
    OBVIOUS
  <2>1. NoAnswers(rx) /\ rx \in Seq(Range(rx))
    BY DEF Core, QueueOK, Asking
  <2> QED
    BY <1>0, <1>2, <1>3, <2>1, ExchangeQuiet
<1>14. faults' \in 0 .. MaxFaults
  BY <1>1, FaultsCounted DEF Core
<1>15. Core'
  BY <1>2, <1>4, <1>6, <1>7, <1>3, <1>9, <1>10, <1>11, <1>12, <1>13, <1>14
     DEF Core, Asking, w
<1>16. Table!Forget
  BY <1>6, <1>7 DEF Table!Forget
<1> QED
  BY <1>15, <1>16 DEF Table!Next

LEMMA TakingStep ==
  ASSUME OpensComeWhole, Core, NEW req, Taking(req)
  PROVE  Core' /\ [Table!Next]_(Table!vars)
<1>0. /\ EfsReq(req) /\ Req(req) /\ req.sub \in {"Open", "OpenDir"}
      /\ req.sub \notin Closing /\ req.sub \notin Cuttable
      /\ HandleKind(req.sub) \in {"file", "dir"}
  BY DEF Taking, Req, Closing, OpensComeWhole, HandleKind
<1> DEFINE kind == HandleKind(req.sub)
<1> HIDE DEF kind
<1>1. PICK x \in Exchanges(req) :
        /\ Takes(x)
        /\ Unspoilt(req, x)
        /\ \/ held' \subseteq held /\ ~ spotless'
           \/ /\ x.heard # Silence
              /\ ~ SendThrows(req, x.heard)
              /\ \E h : /\ Granted(x.heard) = {<<kind, h>>}
                        /\ held' = held \cup {<<kind, h, req.path>>}
  BY DEF Taking, kind
<1>2. phone' = x.phone /\ rx' = x.rest
  BY <1>1 DEF Takes
<1> DEFINE w == HeldHandles
           o == Counted(x.phone.open)
<1>3. w \subseteq OpenHandles /\ QueueOK(rx, OpenHandles, w) /\ PhoneOK(phone)
  BY DEF Core
<1> HIDE DEF w
<1>4. /\ PhoneOK(x.phone)
      /\ QueueOK(x.rest, o, w \cup Granted(x.heard))
      /\ Granted(x.heard) \subseteq o \ w
  BY <1>0, <1>3, ExchangeQueue
<1>5. \/ SameFiles(phone, x.phone)
      \/ \E h : /\ h \notin OpenHandles
                /\ o = OpenHandles \cup {h}
                /\ Kept(phone, x.phone, OpenHandles)
  BY <1>0, <1>3, ExchangeHandles
<1>6. /\ OpenHandles' = o
      /\ OpenHandles \subseteq o
      /\ Kept(phone, x.phone, OpenHandles)
  BY <1>2, <1>5, HandleNames DEF SameFiles, Kept
<1> HIDE DEF o
<1>7. \/ HeldHandles' \subseteq HeldHandles /\ held' \subseteq held /\ ~ spotless'
      \/ \E h : /\ HeldHandles' = HeldHandles \cup {<<kind, h>>}
                /\ Granted(x.heard) = {<<kind, h>>}
                /\ held' = held \cup {<<kind, h, req.path>>}
                /\ x.heard # Silence
                /\ ~ SendThrows(req, x.heard)
  <2>1. CASE held' \subseteq held /\ ~ spotless'
    BY <2>1, HandleNames DEF Owned
  <2>2. ASSUME NEW h, held' = held \cup {<<kind, h, req.path>>}
        PROVE  HeldHandles' = HeldHandles \cup {<<kind, h>>}
    <3> DEFINE t == <<kind, h, req.path>>
    <3>1. HandleOf(t) = <<kind, h>> /\ t[1] # "image"
      BY <1>0 DEF HandleOf, kind
    <3>2. held' = held \cup {t}
      BY <2>2
    <3> HIDE DEF t
    <3>3. Owned(held') = Owned(held) \cup {HandleOf(t)}
      BY <3>1, <3>2 DEF Owned
    <3> QED
      BY <3>1, <3>3, HandleNames
  <2> QED
    BY <1>1, <2>1, <2>2
<1>8. HeldHandles' \subseteq w \cup Granted(x.heard)
  BY <1>7 DEF w
<1>9. HeldHandles' \subseteq OpenHandles'
  BY <1>3, <1>4, <1>6, <1>8
<1>10. HandlesOK(held')
  <2>1. CASE held' \subseteq held
    BY <2>1 DEF Core, HandlesOK
  <2>2. ASSUME NEW h, held' = held \cup {<<kind, h, req.path>>},
               Granted(x.heard) = {<<kind, h>>}
        PROVE  HandlesOK(held')
    <3> DEFINE t == <<kind, h, req.path>>
    <3>1. <<kind, h>> \in o \ w
      BY <1>4, <2>2
    <3>2. h \in 0 .. MaxOpen
      BY <1>4, <3>1 DEF PhoneOK, o, Counted
    <3>3. HandleOf(t) = <<kind, h>> /\ t[1] \in Kinds /\ t[2] \in 0 .. MaxOpen
      BY <1>0, <3>2 DEF HandleOf, kind, Kinds
    <3>4. HandleOf(t) \notin Owned(held) /\ t[1] # "image" /\ HandleOf(t)[1] = t[1]
      BY <1>0, <3>1, <3>3, HandleNames DEF w, kind
    <3>5. held' = held \cup {t}
      BY <2>2
    <3> HIDE DEF t
    <3>6. \A y \in held : HandleOf(y) # HandleOf(t)
      BY <3>4 DEF Owned, HandleOf
    <3> QED
      BY <3>3, <3>5, <3>6 DEF Core, HandlesOK
  <2> QED
    BY <1>7, <2>1, <2>2
<1>11. QueueOK(rx', OpenHandles', HeldHandles')
  <2> DEFINE w2 == HeldHandles'
             g == w \cup Granted(x.heard)
             q == x.rest
  <2>1. QueueOK(q, o, g)
    BY <1>4
  <2>2. o \ g \subseteq o /\ w2 \cap o \subseteq g
    BY <1>8
  <2> HIDE DEF w2, g, q
  <2>3. QueueOK(q, o, w2)
    BY <2>1, <2>2, QueueMono
  <2> QED
    BY <1>2, <1>6, <2>3 DEF w2, q
<1>12. (InStep => OpenedFor(phone, held))'
  <2> SUFFICES ASSUME InStep'
               PROVE  OpenedFor(phone', held')
    OBVIOUS
  <2>1. x.rest = <<>> /\ x.phone.mode = "diag"
    BY <1>2 DEF InStep
  <2>2. /\ InStep
        /\ \/ /\ x.phone = Serve(phone, req).phone
              /\ x.heard = Serve(phone, req).answer
           \/ x.phone = phone /\ x.heard \in {Refusal(req), BadCommand}
    BY <1>3, <2>1, ExchangeInStep DEF QueueOK
  <2>3. OpenedFor(phone, held)
    BY <2>2 DEF Core
  <2>4. ASSUME NEW y \in held, y[1] # "image"
        PROVE  phone'.open[HandleOf(y)] = Trimmed(y[3])
    <3>1. HandleOf(y) \in OpenHandles
      BY <1>3, <2>4, HandleNames DEF w, Owned
    <3> QED
      BY <1>2, <1>6, <2>3, <2>4, <3>1 DEF Kept, OpenedFor
  <2>5. ASSUME NEW h, Granted(x.heard) = {<<kind, h>>}
        PROVE  phone'.open[<<kind, h>>] = Trimmed(req.path)
    <3>1. Granted(Refusal(req)) = {} /\ Granted(BadCommand) = {}
      BY <1>0, RefusalOK, OddPackets
    <3>2. /\ x.phone = Serve(phone, req).phone
          /\ x.heard = Serve(phone, req).answer
      BY <2>2, <2>5, <3>1
    <3>3. \/ Serve(phone, req).answer = Refusal(req)
          \/ \E k \in 0 .. MaxOpen :
               /\ Serve(phone, req).phone.open[<<kind, k>>] = Trimmed(req.path)
               /\ Granted(Serve(phone, req).answer) = {<<kind, k>>}
      BY <1>0, <1>3, ServesOpening DEF kind
    <3> QED
      BY <1>2, <2>5, <3>1, <3>2, <3>3
  <2>6. ASSUME NEW h, held' = held \cup {<<kind, h, req.path>>},
               Granted(x.heard) = {<<kind, h>>}
        PROVE  OpenedFor(phone', held')
    <3>1. phone'.open[<<kind, h>>] = Trimmed(req.path)
      BY <2>5, <2>6
    <3> QED
      BY <2>4, <2>6, <3>1 DEF OpenedFor, HandleOf
  <2> QED
    BY <1>7, <2>4, <2>6 DEF OpenedFor
<1>13. ASSUME spotless'
       PROVE  OpenHandles' = HeldHandles' /\ (~ Aborting' => NoAnswers(rx'))
  <2>1. PICK h : /\ HeldHandles' = HeldHandles \cup {<<kind, h>>}
                 /\ Granted(x.heard) = {<<kind, h>>}
                 /\ x.heard # Silence
                 /\ ~ SendThrows(req, x.heard)
    BY <1>7, <1>13
  <2>2. /\ spotless /\ ~ Aborting
        /\ NoAnswers(rx) /\ rx \in Seq(Range(rx))
        /\ OpenHandles = HeldHandles
    BY <1>1, <1>13 DEF Core, QueueOK, Unspoilt
  <2>3. /\ NoAnswers(x.rest)
        /\ \/ x.phone = Serve(phone, req).phone /\ x.heard = Serve(phone, req).answer
           \/ x.phone = phone /\ x.heard = Refusal(req)
    BY <1>0, <1>3, <2>1, <2>2, ExchangeSpotless
  <2>4. Granted(Refusal(req)) = {}
    BY <1>0, RefusalOK
  <2>5. \/ Serve(phone, req).answer = Refusal(req)
        \/ \E k \in 0 .. MaxOpen :
             /\ Counted(Serve(phone, req).phone.open) =
                  Counted(phone.open) \cup {<<kind, k>>}
             /\ Granted(Serve(phone, req).answer) = {<<kind, k>>}
    BY <1>0, <1>3, ServesOpening DEF kind
  <2>6. OpenHandles' = OpenHandles \cup {<<kind, h>>}
    BY <1>2, <2>1, <2>3, <2>4, <2>5, HandleNames
  <2> QED
    BY <1>2, <2>1, <2>2, <2>3, <2>6
<1>14. faults' \in 0 .. MaxFaults
  BY <1>1, FaultsCounted DEF Core
<1>15. Core'
  BY <1>1, <1>2, <1>4, <1>9, <1>10, <1>11, <1>12, <1>13, <1>14
     DEF Core, Unspoilt
<1>16. [Table!Next]_(Table!vars)
  <2>1. ASSUME NEW h, h \notin OpenHandles, o = OpenHandles \cup {h}
        PROVE  Table!Open(h) /\ h \in OpenHandles' \ OpenHandles
    BY <1>6, <1>9, <2>1 DEF Table!Open
  <2>2. ASSUME SameFiles(phone, x.phone)
        PROVE  OpenHandles' = OpenHandles
    BY <1>2, <2>2, HandleNames DEF SameFiles
  <2>3. ASSUME OpenHandles' = OpenHandles, HeldHandles' \subseteq HeldHandles
        PROVE  Table!Forget
    BY <2>3 DEF Table!Forget
  <2>4. ASSUME OpenHandles' = OpenHandles, NEW h,
               HeldHandles' = HeldHandles \cup {<<kind, h>>}
        PROVE  Table!Find(<<kind, h>>) /\ <<kind, h>> \in OpenHandles
    BY <1>9, <2>4 DEF Table!Find
  <2> QED
    BY <1>5, <1>7, <2>1, <2>2, <2>3, <2>4 DEF Table!Next
<1> QED
  BY <1>15, <1>16

LEMMA GivingStep ==
  ASSUME OpensComeWhole, Core, NEW req, NEW y, Giving(req, y)
  PROVE  Core' /\ [Table!Next]_(Table!vars)
<1>0. /\ EfsReq(req) /\ Req(req) /\ req.sub \in Closing
      /\ y \in held /\ HandleOf(y) = ClosedBy(req)
      /\ held' \subseteq held \ {y}
  BY DEF Giving, Req
<1>1. PICK x \in Exchanges(req) :
        /\ Takes(x)
        /\ Unspoilt(req, x)
        /\ spotless' => held' = held \ {y} /\ ~ ErrorIn(x.heard) /\ ~ Aborting'
  BY DEF Giving
<1>2. phone' = x.phone /\ rx' = x.rest
  BY <1>1 DEF Takes
<1>a. y[1] # "image"
  BY <1>0 DEF HandleOf, ClosedBy, HandleKind, Closing
<1> DEFINE w == HeldHandles
           o == Counted(x.phone.open)
           c == ClosedBy(req)
<1>3. w \subseteq OpenHandles /\ QueueOK(rx, OpenHandles, w) /\ PhoneOK(phone) /\ c \in w
  BY <1>0, <1>a, HandleNames DEF Core, Owned
<1>b. HandlesOK(held)
  BY DEF Core
<1> HIDE DEF w
<1>4. /\ PhoneOK(x.phone)
      /\ QueueOK(x.rest, o, w \cup Granted(x.heard))
  BY <1>0, <1>3, ExchangeQueue
<1>5. \/ SameFiles(phone, x.phone)
      \/ o = OpenHandles \ {c} /\ Kept(phone, x.phone, o)
  BY <1>0, <1>3, ExchangeHandles DEF Closing
<1>6. /\ OpenHandles' = o
      /\ o = OpenHandles \/ o = OpenHandles \ {c}
      /\ Kept(phone, x.phone, o)
  BY <1>2, <1>5, HandleNames DEF SameFiles, Kept
<1> HIDE DEF o
<1>7. /\ HeldHandles' \subseteq w \ {c}
      /\ held' = held \ {y} => HeldHandles' = w \ {c}
  BY <1>0, <1>a, <1>b, OwnedLess, HandleNames DEF w
<1> HIDE DEF c
<1>9. HeldHandles' \subseteq OpenHandles'
  BY <1>3, <1>6, <1>7
<1>10. HandlesOK(held')
  BY <1>0 DEF Core, HandlesOK
<1>11. QueueOK(rx', OpenHandles', HeldHandles')
  <2> DEFINE w2 == HeldHandles'
             g == w \cup Granted(x.heard)
             q == x.rest
  <2>1. QueueOK(q, o, g)
    BY <1>4
  <2>2. o \ g \subseteq o /\ w2 \cap o \subseteq g
    BY <1>7
  <2> HIDE DEF w2, g, q
  <2>3. QueueOK(q, o, w2)
    BY <2>1, <2>2, QueueMono
  <2> QED
    BY <1>2, <1>6, <2>3 DEF w2, q
<1>12. (InStep => OpenedFor(phone, held))'
  <2> SUFFICES ASSUME InStep'
               PROVE  OpenedFor(phone', held')
    OBVIOUS
  <2>1. x.rest = <<>> /\ x.phone.mode = "diag"
    BY <1>2 DEF InStep
  <2>2. InStep
    BY <1>3, <2>1, ExchangeInStep DEF QueueOK
  <2>3. OpenedFor(phone, held)
    BY <2>2 DEF Core
  <2>4. ASSUME NEW z \in held', z[1] # "image"
        PROVE  phone'.open[HandleOf(z)] = Trimmed(z[3])
    <3>1. HandleOf(z) \in HeldHandles'
      BY <2>4, HandleNames DEF Owned
    <3>2. z \in held /\ HandleOf(z) \in o
      BY <1>0, <1>6, <1>9, <2>4, <3>1
    <3> QED
      BY <1>2, <1>6, <2>3, <2>4, <3>2 DEF Kept, OpenedFor
  <2> QED
    BY <2>4 DEF OpenedFor
<1>13. ASSUME spotless'
       PROVE  OpenHandles' = HeldHandles' /\ NoAnswers(rx')
  <2>2. /\ spotless /\ ~ Aborting
        /\ NoAnswers(rx) /\ rx \in Seq(Range(rx))
        /\ OpenHandles = HeldHandles
        /\ x.heard # Silence /\ ~ SendThrows(req, x.heard)
        /\ held' = held \ {y} /\ ~ ErrorIn(x.heard)
    BY <1>1, <1>13 DEF Core, QueueOK, Unspoilt
  <2>3. /\ NoAnswers(x.rest)
        /\ \/ x.phone = Serve(phone, req).phone
           \/ x.phone = phone /\ x.heard = Refusal(req)
    BY <1>0, <1>3, <2>2, ExchangeSpotless
  <2>4. x.phone = Serve(phone, req).phone
    BY <1>0, <2>2, <2>3, RefusedClose
  <2>5. Counted(Serve(phone, req).phone.open) = Counted(phone.open) \ {c}
    BY <1>0, <1>3, ServesClosing, HandleNames DEF c
  <2>6. OpenHandles' = OpenHandles \ {c}
    BY <1>2, <2>4, <2>5, HandleNames
  <2> QED
    BY <1>2, <1>7, <2>2, <2>3, <2>6 DEF w
<1>14. faults' \in 0 .. MaxFaults
  BY <1>1, FaultsCounted DEF Core
<1>15. Core'
  BY <1>1, <1>2, <1>4, <1>9, <1>10, <1>11, <1>12, <1>13, <1>14
     DEF Core, Unspoilt
<1>16. [Table!Next]_(Table!vars)
  <2>1. ASSUME o = OpenHandles \ {c}
        PROVE  Table!Close(c) /\ c \in HeldHandles
    BY <1>3, <1>6, <1>7, <2>1 DEF Table!Close, w
  <2>2. ASSUME o = OpenHandles
        PROVE  Table!Forget
    BY <1>6, <1>7, <2>2 DEF Table!Forget, w
  <2> QED
    BY <1>6, <2>1, <2>2 DEF Table!Next
<1> QED
  BY <1>15, <1>16

LEMMA QuietStep ==
  ASSUME Core, Quiet
  PROVE  Core' /\ [Table!Next]_(Table!vars)
<1>0. UNCHANGED <<phone, rx, faults>> /\ held' \subseteq held
  BY DEF Quiet, lineVars
<1>1. /\ OpenHandles' = OpenHandles
      /\ HeldHandles' \subseteq HeldHandles
      /\ held' = held => HeldHandles' = HeldHandles
  BY <1>0, HandleNames DEF Owned
<1>2. HandlesOK(held')
  BY <1>0 DEF Core, HandlesOK
<1>3. QueueOK(rx', OpenHandles', HeldHandles')
  <2> DEFINE o == OpenHandles
             w == HeldHandles
             w2 == HeldHandles'
  <2>1. QueueOK(rx, o, w) /\ o \ w \subseteq o /\ w2 \cap o \subseteq w
    BY <1>1 DEF Core
  <2> HIDE DEF o, w, w2
  <2>2. QueueOK(rx, o, w2)
    BY <2>1, QueueMono
  <2> QED
    BY <1>0, <1>1, <2>2 DEF o, w2
<1>4. (InStep => OpenedFor(phone, held))'
  BY <1>0 DEF Core, InStep, OpenedFor
<1>5. Core'
  BY <1>0, <1>1, <1>2, <1>3, <1>4 DEF Core, Quiet
<1>6. Table!Forget
  BY <1>1 DEF Table!Forget
<1> QED
  BY <1>5, <1>6 DEF Table!Next

LEMMA LeavingStep ==
  ASSUME Core, Leaving
  PROVE  Core' /\ [Table!Next]_(Table!vars)
<1>0. /\ UNCHANGED <<phone, faults>> /\ held' = {}
      /\ rx' = rx \/ rx' = <<>>
      /\ spotless' = (spotless /\ held = {})
      /\ ~ Aborting
  BY DEF Leaving, PortReopens
<1>1. /\ OpenHandles' = OpenHandles
      /\ HeldHandles' = {}
      /\ held = {} => HeldHandles = {}
  BY <1>0, HandleNames DEF Owned
<1>2. HandlesOK(held') /\ OpenedFor(phone', held')
  BY <1>0 DEF HandlesOK, OpenedFor
<1>3. QueueOK(rx', OpenHandles', HeldHandles')
  <2> DEFINE o == OpenHandles
             w == HeldHandles
             none == HeldHandles'
  <2>1. QueueOK(rx, o, w) /\ o \ w \subseteq o /\ none \cap o \subseteq w
    BY <1>1 DEF Core
  <2> HIDE DEF o, w, none
  <2>2. QueueOK(rx, o, none)
    BY <2>1, QueueMono
  <2>3. QueueOK(<<>>, o, none)
    BY QueueEmpty
  <2> QED
    BY <1>0, <1>1, <2>2, <2>3 DEF o, none
<1>4. NoAnswers(rx) => NoAnswers(rx')
  BY <1>0, NoAnswersEmpty
<1>5. Core'
  BY <1>0, <1>1, <1>2, <1>3, <1>4 DEF Core
<1>6. Table!Forget
  BY <1>1 DEF Table!Forget
<1> QED
  BY <1>5, <1>6 DEF Table!Next

LEMMA BootingStep ==
  ASSUME Core, Booting
  PROVE  Core' /\ [Table!Next]_(Table!vars)
<1>0. /\ phone' = [phone EXCEPT !.open = <<>>, !.mode = "diag"]
      /\ rx' = <<>> /\ faults' = faults /\ held' = {} /\ spotless' = TRUE
  BY DEF Booting, PhoneStarts, Booted
<1>1. PhoneOK(phone)
  BY DEF Core
<1>2. PhoneOK(phone') /\ DOMAIN phone'.open = {}
  <2>1. phone' = [tree |-> phone.tree, open |-> <<>>, nv |-> phone.nv, mode |-> "diag"]
    BY <1>0, <1>1 DEF PhoneOK
  <2>2. DOMAIN <<>> = {}
    OBVIOUS
  <2> QED
    BY <1>1, <2>1, <2>2 DEF PhoneOK
<1>3. OpenHandles' = {} /\ HeldHandles' = {}
  BY <1>0, <1>2, HandleNames DEF Counted, Owned
<1>4. HandlesOK(held') /\ OpenedFor(phone', held')
  BY <1>0 DEF HandlesOK, OpenedFor
<1>5. QueueOK(rx', OpenHandles', HeldHandles') /\ NoAnswers(rx')
  BY <1>0, QueueEmpty, NoAnswersEmpty
<1>6. Core'
  BY <1>0, <1>2, <1>3, <1>4, <1>5 DEF Core
<1>7. Table!Restart
  BY <1>3 DEF Table!Restart
<1> QED
  BY <1>6, <1>7 DEF Table!Next

LEMMA ShapedStep ==
  ASSUME OpensComeWhole, Core, Shaped
  PROVE  Core' /\ [Table!Next]_(Table!vars)
BY KeepingStep, AskingStep, TakingStep, GivingStep, QuietStep, LeavingStep,
   BootingStep DEF Shaped

----------------------------------------------------------------------------
(* Ends, beginnings and steps of a method.                                  *)

LEMMA NotReadNv ==
  ASSUME last'.op # "readNV" \/ last'.ret # "ok"
  PROVE  NvReadIsPhones'
BY DEF NvReadIsPhones

LEMMA EndsWell ==
  ASSUME spotless \in BOOLEAN,
         NEW op, NEW ret \in {"ok", "zero", "throws", "dies"}, NEW arg, NEW value,
         Ends(op, ret, arg, value), op # "readNV"
  PROVE  /\ After
         /\ ~ Running' /\ ~ Aborting'
         /\ spotless' = (spotless /\ ret = "ok")
         /\ spotless' \in BOOLEAN
<1>1. /\ last'.ret = ret /\ last'.op # "readNV"
      /\ call' = [op |-> "none"]
      /\ spotless' = (spotless /\ ret = "ok")
  BY DEF Ends, Ended, NotRunning
<1>2. ~ Running' /\ ~ Aborting'
  BY <1>1 DEF Running, Aborting
<1>3. CallOK'
  BY <1>1, <1>2 DEF CallOK
<1>4. LastOK'
  BY <1>1, <1>2 DEF LastOK, Rets, Running
<1> QED
  BY <1>1, <1>2, <1>3, <1>4, NotReadNv DEF After

GoodLocals(c, handles) ==
  /\ c = [x \in DOMAIN c |-> c[x]]
  /\ {"op", "at", "x"} \subseteq DOMAIN c
  /\ c.op # "none"
  /\ c.at # "open" => c.x \in handles /\ c.x[1] = CallKind(c.op)

LEMMA StartsWell ==
  ASSUME NEW op, NEW c, call' = c, Ended(op, "running", "none", "none"),
         op # "readNV", GoodLocals(c, held')
  PROVE  After /\ (Aborting' <=> c.at = "abort")
<1>1. /\ last'.ret = "running" /\ call' = c /\ last'.op # "readNV"
  BY DEF Ended
<1>2. Running' /\ CallOK' /\ (Aborting' <=> c.at = "abort")
  BY <1>1 DEF Running, CallOK, GoodLocals, Aborting
<1>3. LastOK'
  BY <1>1, <1>2 DEF LastOK, Rets, Running
<1> QED
  BY <1>1, <1>2, <1>3, NotReadNv DEF After

LEMMA GoesWell ==
  ASSUME LastOK, Running, NEW c, Goes(c), GoodLocals(c, held')
  PROVE  After /\ (Aborting' <=> c.at = "abort") /\ spotless' = spotless
<1>1. last' = last /\ last.ret = "running" /\ call' = c /\ spotless' = spotless
  BY DEF Goes, LastOK
<1>2. Running' /\ CallOK' /\ (Aborting' <=> c.at = "abort")
  BY <1>1 DEF Running, CallOK, GoodLocals, Aborting
<1>3. LastOK'
  BY <1>1, <1>2 DEF LastOK, Rets, Running
<1> QED
  BY <1>1, <1>2, <1>3, NotReadNv DEF After

LEMMA FailsWell ==
  ASSUME spotless \in BOOLEAN, NEW op, Fails(op) \/ Dies(op), op # "readNV"
  PROVE  After /\ spotless' = FALSE /\ ~ Aborting' /\ ~ Running'
<1>1. PICK ret \in {"throws", "dies"} : Ends(op, ret, "none", "none")
  BY DEF Fails, Dies
<1> QED
  BY <1>1, EndsWell

----------------------------------------------------------------------------
(* Requests.                                                                *)

LEMMA JoinedRequest ==
  ASSUME NEW r, NEW g, DOMAIN r = {"cmd", "sub", "room"}
  PROVE  /\ (r ++ g).cmd = r.cmd
         /\ (r ++ g).sub = r.sub
         /\ "h" \in DOMAIN g => (r ++ g).h = g["h"]
         /\ "path" \in DOMAIN g => (r ++ g).path = g["path"]
         /\ DOMAIN (r ++ g) = {"cmd", "sub", "room"} \cup DOMAIN g
BY DEF ++

LEMMA EfsRequestIs ==
  ASSUME NEW sub \in DOMAIN Answers
  PROVE  /\ EfsReq(EfsRequest(sub))
         /\ EfsRequest(sub).sub = sub
         /\ EfsRequest(sub).cmd = "subsys"
         /\ DOMAIN EfsRequest(sub) = {"cmd", "sub", "room"}
BY DEF EfsReq, EfsRequest

LEMMA JoinedEfsRequest ==
  ASSUME NEW sub \in DOMAIN Answers, NEW g
  PROVE  LET r == EfsRequest(sub) ++ g
         IN  /\ EfsReq(r)
             /\ r.sub = sub
             /\ "h" \in DOMAIN g => r.h = g["h"]
             /\ "path" \in DOMAIN g => r.path = g["path"]
             /\ DOMAIN r = {"cmd", "sub", "room"} \cup DOMAIN g
<1> DEFINE q == EfsRequest(sub)
           r == q ++ g
<1>1. q.cmd = "subsys" /\ q.sub = sub /\ DOMAIN q = {"cmd", "sub", "room"}
  BY EfsRequestIs
<1> HIDE DEF q
<1>2. /\ r.cmd = q.cmd
      /\ r.sub = q.sub
      /\ "h" \in DOMAIN g => r.h = g["h"]
      /\ "path" \in DOMAIN g => r.path = g["path"]
      /\ DOMAIN r = {"cmd", "sub", "room"} \cup DOMAIN g
  BY <1>1, JoinedRequest
<1> HIDE DEF r
<1> QED
  BY <1>1, <1>2 DEF EfsReq, r, q

LEMMA PathRequestIs ==
  ASSUME NEW sub \in DOMAIN Answers, NEW path
  PROVE  /\ EfsReq(PathRequest(sub, path))
         /\ PathRequest(sub, path).sub = sub
         /\ PathRequest(sub, path).path = path
         /\ DOMAIN PathRequest(sub, path) = {"cmd", "sub", "room", "path", "creates"}
<1> DEFINE g == [path |-> path, creates |-> FALSE]
           r == EfsRequest(sub) ++ g
<1>1. PathRequest(sub, path) = r
  BY DEF PathRequest
<1>2. DOMAIN g = {"path", "creates"} /\ g["path"] = path
  OBVIOUS
<1> HIDE DEF g
<1>3. /\ EfsReq(r)
      /\ r.sub = sub
      /\ "path" \in DOMAIN g => r.path = g["path"]
      /\ DOMAIN r = {"cmd", "sub", "room"} \cup DOMAIN g
  BY JoinedEfsRequest
<1> HIDE DEF r
<1> QED
  BY <1>1, <1>2, <1>3

LEMMA HandleRequestIs ==
  ASSUME NEW sub \in DOMAIN Answers, NEW h
  PROVE  /\ EfsReq(HandleRequest(sub, h))
         /\ HandleRequest(sub, h).sub = sub
         /\ HandleRequest(sub, h).h = h
         /\ DOMAIN HandleRequest(sub, h) = {"cmd", "sub", "room", "h"}
<1> DEFINE g == [h |-> h]
           r == EfsRequest(sub) ++ g
<1>1. HandleRequest(sub, h) = r
  BY DEF HandleRequest
<1>2. DOMAIN g = {"h"} /\ g["h"] = h
  OBVIOUS
<1> HIDE DEF g
<1>3. /\ EfsReq(r)
      /\ r.sub = sub
      /\ "h" \in DOMAIN g => r.h = g["h"]
      /\ DOMAIN r = {"cmd", "sub", "room"} \cup DOMAIN g
  BY JoinedEfsRequest
<1> HIDE DEF r
<1> QED
  BY <1>1, <1>2, <1>3

LEMMA HalfRequestIs ==
  ASSUME NEW sub \in DOMAIN Answers, NEW path
  PROVE  EfsReq(HalfRequest(sub, path)) /\ HalfRequest(sub, path).sub = sub
<1> DEFINE g == [path |-> Arriving(sub, path, PointerSize)]
           r == EfsRequest(sub) ++ g
<1>1. HalfRequest(sub, path) = r
  BY DEF HalfRequest
<1> HIDE DEF g
<1>2. EfsReq(r) /\ r.sub = sub
  BY JoinedEfsRequest
<1> HIDE DEF r
<1> QED
  BY <1>1, <1>2

(* The request that goes with a handle and more fields. *)
LEMMA FieldsAre ==
  ASSUME NEW q, NEW g, DOMAIN q = {"cmd", "sub", "room", "h"},
         DOMAIN q \cap DOMAIN g = {}
  PROVE  /\ \A y \in DOMAIN q : (q ++ g)[y] = q[y]
         /\ \A y \in DOMAIN g : (q ++ g)[y] = g[y]
BY DEF ++

LEMMA WriteRequestIs ==
  ASSUME NEW h, NEW data, NEW offset
  PROVE  LET r == WriteRequest(h, data, offset)
         IN  /\ EfsReq(r) /\ r.sub = "Write"
             /\ r.h = h /\ r.data = data /\ r.offset = offset
<1> DEFINE q == HandleRequest("Write", h)
           f == [data |-> data, offset |-> offset]
<1>1. /\ EfsReq(q) /\ q.sub = "Write" /\ q.h = h
      /\ DOMAIN q = {"cmd", "sub", "room", "h"}
  BY AnswerTable, HandleRequestIs
<1>2. DOMAIN f = {"data", "offset"} /\ f["data"] = data /\ f["offset"] = offset
  OBVIOUS
<1> DEFINE r == q ++ f
<1>3. WriteRequest(h, data, offset) = r
  BY DEF WriteRequest
<1> HIDE DEF q, f
<1>4. /\ r["cmd"] = q["cmd"] /\ r["sub"] = q["sub"] /\ r["h"] = q["h"]
      /\ r["data"] = f["data"] /\ r["offset"] = f["offset"]
  BY <1>1, <1>2, FieldsAre
<1> HIDE DEF r
<1> QED
  BY <1>1, <1>2, <1>3, <1>4 DEF EfsReq

LEMMA TruncateRequestIs ==
  ASSUME NEW h
  PROVE  LET r == HandleRequest("Ftruncate", h) ++ [size |-> 0]
         IN  EfsReq(r) /\ r.sub = "Ftruncate" /\ r.size = 0
<1> DEFINE q == HandleRequest("Ftruncate", h)
           f == [size |-> 0]
           r == q ++ f
<1>1. /\ EfsReq(q) /\ q.sub = "Ftruncate"
      /\ DOMAIN q = {"cmd", "sub", "room", "h"}
  BY AnswerTable, HandleRequestIs
<1>2. DOMAIN f = {"size"} /\ f["size"] = 0
  OBVIOUS
<1> HIDE DEF q, f
<1>3. r["cmd"] = q["cmd"] /\ r["sub"] = q["sub"] /\ r["size"] = f["size"]
  BY <1>1, <1>2, FieldsAre
<1> HIDE DEF r
<1>4. EfsReq(r) /\ r.sub = "Ftruncate" /\ r.size = 0
  BY <1>1, <1>2, <1>3 DEF EfsReq
<1> QED
  BY <1>4 DEF r, q, f

(* Fields that are put to a request do not change what it asks for.         *)
LEMMA StillEfs ==
  ASSUME NEW req, EfsReq(req), {"cmd", "sub"} \subseteq DOMAIN req, NEW g
  PROVE  /\ EfsReq(InLargeBuffer(req)) /\ InLargeBuffer(req).sub = req.sub
         /\ DOMAIN InLargeBuffer(req) = DOMAIN req
         /\ EfsReq(req ++ g) /\ (req ++ g).sub = req.sub
<1>1. /\ InLargeBuffer(req).cmd = req.cmd
      /\ InLargeBuffer(req).sub = req.sub
      /\ DOMAIN InLargeBuffer(req) = DOMAIN req
  BY DEF InLargeBuffer
<1>2. (req ++ g).cmd = req.cmd /\ (req ++ g).sub = req.sub
  BY DEF ++
<1> QED
  BY <1>1, <1>2 DEF EfsReq

----------------------------------------------------------------------------
(* Methods of one request.                                                  *)

LEMMA NotRunningOK ==
  ASSUME ~ Running
  PROVE  ~ Aborting
BY DEF Aborting

LEMMA InvalidStep ==
  ASSUME spotless \in BOOLEAN, NEW op, Invalid(op), op # "readNV"
  PROVE  Shaped /\ After
<1>1. Fails(op) /\ UNCHANGED <<lineVars, held>>
  BY DEF Invalid
<1>2. After /\ spotless' = FALSE
  BY <1>1, FailsWell
<1>3. Quiet
  BY <1>1, <1>2 DEF Quiet
<1> QED
  BY <1>2, <1>3 DEF Shaped

LEMMA SimpleStep ==
  ASSUME spotless \in BOOLEAN, ~ Running, NEW op, op # "readNV",
         NEW req, PlainReq(req), Simple(op, req, TRUE) \/ Simple(op, req, FALSE)
  PROVE  Shaped /\ After
<1>1. PICK x \in Exchanges(req) :
        /\ Takes(x)
        /\ \/ Dies(op) /\ x.heard = Silence
           \/ Fails(op) /\ UNCHANGED held
           \/ /\ Ends(op, "ok", "none", "none")
              /\ UNCHANGED held
              /\ x.heard # Silence
              /\ ~ SendThrows(req, x.heard)
  BY DEF Simple, SendCommand
<1>2. CASE Fails(op) \/ Dies(op)
  <2>1. After /\ spotless' = FALSE
    BY <1>2, FailsWell
  <2>2. held' = held \/ held' = {}
    BY <1>1, <1>2, <2>1 DEF Dies, Ends
  <2>3. Keeping(req)
    BY <1>1, <2>1, <2>2 DEF Keeping, Unspoilt, KeepsFiles
  <2> QED
    BY <2>1, <2>3 DEF Shaped
<1>3. CASE /\ Ends(op, "ok", "none", "none")
           /\ UNCHANGED held
           /\ x.heard # Silence
           /\ ~ SendThrows(req, x.heard)
  <2>1. After /\ spotless' = (spotless /\ TRUE) /\ ~ Aborting
    BY <1>3, EndsWell, NotRunningOK
  <2>2. Keeping(req)
    BY <1>1, <1>3, <2>1 DEF Keeping, Unspoilt, KeepsFiles, Files
  <2> QED
    BY <2>1, <2>2 DEF Shaped
<1> QED
  BY <1>1, <1>2, <1>3

(* Most methods are such a call. *)
SimpleCall ==
  \E op, req :
    /\ op \notin {"readNV", "readDir", "readPath", "get", "put"}
    /\ \/ Invalid(op)
       \/ PlainReq(req) /\ (Simple(op, req, TRUE) \/ Simple(op, req, FALSE))

LEMMA SimpleCallStep ==
  ASSUME spotless \in BOOLEAN, ~ Running, SimpleCall
  PROVE  Shaped /\ After
BY SimpleStep, InvalidStep DEF SimpleCall

LEMMA PlainRequests ==
  ASSUME NEW sub \in DOMAIN Answers, sub \notin {"Open", "OpenDir", "Close", "CloseDir"},
         sub \notin Changing
  PROVE  /\ PlainReq(EfsRequest(sub))
         /\ \A path : PlainReq(PathRequest(sub, path))
         /\ \A path : PlainReq(HalfRequest(sub, path))
         /\ \A h : PlainReq(HandleRequest(sub, h))
BY EfsRequestIs, PathRequestIs, HalfRequestIs, HandleRequestIs
   DEF PlainReq, Closing, Sound, Changing

(* With more fields, or room for a longer answer. *)
LEMMA PlainRequestsGrow ==
  ASSUME NEW sub \in DOMAIN Answers, sub \notin {"Open", "OpenDir", "Close", "CloseDir"},
         sub \notin Changing, NEW req, EfsReq(req), req.sub = sub,
         {"cmd", "sub"} \subseteq DOMAIN req, NEW g
  PROVE  /\ PlainReq(InLargeBuffer(req))
         /\ PlainReq(req ++ g)
         /\ PlainReq(InLargeBuffer(req) ++ g)
<1> DEFINE l == InLargeBuffer(req)
<1>1. /\ EfsReq(l) /\ l.sub = sub /\ DOMAIN l = DOMAIN req
      /\ EfsReq(req ++ g) /\ (req ++ g).sub = sub
  BY StillEfs
<1> HIDE DEF l
<1>2. EfsReq(l ++ g) /\ (l ++ g).sub = sub
  BY <1>1, StillEfs
<1> QED
  BY <1>1, <1>2 DEF PlainReq, Closing, l, Sound, Changing

LEMMA SessionCalls ==
  ASSUME Hello \/ Query \/ GetDeviceInfo
  PROVE  SimpleCall
<1>1. \A sub \in {"Hello", "Query", "DevInfo"} : PlainReq(EfsRequest(sub))
  BY AnswerTable, PlainRequests DEF Changing
<1> QED
  BY <1>1 DEF Hello, Query, GetDeviceInfo, SimpleCall

LEMMA NamingCalls ==
  ASSUME Symlink \/ ReadSimlink \/ Unlink \/ Mkdir \/ Rmdir
  PROVE  SimpleCall
<1>1. \A path : PlainReq(PathRequest("Unlink", path))
  BY AnswerTable, PlainRequests DEF Changing
<1>2. CASE Symlink
  <2>1. PICK path \in Paths, link \in Paths :
          \/ Invalid("symlink")
          \/ Simple("symlink", PathRequest("Symlink", path) ++ [link |-> link], TRUE)
    BY <1>2 DEF Symlink
  <2> DEFINE g == [link |-> link]
             q == PathRequest("Symlink", path)
  <2>2. /\ "Symlink" \in DOMAIN Answers
        /\ EfsReq(q) /\ q.sub = "Symlink" /\ {"cmd", "sub"} \subseteq DOMAIN q
    BY AnswerTable, PathRequestIs
  <2>3. /\ DOMAIN q = {"cmd", "sub", "room", "path", "creates"}
        /\ DOMAIN g = {"link"} /\ g["link"] = link
    BY AnswerTable, PathRequestIs
  <2> HIDE DEF q, g
  <2>4. EfsReq(q ++ g) /\ (q ++ g).sub = "Symlink"
    BY <2>2, StillEfs
  <2>5. (q ++ g).link = link
    BY <2>3 DEF ++
  <2>6. PlainReq(q ++ g)
    BY <2>4, <2>5, PathsAssumption DEF PlainReq, Closing, Sound
  <2> QED
    BY <2>1, <2>6 DEF SimpleCall, q, g
<1>3. CASE ReadSimlink
  <2>1. PICK path \in Paths :
          \/ Invalid("readSimlink")
          \/ Simple("readSimlink", InLargeBuffer(PathRequest("ReadLink", path)), TRUE)
    BY <1>3 DEF ReadSimlink, Named
  <2> DEFINE q == PathRequest("ReadLink", path)
  <2>2. /\ "ReadLink" \in DOMAIN Answers
        /\ EfsReq(q) /\ q.sub = "ReadLink" /\ {"cmd", "sub"} \subseteq DOMAIN q
    BY AnswerTable, PathRequestIs
  <2> HIDE DEF q
  <2>3. PlainReq(InLargeBuffer(q))
    BY <2>2, PlainRequestsGrow DEF Changing
  <2> QED
    BY <2>1, <2>3 DEF SimpleCall, q
<1>4. CASE Unlink
  BY <1>1, <1>4 DEF Unlink, Named, SimpleCall
<1>5. ASSUME NEW sub \in {"Mkdir", "Rmdir"}, NEW path \in Paths
      PROVE  PlainReq(PathRequest(sub, path))
  <2> DEFINE q == PathRequest(sub, path)
  <2>1. EfsReq(q) /\ q.sub = sub /\ q.path = path
    BY AnswerTable, PathRequestIs
  <2> HIDE DEF q
  <2>2. PlainReq(q)
    BY <2>1, PathsAssumption DEF PlainReq, Closing, Sound
  <2> QED
    BY <2>2 DEF q
<1>6. CASE Mkdir \/ Rmdir
  BY <1>5, <1>6 DEF Mkdir, Rmdir, Named, SimpleCall
<1> QED
  BY <1>2, <1>3, <1>4, <1>6

LEMMA HalfCalls ==
  ASSUME \/ Stat \/ Lstat \/ Chmod \/ Statfs \/ Chown \/ SetQuota \/ Deltree
         \/ Truncate \/ StatfsV2 \/ FormatHotplugDevice \/ Shred \/ SyncNoWait
         \/ GetSyncStatus \/ MakeGoldenCopy
  PROVE  SimpleCall
<1> DEFINE Subs == {"Stat", "Lstat", "Chmod", "StatFS", "Chown", "SetQuota", "Deltree",
                    "Truncate", "StatVFS_V2", "HotplugFormat", "Shred", "SyncNoWait",
                    "SyncGetStatus", "MakeGoldenCopy"}
<1>1. \A sub \in Subs : \A path : PlainReq(HalfRequest(sub, path))
  BY AnswerTable, PlainRequests DEF Changing
<1>2. ASSUME NEW op, op \notin {"readNV", "readDir", "readPath", "get", "put"},
             NEW sub \in Subs,
             HalfCall(op, sub, TRUE) \/ HalfCall(op, sub, FALSE)
      PROVE  SimpleCall
  BY <1>1, <1>2 DEF HalfCall, SimpleCall
<1>3. CASE StatfsV2
  BY <1>1, <1>3 DEF StatfsV2, SimpleCall
<1>4. CASE Truncate \/ GetSyncStatus
  <2>1. \/ Invalid("truncate") \/ Invalid("getSyncStatus")
        \/ HalfCall("truncate", "Truncate", TRUE)
        \/ HalfCall("getSyncStatus", "SyncGetStatus", TRUE)
    BY <1>4 DEF Truncate, GetSyncStatus
  <2>2. Invalid("truncate") \/ Invalid("getSyncStatus") => SimpleCall
    BY DEF SimpleCall
  <2> QED
    BY <1>2, <2>1, <2>2
<1>5. CASE \/ Stat \/ Lstat \/ Chmod \/ Statfs \/ Chown \/ SetQuota \/ Deltree
           \/ FormatHotplugDevice \/ Shred \/ SyncNoWait \/ MakeGoldenCopy
  BY <1>2, <1>5
     DEF Stat, Lstat, Chmod, Statfs, Chown, SetQuota, Deltree, FormatHotplugDevice,
         Shred, SyncNoWait, MakeGoldenCopy
<1> QED
  BY <1>3, <1>4, <1>5

LEMMA PathlessCalls ==
  ASSUME Rename \/ Md5sum
  PROVE  SimpleCall
<1>1. ASSUME NEW op, op \notin {"readNV", "readDir", "readPath", "get", "put"},
             NEW sub \in {"Rename", "Md5Sum"}, Pathless(op, sub)
      PROVE  SimpleCall
  <2> DEFINE g == [path |-> Cut]
             q == EfsRequest(sub)
  <2>1. \/ Invalid(op)
        \/ Simple(op, q ++ g, TRUE)
    BY <1>1 DEF Pathless
  <2>2. /\ sub \in DOMAIN Answers
        /\ EfsReq(q) /\ q.sub = sub /\ {"cmd", "sub"} \subseteq DOMAIN q
    BY AnswerTable, EfsRequestIs
  <2> HIDE DEF q, g
  <2>3. PlainReq(q ++ g)
    BY <2>2, PlainRequestsGrow DEF Changing
  <2> QED
    BY <1>1, <2>1, <2>3 DEF SimpleCall
<1> QED
  BY <1>1 DEF Rename, Md5sum

LEMMA BareStep ==
  ASSUME spotless \in BOOLEAN, ~ Running, NEW op, op # "readNV",
         NEW sub \in {"Access", "GetGroupInfo", "FactoryImageStart"}, NEW room,
         BareCall(op, sub, room)
  PROVE  Shaped /\ After
<1> DEFINE q == [EfsRequest(sub) EXCEPT !.room = room]
           g == [path |-> Cut]
           req == q ++ g
<1>1. PICK x \in Exchanges(req) :
        /\ Takes(x)
        /\ \/ Dies(op) /\ x.heard = Silence
           \/ Fails(op) /\ UNCHANGED held
           \/ /\ \E ret \in {"zero", "ok"} : Ends(op, ret, "none", "none")
              /\ UNCHANGED held
              /\ x.heard # Silence
              /\ ~ SendThrows(req, x.heard)
  BY DEF BareCall, SendCommand
<1>2. PlainReq(req)
  <2>1. /\ sub \in DOMAIN Answers
        /\ sub \notin Closing \cup {"Open", "OpenDir"}
    BY AnswerTable DEF Closing
  <2>2. q.cmd = "subsys" /\ q.sub = sub /\ DOMAIN q = {"cmd", "sub", "room"}
    BY DEF EfsRequest
  <2> HIDE DEF q, g
  <2>3. req.cmd = "subsys" /\ req.sub = sub
    BY <2>2, JoinedRequest
  <2> HIDE DEF req
  <2> QED
    BY <2>1, <2>3 DEF PlainReq, EfsReq, Sound
<1> HIDE DEF req
<1>3. CASE Fails(op) \/ Dies(op)
  <2>1. After /\ spotless' = FALSE
    BY <1>3, FailsWell
  <2>2. held' = held \/ held' = {}
    BY <1>1, <1>3, <2>1 DEF Dies, Ends
  <2>3. Keeping(req)
    BY <1>1, <1>2, <2>1, <2>2 DEF Keeping, Unspoilt, KeepsFiles
  <2> QED
    BY <2>1, <2>3 DEF Shaped
<1>4. ASSUME NEW ret \in {"zero", "ok"}, Ends(op, ret, "none", "none"),
             UNCHANGED held, x.heard # Silence, ~ SendThrows(req, x.heard)
      PROVE  Shaped /\ After
  <2>1. After /\ spotless' = (spotless /\ ret = "ok") /\ ~ Aborting
    BY <1>4, EndsWell, NotRunningOK
  <2>2. Keeping(req)
    BY <1>1, <1>2, <1>4, <2>1 DEF Keeping, Unspoilt, KeepsFiles, Files
  <2> QED
    BY <2>1, <2>2 DEF Shaped
<1> QED
  BY <1>1, <1>3, <1>4

LEMMA BareCalls ==
  ASSUME spotless \in BOOLEAN, ~ Running, Access \/ GetGroupInfo \/ FactoryImageRead
  PROVE  Shaped /\ After
<1>1. \E op, room : \E sub \in {"Access", "GetGroupInfo", "FactoryImageStart"} :
        op # "readNV" /\ BareCall(op, sub, room)
  BY DEF Access, GetGroupInfo, FactoryImageRead
<1> QED
  BY <1>1, BareStep

LEMMA FactoryCall ==
  ASSUME spotless \in BOOLEAN, ~ Running, FactoryImage
  PROVE  Shaped /\ After
<1>1. PICK ret \in {"zero", "ok"} : Ends("factoryImage", ret, "none", "none")
  BY DEF FactoryImage
<1>2. After /\ spotless' = (spotless /\ ret = "ok") /\ ~ Aborting
  BY <1>1, EndsWell, NotRunningOK
<1>3. Quiet
  BY <1>2 DEF FactoryImage, Quiet
<1> QED
  BY <1>2, <1>3 DEF Shaped

----------------------------------------------------------------------------
(* Methods of one request on handles.                                       *)

LEMMA FileCalls ==
  ASSUME Read \/ Write \/ Fstat \/ Ftruncate
  PROVE  SimpleCall
<1>1. ASSUME NEW op, op \notin {"readNV", "readDir", "readPath", "get", "put"},
             NEW x, NEW req, PlainReq(req), NEW invalid,
             OnHandle(op, x, req, invalid, TRUE) \/ OnHandle(op, x, req, invalid, FALSE)
      PROVE  SimpleCall
  BY <1>1 DEF OnHandle, SimpleCall
<1>2. ASSUME NEW op, op \notin {"readNV", "readDir", "readPath", "get", "put"}, Invalid(op)
      PROVE  SimpleCall
  BY <1>2 DEF SimpleCall
<1>3. ASSUME NEW sub \in {"Read", "Fstat"}, NEW h
      PROVE  /\ PlainReq(HandleRequest(sub, h))
             /\ \A g : /\ PlainReq(HandleRequest(sub, h) ++ g)
                       /\ PlainReq(InLargeBuffer(HandleRequest(sub, h)) ++ g)
  <2> DEFINE q == HandleRequest(sub, h)
  <2>1. /\ sub \in DOMAIN Answers
        /\ EfsReq(q) /\ q.sub = sub /\ {"cmd", "sub"} \subseteq DOMAIN q
    BY <1>3, AnswerTable, HandleRequestIs
  <2> HIDE DEF q
  <2>2. \A g : PlainReq(q ++ g) /\ PlainReq(InLargeBuffer(q) ++ g)
    BY <1>3, <2>1, PlainRequestsGrow DEF Changing
  <2>3. PlainReq(q)
    BY <1>3, <2>1 DEF PlainReq, Closing, Sound
  <2> QED
    BY <2>2, <2>3 DEF q
<1>4. CASE Read
  <2>1. PICK x \in FileArguments, size \in 0 .. 1 :
          \/ Invalid("read")
          \/ OnHandle("read", x, ReadRequest(x[2], size, 0), InvalidFile, TRUE)
    BY <1>4 DEF Read
  <2> DEFINE r == ReadRequest(x[2], size, 0)
  <2>2. PlainReq(r)
    BY <1>3 DEF ReadRequest
  <2> HIDE DEF r
  <2> QED
    BY <1>1, <1>2, <2>1, <2>2 DEF r
<1>5. CASE Write
  <2>1. PICK x \in FileArguments, data \in Datas \cup {<<>>} :
          \/ Invalid("write")
          \/ OnHandle("write", x, WriteRequest(x[2], data, 0), InvalidFile, TRUE)
    BY <1>5 DEF Write
  <2> DEFINE r == WriteRequest(x[2], data, 0)
  <2>2. PlainReq(r)
    <3>1. EfsReq(r) /\ r.sub = "Write" /\ r.data = data /\ r.offset = 0
      BY WriteRequestIs
    <3>2. data \in Seq(Nat)
      <4>1. <<>> \in Seq(Nat)
        OBVIOUS
      <4> QED
        BY <4>1, DatasAssumption
    <3> HIDE DEF r
    <3> QED
      BY <3>1, <3>2 DEF PlainReq, Closing, Sound
  <2> HIDE DEF r
  <2> QED
    BY <1>1, <1>2, <2>1, <2>2 DEF r
<1>6. CASE Fstat
  <2>1. PICK x \in FileArguments :
          OnHandle("fstat", x, HandleRequest("Fstat", x[2]), InvalidFile, FALSE)
    BY <1>6 DEF Fstat
  <2> DEFINE r == HandleRequest("Fstat", x[2])
  <2>2. PlainReq(r)
    BY <1>3
  <2> HIDE DEF r
  <2> QED
    BY <1>1, <2>1, <2>2 DEF r
<1>7. CASE Ftruncate
  <2>1. PICK x \in FileArguments, amount \in 0 .. 1 :
          \/ Invalid("ftruncate")
          \/ OnHandle("ftruncate", x,
                      HandleRequest("Ftruncate", x[2]) ++ [size |-> 0],
                      InvalidFile, TRUE)
    BY <1>7 DEF Ftruncate
  <2> DEFINE r == HandleRequest("Ftruncate", x[2]) ++ [size |-> 0]
  <2>2. PlainReq(r)
    <3>1. EfsReq(r) /\ r.sub = "Ftruncate" /\ r.size = 0
      BY TruncateRequestIs
    <3> HIDE DEF r
    <3> QED
      BY <3>1 DEF PlainReq, Closing, Sound
  <2> HIDE DEF r
  <2> QED
    BY <1>1, <1>2, <2>1, <2>2 DEF r
<1> QED
  BY <1>4, <1>5, <1>6, <1>7

(* A handle is given back, or an image is. *)
LEMMA GivesBackStep ==
  ASSUME spotless \in BOOLEAN, ~ Running, NEW op, op # "readNV", NEW x, NEW invalid,
         x = invalid \/ x \in held,
         NEW sub \in {"Close", "CloseDir", "FsImageClose"}, x[1] = HandleKind(sub),
         NEW req, EfsReq(req), req.sub = sub, req.h = x[2],
         GivesBack(op, x, req, invalid)
  PROVE  Shaped /\ After
<1>1. CASE x = invalid
  BY <1>1, InvalidStep DEF GivesBack
<1>2. CASE x # invalid
  <2>1. PICK r \in Exchanges(req) :
          /\ Takes(r)
          /\ \/ Dies(op)
             \/ Fails(op) /\ held' = held \ {x}
             \/ /\ Ends(op, "ok", "none", "none")
                /\ held' = held \ {x}
                /\ r.heard # Silence
                /\ ~ SendThrows(req, r.heard)
                /\ ~ ErrorIn(r.heard)
    BY <1>2 DEF GivesBack, SendCommand, Drop
  <2>2. /\ After
        /\ Unspoilt(req, r)
        /\ held' \subseteq held \ {x}
        /\ spotless' => held' = held \ {x} /\ ~ ErrorIn(r.heard) /\ ~ Aborting'
    <3>1. CASE Fails(op) \/ Dies(op)
      <4>1. After /\ spotless' = FALSE
        BY <3>1, FailsWell
      <4>2. held' \subseteq held \ {x}
        BY <2>1, <4>1 DEF Dies, Ends
      <4> QED
        BY <4>1, <4>2 DEF Unspoilt
    <3>2. CASE /\ Ends(op, "ok", "none", "none")
               /\ held' = held \ {x}
               /\ r.heard # Silence
               /\ ~ SendThrows(req, r.heard)
               /\ ~ ErrorIn(r.heard)
      <4>1. After /\ spotless' = (spotless /\ TRUE) /\ ~ Aborting /\ ~ Aborting'
        BY <3>2, EndsWell, NotRunningOK
      <4> QED
        BY <3>2, <4>1 DEF Unspoilt
    <3> QED
      BY <2>1, <3>1, <3>2
  <2>3. CASE sub # "FsImageClose"
    <3>1. Giving(req, x)
      BY <1>2, <2>1, <2>2, <2>3 DEF Giving, Closing, HandleOf, ClosedBy
    <3> QED
      BY <2>2, <3>1 DEF Shaped
  <2>4. CASE sub = "FsImageClose"
    <3>1. x[1] = "image"
      BY <2>4 DEF HandleKind
    <3>2. KeepsFiles
      BY <2>2, <3>1 DEF KeepsFiles, Files
    <3>3. Keeping(req)
      BY <2>1, <2>2, <2>4, <3>2 DEF Keeping, PlainReq, Closing, Sound
    <3> QED
      BY <2>2, <3>3 DEF Shaped
  <2> QED
    BY <2>3, <2>4
<1> QED
  BY <1>1, <1>2

LEMMA ClosingCalls ==
  ASSUME spotless \in BOOLEAN, ~ Running, Close \/ CloseDir \/ CloseFilesystemImage
  PROVE  Shaped /\ After
<1>0. {"Close", "CloseDir", "FsImageClose"} \subseteq DOMAIN Answers
  BY AnswerTable
<1>1. CASE Close
  <2>1. PICK x \in FileArguments :
          GivesBack("close", x, HandleRequest("Close", x[2]), InvalidFile)
    BY <1>1 DEF Close, CloseRequest
  <2> DEFINE q == HandleRequest("Close", x[2])
  <2>2. EfsReq(q) /\ q.sub = "Close" /\ q.h = x[2]
    BY <1>0, HandleRequestIs
  <2>3. (x = InvalidFile \/ x \in held) /\ x[1] = HandleKind("Close")
    BY DEF FileArguments, Handles, InvalidFile, HandleKind
  <2> HIDE DEF q
  <2> QED
    BY <2>1, <2>2, <2>3, GivesBackStep DEF q
<1>2. CASE CloseDir
  <2>1. PICK x \in DirArguments :
          GivesBack("closeDir", x, HandleRequest("CloseDir", x[2]), InvalidDir)
    BY <1>2 DEF CloseDir
  <2> DEFINE q == HandleRequest("CloseDir", x[2])
  <2>2. EfsReq(q) /\ q.sub = "CloseDir" /\ q.h = x[2]
    BY <1>0, HandleRequestIs
  <2>3. (x = InvalidDir \/ x \in held) /\ x[1] = HandleKind("CloseDir")
    BY DEF DirArguments, Handles, InvalidDir, HandleKind
  <2> HIDE DEF q
  <2> QED
    BY <2>1, <2>2, <2>3, GivesBackStep DEF q
<1>3. CASE CloseFilesystemImage
  <2>1. PICK x \in ImageArguments :
          GivesBack("closeFilesystemImage", x, HandleRequest("FsImageClose", x[2]),
                    InvalidImage)
    BY <1>3 DEF CloseFilesystemImage
  <2> DEFINE q == HandleRequest("FsImageClose", x[2])
  <2>2. EfsReq(q) /\ q.sub = "FsImageClose" /\ q.h = x[2]
    BY <1>0, HandleRequestIs
  <2>3. (x = InvalidImage \/ x \in held) /\ x[1] = HandleKind("FsImageClose")
    BY DEF ImageArguments, Handles, InvalidImage, HandleKind
  <2> HIDE DEF q
  <2> QED
    BY <2>1, <2>2, <2>3, GivesBackStep DEF q
<1> QED
  BY <1>1, <1>2, <1>3

----------------------------------------------------------------------------
(* Methods that take a handle.                                              *)

LEMMA HeardPacketOK ==
  ASSUME OpensComeWhole, Core, NEW req, Req(req), req.sub \notin Closing,
         NEW x \in Exchanges(req)
  PROVE  PacketOK(x.heard)
<1> DEFINE w == HeldHandles
<1>1. w \subseteq OpenHandles /\ QueueOK(rx, OpenHandles, w) /\ PhoneOK(phone)
  BY DEF Core
<1> HIDE DEF w
<1> QED
  BY <1>1, ExchangeQueue

LEMMA OpeningHeard ==
  ASSUME OpensComeWhole, Core, NEW req, EfsReq(req), req.sub \in {"Open", "OpenDir"},
         NEW x \in Exchanges(req),
         x.heard # Silence, ~ SendThrows(req, x.heard), ~ ErrorIn(x.heard)
  PROVE  Granted(x.heard) = {<<HandleKind(req.sub), Got(x.heard, HandleField(req.sub))>>}
<1>1. PacketOK(x.heard)
  BY HeardPacketOK DEF Req, Closing
<1>2. x.heard.sub = req.sub
  BY DEF SendThrows
<1>3. x.heard.f["error"] = 0
  BY <1>1, <1>2 DEF ErrorIn, Got, PacketOK
<1>4. HandleField(req.sub) \in DOMAIN x.heard.f
  BY <1>1, <1>2 DEF PacketOK, HandleField
<1> QED
  BY <1>2, <1>3, <1>4 DEF Granted, HandleKind, HandleField, Got

LEMMA TakingIs ==
  ASSUME OpensComeWhole, Core, NEW req, EfsReq(req), req.sub \in {"Open", "OpenDir"},
         Sound(req), NEW x \in Exchanges(req), Takes(x),
         \/ held' \subseteq held /\ spotless' = FALSE
         \/ /\ x.heard # Silence
            /\ ~ SendThrows(req, x.heard)
            /\ ~ ErrorIn(x.heard)
            /\ held' = held \cup {<<HandleKind(req.sub),
                                    Got(x.heard, HandleField(req.sub)), req.path>>}
            /\ spotless' = spotless
            /\ ~ Aborting
  PROVE  Taking(req) /\ Shaped
<1>1. CASE held' \subseteq held /\ spotless' = FALSE
  BY <1>1 DEF Taking, Unspoilt, Shaped
<1>2. CASE /\ x.heard # Silence
           /\ ~ SendThrows(req, x.heard)
           /\ ~ ErrorIn(x.heard)
           /\ held' = held \cup {<<HandleKind(req.sub),
                                   Got(x.heard, HandleField(req.sub)), req.path>>}
           /\ spotless' = spotless
           /\ ~ Aborting
  <2>1. Granted(x.heard) = {<<HandleKind(req.sub), Got(x.heard, HandleField(req.sub))>>}
    BY <1>2, OpeningHeard
  <2>2. Unspoilt(req, x)
    BY <1>2 DEF Unspoilt, Core
  <2>3. Taking(req)
    BY <1>2, <2>1, <2>2 DEF Taking
  <2> QED
    BY <2>3 DEF Shaped
<1> QED
  BY <1>1, <1>2

LEMMA OpenRequestIs ==
  ASSUME NEW path, NEW creates
  PROVE  /\ EfsReq(OpenRequest(path, creates))
         /\ OpenRequest(path, creates).sub = "Open"
         /\ OpenRequest(path, creates).path = path
         /\ (creates => WellNamed(path)) => Sound(OpenRequest(path, creates))
<1> DEFINE q == PathRequest("Open", path)
<1>1. /\ EfsReq(q) /\ q.sub = "Open" /\ q.path = path
      /\ DOMAIN q = {"cmd", "sub", "room", "path", "creates"}
  BY AnswerTable, PathRequestIs
<1> HIDE DEF q
<1>2. OpenRequest(path, creates) = [q EXCEPT !.creates = creates]
  BY DEF OpenRequest, q
<1>3. /\ OpenRequest(path, creates).cmd = q.cmd
      /\ OpenRequest(path, creates).sub = q.sub
      /\ OpenRequest(path, creates).path = q.path
      /\ OpenRequest(path, creates).creates = creates
  BY <1>1, <1>2
<1> QED
  BY <1>1, <1>3 DEF EfsReq, Sound

LEMMA TakesHandleStep ==
  ASSUME OpensComeWhole, Core, ~ Running, NEW op, op # "readNV",
         NEW req, EfsReq(req), req.sub \in {"Open", "OpenDir"}, Sound(req),
         NEW path, req.path = path,
         TakesHandle(op, HandleKind(req.sub), HandleField(req.sub), path, req)
  PROVE  Shaped /\ After
<1>0. spotless \in BOOLEAN /\ ~ Aborting
  BY NotRunningOK DEF Core
<1>1. CASE path = <<>>
  BY <1>0, <1>1, InvalidStep DEF TakesHandle
<1>2. CASE path # <<>>
  <2> DEFINE kind == HandleKind(req.sub)
             field == HandleField(req.sub)
  <2>1. TakesHandle(op, kind, field, path, req)
    OBVIOUS
  <2> HIDE DEF kind, field
  <2>2. PICK x \in Exchanges(req) :
          /\ Takes(x)
          /\ \/ Dies(op)
             \/ Fails(op) /\ UNCHANGED held
             \/ /\ x.heard # Silence
                /\ ~ SendThrows(req, x.heard)
                /\ ~ ErrorIn(x.heard)
                /\ Ends(op, "ok", "none", "none")
                /\ held' = held \cup {<<kind, Got(x.heard, field), path>>}
    BY <1>2, <2>1 DEF TakesHandle, SendCommand, Grant
  <2>3. CASE Dies(op) \/ (Fails(op) /\ UNCHANGED held)
    <3>1. After /\ spotless' = FALSE
      BY <1>0, <2>3, FailsWell
    <3>2. held' \subseteq held
      BY <2>3 DEF Dies
    <3>3. Shaped
      BY <2>2, <3>1, <3>2, TakingIs
    <3> QED
      BY <3>1, <3>3
  <2>4. CASE /\ x.heard # Silence
             /\ ~ SendThrows(req, x.heard)
             /\ ~ ErrorIn(x.heard)
             /\ Ends(op, "ok", "none", "none")
             /\ held' = held \cup {<<kind, Got(x.heard, field), path>>}
    <3>1. After /\ spotless' = (spotless /\ TRUE)
      BY <1>0, <2>4, EndsWell
    <3>2. Shaped
      BY <1>0, <2>2, <2>4, <3>1, TakingIs DEF kind, field
    <3> QED
      BY <3>1, <3>2
  <2> QED
    BY <2>2, <2>3, <2>4
<1> QED
  BY <1>1, <1>2

LEMMA OpeningCalls ==
  ASSUME OpensComeWhole, Core, ~ Running, OpenFile \/ OpenDir
  PROVE  Shaped /\ After
<1>1. CASE OpenFile
  <2>1. PICK path \in Paths, creates \in BOOLEAN :
          TakesHandle("open", "file", "fp", path, OpenRequest(path, creates))
    BY <1>1 DEF OpenFile
  <2> DEFINE q == OpenRequest(path, creates)
  <2>2. EfsReq(q) /\ q.sub = "Open" /\ q.path = path /\ Sound(q)
    BY OpenRequestIs, PathsAssumption
  <2> HIDE DEF q
  <2>3. HandleKind(q.sub) = "file" /\ HandleField(q.sub) = "fp"
    BY <2>2 DEF HandleKind, HandleField
  <2>4. TakesHandle("open", HandleKind(q.sub), HandleField(q.sub), path, q)
    BY <2>1, <2>3 DEF q
  <2> QED
    BY <2>2, <2>4, TakesHandleStep
<1>2. CASE OpenDir
  <2>1. PICK path \in Paths :
          TakesHandle("openDir", "dir", "dp", path, PathRequest("OpenDir", path))
    BY <1>2 DEF OpenDir
  <2> DEFINE q == PathRequest("OpenDir", path)
  <2>2. EfsReq(q) /\ q.sub = "OpenDir" /\ q.path = path
    BY AnswerTable, PathRequestIs
  <2> HIDE DEF q
  <2>5. Sound(q)
    BY <2>2 DEF Sound
  <2>3. HandleKind(q.sub) = "dir" /\ HandleField(q.sub) = "dp"
    BY <2>2 DEF HandleKind, HandleField
  <2>4. TakesHandle("openDir", HandleKind(q.sub), HandleField(q.sub), path, q)
    BY <2>1, <2>3 DEF q
  <2> QED
    BY <2>2, <2>4, <2>5, TakesHandleStep
<1> QED
  BY <1>1, <1>2

(* Images are not counted: theirs are only of the right size.               *)
LEMMA ImageCalls ==
  ASSUME OpensComeWhole, Core, ~ Running, OpenFilesystemImage \/ ReadFilesystemImage
  PROVE  Shaped /\ After
<1>0. spotless \in BOOLEAN /\ ~ Aborting
  BY NotRunningOK DEF Core
<1>1. ASSUME NEW req, PlainReq(req), NEW x \in Exchanges(req), Takes(x),
             NEW op, op # "readNV",
             \/ Dies(op) \/ (Fails(op) /\ UNCHANGED held)
             \/ Ends(op, "zero", "none", "none") /\ UNCHANGED held
             \/ /\ Ends(op, "ok", "none", "none")
                /\ x.heard # Silence /\ ~ SendThrows(req, x.heard)
                /\ \/ UNCHANGED held
                   \/ \E h \in 0 .. MaxOpen : \E path :
                        held' = held \cup {<<"image", h, path>>}
      PROVE  Shaped /\ After
  <2>1. CASE Dies(op) \/ (Fails(op) /\ UNCHANGED held)
    <3>1. After /\ spotless' = FALSE /\ held' \subseteq held
      BY <1>0, <1>1, <2>1, FailsWell DEF Dies
    <3>2. Keeping(req)
      BY <1>1, <3>1 DEF Keeping, Unspoilt, KeepsFiles
    <3> QED
      BY <3>1, <3>2 DEF Shaped
  <2>2. CASE Ends(op, "zero", "none", "none") /\ UNCHANGED held
    <3>1. After /\ spotless' = (spotless /\ FALSE)
      BY <1>0, <1>1, <2>2, EndsWell
    <3>2. Keeping(req)
      BY <1>1, <2>2, <3>1 DEF Keeping, Unspoilt, KeepsFiles
    <3> QED
      BY <3>1, <3>2 DEF Shaped
  <2>3. CASE /\ Ends(op, "ok", "none", "none")
             /\ x.heard # Silence /\ ~ SendThrows(req, x.heard)
             /\ \/ UNCHANGED held
                \/ \E h \in 0 .. MaxOpen : \E path :
                        held' = held \cup {<<"image", h, path>>}
    <3>1. After /\ spotless' = (spotless /\ TRUE)
      BY <1>0, <1>1, <2>3, EndsWell
    <3>2. Unspoilt(req, x)
      BY <1>0, <2>3, <3>1 DEF Unspoilt
    <3>3. KeepsFiles
      <4>1. CASE UNCHANGED held
        BY <4>1 DEF KeepsFiles, Files
      <4>2. ASSUME NEW h \in 0 .. MaxOpen, NEW path, held' = held \cup {<<"image", h, path>>}
            PROVE  KeepsFiles
        <5> DEFINE t == <<"image", h, path>>
        <5>1. held' = held \cup {t} /\ t[1] = "image" /\ t[2] \in 0 .. MaxOpen
          BY <4>2
        <5> HIDE DEF t
        <5> QED
          BY <5>1 DEF KeepsFiles, Files
      <4> QED
        BY <2>3, <4>1, <4>2
    <3>4. Keeping(req)
      BY <1>1, <3>2, <3>3 DEF Keeping
    <3> QED
      BY <3>1, <3>4 DEF Shaped
  <2> QED
    BY <1>1, <2>1, <2>2, <2>3
<1>2. CASE OpenFilesystemImage
  <2>1. PICK path \in Paths :
          IF path = <<>> THEN Invalid("openFilesystemImage")
          ELSE SendCommand(HalfRequest("FsImageOpen", path), Dies("openFilesystemImage"),
                 LAMBDA r : Fails("openFilesystemImage") /\ UNCHANGED held,
                 LAMBDA r : IF ErrorIn(r.heard)
                            THEN Ends("openFilesystemImage", "zero", "none", "none")
                                 /\ UNCHANGED held
                            ELSE /\ Ends("openFilesystemImage", "ok", "none", "none")
                                 /\ Grant("image", Got(r.heard, "handle"), path))
    BY <1>2 DEF OpenFilesystemImage
  <2>2. CASE path = <<>>
    BY <1>0, <2>1, <2>2, InvalidStep
  <2>3. CASE path # <<>>
    <3> DEFINE req == HalfRequest("FsImageOpen", path)
               op == "openFilesystemImage"
    <3>1. PICK x \in Exchanges(req) :
            /\ Takes(x)
            /\ \/ Dies(op) \/ (Fails(op) /\ UNCHANGED held)
               \/ Ends(op, "zero", "none", "none") /\ UNCHANGED held
               \/ /\ Ends(op, "ok", "none", "none")
                  /\ x.heard # Silence /\ ~ SendThrows(req, x.heard)
                  /\ held' = held \cup {<<"image", Got(x.heard, "handle"), path>>}
      BY <2>1, <2>3 DEF SendCommand, Grant
    <3>2. EfsReq(req) /\ req.sub = "FsImageOpen"
      BY AnswerTable, HalfRequestIs
    <3> HIDE DEF req
    <3>3. PlainReq(req) /\ req.sub \notin Closing /\ Req(req)
      BY <3>2 DEF PlainReq, Closing, Req, Sound
    <3>4. PacketOK(x.heard)
      BY <3>3, HeardPacketOK
    <3>5. ~ SendThrows(req, x.heard) => Got(x.heard, "handle") \in 0 .. MaxOpen
      BY <3>2, <3>4 DEF SendThrows, PacketOK
    <3> QED
      BY <1>1, <3>1, <3>3, <3>5
  <2> QED
    BY <2>2, <2>3
<1>3. CASE ReadFilesystemImage
  <2>1. PICK x \in ImageArguments :
          IF x = InvalidImage THEN Invalid("readFilesystemImage")
          ELSE SendCommand(InLargeBuffer(HandleRequest("FsImageClose", x[2])),
                 Dies("readFilesystemImage"),
                 LAMBDA r : Fails("readFilesystemImage") /\ UNCHANGED held,
                 LAMBDA r : \/ ErrorIn(r.heard) /\ Dies("readFilesystemImage")
                            \/ /\ Ends("readFilesystemImage", "ok", "none", "none")
                               /\ UNCHANGED held)
    BY <1>3 DEF ReadFilesystemImage
  <2>2. CASE x = InvalidImage
    BY <1>0, <2>1, <2>2, InvalidStep
  <2>3. CASE x # InvalidImage
    <3> DEFINE q == HandleRequest("FsImageClose", x[2])
               req == InLargeBuffer(q)
               op == "readFilesystemImage"
    <3>1. PICK r \in Exchanges(req) :
            /\ Takes(r)
            /\ \/ Dies(op) \/ (Fails(op) /\ UNCHANGED held)
               \/ /\ Ends(op, "ok", "none", "none")
                  /\ r.heard # Silence /\ ~ SendThrows(req, r.heard)
                  /\ UNCHANGED held
      BY <2>1, <2>3 DEF SendCommand
    <3>2. /\ "FsImageClose" \in DOMAIN Answers
          /\ EfsReq(q) /\ q.sub = "FsImageClose" /\ {"cmd", "sub"} \subseteq DOMAIN q
      BY AnswerTable, HandleRequestIs
    <3> HIDE DEF q
    <3>3. PlainReq(req)
      BY <3>2, PlainRequestsGrow DEF Changing
    <3> HIDE DEF req
    <3> QED
      BY <1>1, <3>1, <3>3
  <2> QED
    BY <2>2, <2>3
<1> QED
  BY <1>2, <1>3

----------------------------------------------------------------------------
(* Methods of several requests: how each of their steps may go on.          *)

(* An end in failure, whatever it says of itself. *)
Spoils ==
  \/ \E op : op # "readNV" /\ (Fails(op) \/ Dies(op))
  \/ \E op, ret, arg, value :
       /\ op # "readNV"
       /\ ret \in {"zero", "throws"}
       /\ Ends(op, ret, arg, value)

LEMMA SpoilsWell ==
  ASSUME spotless \in BOOLEAN, Spoils
  PROVE  After /\ spotless' = FALSE
<1>1. ASSUME NEW op, op # "readNV", NEW ret \in {"zero", "throws"}, NEW arg, NEW value,
             Ends(op, ret, arg, value)
      PROVE  After /\ spotless' = FALSE
  BY <1>1, EndsWell
<1> QED
  BY <1>1, FailsWell DEF Spoils

LEMMA KeepsOn ==
  ASSUME Core, LastOK, Running, ~ Aborting, NEW req, PlainReq(req),
         NEW x \in Exchanges(req), Takes(x),
         \/ Spoils /\ held' \subseteq held
         \/ /\ held' = held
            /\ x.heard # Silence
            /\ \E c : /\ Goes(c)
                      /\ GoodLocals(c, held)
                      /\ SendThrows(req, x.heard) => c.at = "abort"
         \/ /\ held' = held
            /\ x.heard # Silence
            /\ ~ SendThrows(req, x.heard)
            /\ \E op : op # "readNV" /\ Ends(op, "ok", "none", "none")
  PROVE  Shaped /\ After
<1>0. spotless \in BOOLEAN
  BY DEF Core
<1>1. CASE Spoils /\ held' \subseteq held
  <2>1. After /\ spotless' = FALSE
    BY <1>0, <1>1, SpoilsWell
  <2>2. Keeping(req)
    BY <1>1, <2>1 DEF Keeping, Unspoilt, KeepsFiles
  <2> QED
    BY <2>1, <2>2 DEF Shaped
<1>2. ASSUME held' = held, x.heard # Silence, NEW c, Goes(c), GoodLocals(c, held),
             SendThrows(req, x.heard) => c.at = "abort"
      PROVE  Shaped /\ After
  <2>1. After /\ (Aborting' <=> c.at = "abort") /\ spotless' = spotless
    BY <1>2, GoesWell
  <2>2. Keeping(req)
    BY <1>0, <1>2, <2>1 DEF Keeping, Unspoilt, KeepsFiles, Files
  <2> QED
    BY <2>1, <2>2 DEF Shaped
<1>3. ASSUME held' = held, x.heard # Silence, ~ SendThrows(req, x.heard),
             NEW op, op # "readNV", Ends(op, "ok", "none", "none")
      PROVE  Shaped /\ After
  <2>1. After /\ spotless' = (spotless /\ TRUE)
    BY <1>0, <1>3, EndsWell
  <2>2. Keeping(req)
    BY <1>0, <1>3, <2>1 DEF Keeping, Unspoilt, KeepsFiles, Files
  <2> QED
    BY <2>1, <2>2 DEF Shaped
<1> QED
  BY <1>1, <1>2, <1>3

LEMMA GivesOn ==
  ASSUME Core, LastOK, Running, NEW req, EfsReq(req), req.sub \in Closing,
         call.x \in held, HandleOf(call.x) = ClosedBy(req),
         NEW x \in Exchanges(req), Takes(x),
         \/ Spoils /\ held' \subseteq held \ {call.x}
         \/ /\ held' = held \ {call.x}
            /\ ~ Aborting
            /\ x.heard # Silence
            /\ ~ SendThrows(req, x.heard)
            /\ ~ ErrorIn(x.heard)
            /\ \/ \E c : Goes(c) /\ GoodLocals(c, held') /\ c.at # "abort"
               \/ \E op, arg, value : op # "readNV" /\ Ends(op, "ok", arg, value)
  PROVE  Shaped /\ After
<1>0. spotless \in BOOLEAN
  BY DEF Core
<1>1. CASE Spoils /\ held' \subseteq held \ {call.x}
  <2>1. After /\ spotless' = FALSE
    BY <1>0, <1>1, SpoilsWell
  <2>2. Giving(req, call.x)
    BY <1>1, <2>1 DEF Giving, Unspoilt
  <2> QED
    BY <2>1, <2>2 DEF Shaped
<1>2. CASE /\ held' = held \ {call.x}
           /\ ~ Aborting
           /\ x.heard # Silence
           /\ ~ SendThrows(req, x.heard)
           /\ ~ ErrorIn(x.heard)
           /\ \/ \E c : Goes(c) /\ GoodLocals(c, held') /\ c.at # "abort"
              \/ \E op, arg, value : op # "readNV" /\ Ends(op, "ok", arg, value)
  <2>1. ASSUME NEW c, Goes(c), GoodLocals(c, held'), c.at # "abort"
        PROVE  After /\ ~ Aborting' /\ spotless' = spotless
    BY <2>1, GoesWell
  <2>2. ASSUME NEW op, NEW arg, NEW value, op # "readNV", Ends(op, "ok", arg, value)
        PROVE  After /\ ~ Aborting' /\ spotless' = spotless
    <3>1. After /\ ~ Aborting' /\ spotless' = (spotless /\ TRUE)
      BY <1>0, <2>2, EndsWell
    <3> QED
      BY <1>0, <3>1
  <2>3. After /\ ~ Aborting' /\ spotless' = spotless
    BY <1>2, <2>1, <2>2
  <2>4. Giving(req, call.x)
    BY <1>0, <1>2, <2>3 DEF Giving, Unspoilt
  <2> QED
    BY <2>3, <2>4 DEF Shaped
<1> QED
  BY <1>1, <1>2

(* What a method of several requests has between two of them. *)
LEMMA LocalsAre ==
  ASSUME CallOK, NEW op, op # "none", call.op = op
  PROVE  /\ Running
         /\ call = [y \in DOMAIN call |-> call[y]]
         /\ {"op", "at", "x"} \subseteq DOMAIN call
         /\ call.at # "abort" => ~ Aborting
         /\ call.at # "open" => call.x \in held /\ call.x[1] = CallKind(op)
BY DEF CallOK, Running, Aborting

(* Requests on the handle that it goes on with. *)
LEMMA OwnRequests ==
  ASSUME NEW sub \in DOMAIN Answers, NEW h, NEW g,
         sub \notin {"Open", "OpenDir", "Close", "CloseDir"} \cup Changing
  PROVE  /\ PlainReq(HandleRequest(sub, h))
         /\ PlainReq(HandleRequest(sub, h) ++ g)
         /\ PlainReq(InLargeBuffer(HandleRequest(sub, h)) ++ g)
<1> DEFINE q == HandleRequest(sub, h)
<1>1. EfsReq(q) /\ q.sub = sub /\ {"cmd", "sub"} \subseteq DOMAIN q
  BY HandleRequestIs
<1> HIDE DEF q
<1>2. /\ PlainReq(q ++ g)
      /\ PlainReq(InLargeBuffer(q) ++ g)
  BY <1>1, PlainRequestsGrow
<1>3. PlainReq(q)
  BY <1>1 DEF PlainReq, Closing, Changing, Sound
<1> QED
  BY <1>2, <1>3 DEF q

LEMMA OwnClose ==
  ASSUME NEW x, NEW sub \in {"Close", "CloseDir"}, x[1] = HandleKind(sub)
  PROVE  LET req == HandleRequest(sub, x[2])
         IN  /\ EfsReq(req)
             /\ req.sub \in Closing
             /\ HandleOf(x) = ClosedBy(req)
<1> DEFINE req == HandleRequest(sub, x[2])
<1>1. EfsReq(req) /\ req.sub = sub /\ req.h = x[2]
  BY AnswerTable, HandleRequestIs
<1> HIDE DEF req
<1>2. req.sub \in Closing /\ HandleOf(x) = ClosedBy(req)
  BY <1>1 DEF Closing, HandleOf, ClosedBy
<1> QED
  BY <1>1, <1>2 DEF req

----------------------------------------------------------------------------
(* read(path, outPath).                                                     *)

LEMMA FailsSpoils ==
  ASSUME NEW op, op # "readNV", Fails(op) \/ Dies(op)
  PROVE  Spoils
BY DEF Spoils

LEMMA FailingIs ==
  ASSUME NEW r, Failing(r), call.op # "readNV"
  PROVE  Spoils /\ held' \subseteq held \ {call.x}
<1>1. Fails(call.op) /\ held' = held \ {call.x}
  BY DEF Failing
<1> QED
  BY <1>1, FailsSpoils

(* A method begins with the open of its file or directory. *)
LEMMA BeginsWithOpen ==
  ASSUME OpensComeWhole, Core, ~ Aborting,
         NEW req, EfsReq(req), req.sub \in {"Open", "OpenDir"}, Sound(req),
         NEW x \in Exchanges(req), Takes(x), NEW op, op # "readNV",
         \/ Spoils /\ held' \subseteq held
         \/ \E c :
              /\ x.heard # Silence
              /\ ~ SendThrows(req, x.heard)
              /\ ~ ErrorIn(x.heard)
              /\ held' = held \cup {<<HandleKind(req.sub),
                                      Got(x.heard, HandleField(req.sub)), req.path>>}
              /\ Ended(op, "running", "none", "none")
              /\ UNCHANGED spotless
              /\ call' = c
              /\ GoodLocals(c, held')
  PROVE  Shaped /\ After
<1>1. CASE Spoils /\ held' \subseteq held
  <2>1. After /\ spotless' = FALSE
    BY <1>1, SpoilsWell DEF Core
  <2>2. Shaped
    BY <1>1, <2>1, TakingIs
  <2> QED
    BY <2>1, <2>2
<1>2. ASSUME NEW c,
             x.heard # Silence,
             ~ SendThrows(req, x.heard),
             ~ ErrorIn(x.heard),
             held' = held \cup {<<HandleKind(req.sub),
                                  Got(x.heard, HandleField(req.sub)), req.path>>},
             Ended(op, "running", "none", "none"),
             UNCHANGED spotless,
             call' = c,
             GoodLocals(c, held')
      PROVE  Shaped /\ After
  <2>1. After
    BY <1>2, StartsWell
  <2>2. spotless' = spotless
    BY <1>2
  <2>3. Shaped
    BY <1>2, <2>2, TakingIs
  <2> QED
    BY <2>1, <2>3
<1> QED
  BY <1>1, <1>2

LEMMA ReadPathStep ==
  ASSUME OpensComeWhole, Core, ~ Running, ReadPath
  PROVE  Shaped /\ After
<1>0. spotless \in BOOLEAN /\ ~ Aborting
  BY NotRunningOK DEF Core
<1>1. PICK path \in Paths :
        IF path = <<>> THEN Invalid("readPath")
        ELSE SendCommand(OpenRequest(path, FALSE), Dies("readPath"),
           LAMBDA r : Fails("readPath") /\ UNCHANGED held,
           LAMBDA r : IF ErrorIn(r.heard) THEN Fails("readPath") /\ UNCHANGED held
                      ELSE LET x == <<"file", Got(r.heard, "fp"), path>>
                           IN  /\ held' = held \cup {x}
                               /\ Begins("readPath", [op |-> "readPath",
                                    at |-> "fstat", x |-> x]))
  BY DEF ReadPath
<1>2. CASE path = <<>>
  BY <1>0, <1>1, <1>2, InvalidStep
<1>3. CASE path # <<>>
  <2> DEFINE req == OpenRequest(path, FALSE)
  <2>1. PICK r \in Exchanges(req) :
          /\ Takes(r)
          /\ \/ Dies("readPath")
             \/ Fails("readPath") /\ UNCHANGED held
             \/ LET x == <<"file", Got(r.heard, "fp"), path>>
                IN  /\ r.heard # Silence
                    /\ ~ SendThrows(req, r.heard)
                    /\ ~ ErrorIn(r.heard)
                    /\ held' = held \cup {x}
                    /\ Begins("readPath", [op |-> "readPath", at |-> "fstat", x |-> x])
    BY <1>1, <1>3 DEF SendCommand
  <2>2. EfsReq(req) /\ req.sub = "Open" /\ req.path = path /\ Sound(req)
    BY OpenRequestIs
  <2> HIDE DEF req
  <2> DEFINE x == <<"file", Got(r.heard, "fp"), path>>
             c == [op |-> "readPath", at |-> "fstat", x |-> x]
  <2>3. HandleKind(req.sub) = "file" /\ HandleField(req.sub) = "fp"
    BY <2>2 DEF HandleKind, HandleField
  <2>4. CASE Dies("readPath") \/ (Fails("readPath") /\ UNCHANGED held)
    <3>1. Spoils /\ held' \subseteq held
      BY <2>4, FailsSpoils DEF Dies
    <3> QED
      BY <1>0, <2>1, <2>2, <3>1, BeginsWithOpen
  <2>5. CASE /\ r.heard # Silence
             /\ ~ SendThrows(req, r.heard)
             /\ ~ ErrorIn(r.heard)
             /\ held' = held \cup {x}
             /\ Begins("readPath", c)
    <3>1. GoodLocals(c, held')
      BY <2>5 DEF GoodLocals, CallKind
    <3> HIDE DEF c
    <3>2. Ended("readPath", "running", "none", "none") /\ UNCHANGED spotless /\ call' = c
      BY <2>5 DEF Begins
    <3> QED
      BY <1>0, <2>1, <2>2, <2>3, <2>5, <3>1, <3>2, BeginsWithOpen
  <2> QED
    BY <2>1, <2>4, <2>5
<1> QED
  BY <1>2, <1>3

LEMMA ReadPathFstatStep ==
  ASSUME Core, CallOK, LastOK, ReadPath_Fstat
  PROVE  Shaped /\ After
<1> DEFINE req == HandleRequest("Fstat", call.x[2])
<1>0. call.op = "readPath" /\ call.at = "fstat"
  BY DEF ReadPath_Fstat
<1>1. Running /\ ~ Aborting /\ call.x \in held /\ call.x[1] = "file"
  BY <1>0, LocalsAre DEF CallKind
<1>2. PICK r \in Exchanges(req) :
        /\ Takes(r)
        /\ \/ Dies("readPath")
           \/ Failing(r)
           \/ Ends("readPath", "zero", "none", "none") /\ held' = held \ {call.x}
           \/ /\ r.heard # Silence
              /\ ~ SendThrows(req, r.heard)
              /\ Goes([op |-> "readPath", at |-> "read", x |-> call.x,
                       size |-> Got(r.heard, "size")])
              /\ UNCHANGED held
  BY DEF ReadPath_Fstat, SendCommand
<1>3. PlainReq(req)
  BY AnswerTable, OwnRequests DEF Changing
<1> HIDE DEF req
<1>4. CASE \/ Dies("readPath") \/ Failing(r)
           \/ (Ends("readPath", "zero", "none", "none") /\ held' = held \ {call.x})
  <2>1. Spoils /\ held' \subseteq held
    BY <1>0, <1>4, FailsSpoils, FailingIs DEF Dies, Spoils
  <2> QED
    BY <1>1, <1>2, <1>3, <2>1, KeepsOn
<1>5. CASE /\ r.heard # Silence
           /\ ~ SendThrows(req, r.heard)
           /\ Goes([op |-> "readPath", at |-> "read", x |-> call.x,
                    size |-> Got(r.heard, "size")])
           /\ UNCHANGED held
  <2> DEFINE c == [op |-> "readPath", at |-> "read", x |-> call.x,
                   size |-> Got(r.heard, "size")]
  <2>1. GoodLocals(c, held) /\ Goes(c)
    BY <1>1, <1>5 DEF GoodLocals, CallKind
  <2> HIDE DEF c
  <2> QED
    BY <1>1, <1>2, <1>3, <1>5, <2>1, KeepsOn
<1> QED
  BY <1>2, <1>4, <1>5

LEMMA ReadPathReadStep ==
  ASSUME Core, CallOK, LastOK, ReadPath_Read
  PROVE  Shaped /\ After
<1> DEFINE req == ReadRequest(call.x[2], call.size, 0)
<1>0. call.op = "readPath" /\ call.at = "read"
  BY DEF ReadPath_Read
<1>1. Running /\ ~ Aborting /\ call.x \in held /\ call.x[1] = "file"
  BY <1>0, LocalsAre DEF CallKind
<1>2. PICK r \in Exchanges(req) :
        /\ Takes(r)
        /\ \/ Dies("readPath")
           \/ Failing(r)
           \/ Fails("readPath") /\ held' = held \ {call.x}
           \/ /\ r.heard # Silence
              /\ ~ SendThrows(req, r.heard)
              /\ Goes([op |-> "readPath", at |-> "close", x |-> call.x,
                       data |-> Received(r.heard)])
              /\ UNCHANGED held
  BY DEF ReadPath_Read, SendCommand
<1>3. PlainReq(req)
  BY AnswerTable, OwnRequests DEF Changing, ReadRequest
<1> HIDE DEF req
<1>4. CASE \/ Dies("readPath") \/ Failing(r)
           \/ (Fails("readPath") /\ held' = held \ {call.x})
  <2>1. Spoils /\ held' \subseteq held
    BY <1>0, <1>4, FailsSpoils, FailingIs DEF Dies
  <2> QED
    BY <1>1, <1>2, <1>3, <2>1, KeepsOn
<1>5. CASE /\ r.heard # Silence
           /\ ~ SendThrows(req, r.heard)
           /\ Goes([op |-> "readPath", at |-> "close", x |-> call.x,
                    data |-> Received(r.heard)])
           /\ UNCHANGED held
  <2> DEFINE c == [op |-> "readPath", at |-> "close", x |-> call.x,
                   data |-> Received(r.heard)]
  <2>1. GoodLocals(c, held) /\ Goes(c)
    BY <1>1, <1>5 DEF GoodLocals, CallKind
  <2> HIDE DEF c
  <2> QED
    BY <1>1, <1>2, <1>3, <1>5, <2>1, KeepsOn
<1> QED
  BY <1>2, <1>4, <1>5

LEMMA ReadPathCloseStep ==
  ASSUME Core, CallOK, LastOK, ReadPath_Close
  PROVE  Shaped /\ After
<1> DEFINE req == HandleRequest("Close", call.x[2])
<1>0. call.op = "readPath" /\ call.at = "close"
  BY DEF ReadPath_Close
<1>1. Running /\ ~ Aborting /\ call.x \in held /\ call.x[1] = "file"
  BY <1>0, LocalsAre DEF CallKind
<1>2. PICK r \in Exchanges(req) :
        /\ Takes(r)
        /\ \/ Dies("readPath")
           \/ Failing(r)
           \/ Fails("readPath") /\ held' = held \ {call.x}
           \/ /\ r.heard # Silence
              /\ ~ SendThrows(req, r.heard)
              /\ ~ ErrorIn(r.heard)
              /\ held' = held \ {call.x}
              /\ Ends("readPath", "ok", call.x[3], call.data)
  BY DEF ReadPath_Close, SendCommand, CloseRequest
<1>3. EfsReq(req) /\ req.sub \in Closing /\ HandleOf(call.x) = ClosedBy(req)
  BY <1>1, OwnClose DEF HandleKind
<1> HIDE DEF req
<1>4. CASE \/ Dies("readPath") \/ Failing(r)
           \/ (Fails("readPath") /\ held' = held \ {call.x})
  <2>1. Spoils /\ held' \subseteq held \ {call.x}
    BY <1>0, <1>4, FailsSpoils, FailingIs DEF Dies
  <2> QED
    BY <1>1, <1>2, <1>3, <2>1, GivesOn
<1>5. CASE /\ r.heard # Silence
           /\ ~ SendThrows(req, r.heard)
           /\ ~ ErrorIn(r.heard)
           /\ held' = held \ {call.x}
           /\ Ends("readPath", "ok", call.x[3], call.data)
  BY <1>1, <1>2, <1>3, <1>5, GivesOn
<1> QED
  BY <1>2, <1>4, <1>5

----------------------------------------------------------------------------
(* readDir, of a path and of a directory.                                   *)

LEMMA ListFailsSpoils ==
  ASSUME NEW c, ListFails(c)
  PROVE  Spoils
<1>1. \E value : Ends("readDir", "throws", "none", value)
  BY DEF ListFails
<1> QED
  BY <1>1 DEF Spoils

LEMMA ListingFailingIs ==
  ASSUME NEW r, ListingFailing(r)
  PROVE  Spoils /\ held' \subseteq held \ {call.x}
<1>1. held' = held \ {call.x} /\ \E c : ListFails(c)
  BY DEF ListingFailing
<1> QED
  BY <1>1, ListFailsSpoils

(* The locals of a listing. *)
ListLocals(c) ==
  /\ c = [y \in DOMAIN c |-> c[y]]
  /\ {"op", "at", "x"} \subseteq DOMAIN c
  /\ c.op = "readDir"

LEMMA ListingIs ==
  ASSUME NEW path, NEW recursive
  PROVE  ListLocals(Listing(path, recursive))
BY DEF Listing, ListLocals

LEMMA ListingOpensStep ==
  ASSUME OpensComeWhole, Core, ~ Aborting, NEW c, ListLocals(c), ListingOpens(c)
  PROVE  Shaped /\ After
<1> DEFINE req == PathRequest("OpenDir", c.path)
<1>1. PICK r \in Exchanges(req) :
        /\ Takes(r)
        /\ \/ Dies("readDir")
           \/ ListFails(c) /\ UNCHANGED held
           \/ LET x == <<"dir", Got(r.heard, "dp"), c.path>>
              IN  /\ r.heard # Silence
                  /\ ~ SendThrows(req, r.heard)
                  /\ ~ ErrorIn(r.heard)
                  /\ held' = held \cup {x}
                  /\ Ended("readDir", "running", "none", "none")
                  /\ UNCHANGED spotless
                  /\ call' = [c EXCEPT !.at = "read", !.x = x,
                                !.refused = @ \/ Refuses(r)]
  BY DEF ListingOpens, SendCommand
<1>2. EfsReq(req) /\ req.sub = "OpenDir" /\ req.path = c.path
  BY AnswerTable, PathRequestIs
<1> HIDE DEF req
<1>3. HandleKind(req.sub) = "dir" /\ HandleField(req.sub) = "dp" /\ Sound(req)
  BY <1>2 DEF HandleKind, HandleField, Sound
<1> DEFINE x == <<"dir", Got(r.heard, "dp"), c.path>>
           d == [c EXCEPT !.at = "read", !.x = x, !.refused = @ \/ Refuses(r)]
<1>4. CASE Dies("readDir") \/ (ListFails(c) /\ UNCHANGED held)
  <2>1. Spoils /\ held' \subseteq held
    BY <1>4, FailsSpoils, ListFailsSpoils DEF Dies
  <2> QED
    BY <1>1, <1>2, <1>3, <2>1, BeginsWithOpen
<1>5. CASE /\ r.heard # Silence
           /\ ~ SendThrows(req, r.heard)
           /\ ~ ErrorIn(r.heard)
           /\ held' = held \cup {x}
           /\ Ended("readDir", "running", "none", "none")
           /\ UNCHANGED spotless
           /\ call' = d
  <2>0. x[1] = "dir" /\ x \in held'
    BY <1>5
  <2> HIDE DEF x
  <2>1. /\ DOMAIN d = DOMAIN c
        /\ d.op = "readDir" /\ d.at = "read" /\ d.x = x
        /\ d = [y \in DOMAIN d |-> d[y]]
    BY DEF ListLocals
  <2> HIDE DEF d
  <2>2. GoodLocals(d, held')
    BY <2>0, <2>1 DEF GoodLocals, CallKind, ListLocals
  <2>3. held' = held \cup {<<HandleKind(req.sub),
                              Got(r.heard, HandleField(req.sub)), req.path>>}
    BY <1>2, <1>3, <1>5 DEF x
  <2> QED
    BY <1>1, <1>2, <1>3, <1>5, <2>2, <2>3, BeginsWithOpen
<1> QED
  BY <1>1, <1>4, <1>5

LEMMA ReadDirStep ==
  ASSUME OpensComeWhole, Core, ~ Running, ReadDir
  PROVE  Shaped /\ After
<1>0. spotless \in BOOLEAN /\ ~ Aborting
  BY NotRunningOK DEF Core
<1>1. PICK path \in Paths, recursive \in BOOLEAN :
        \/ ListFails(Listing(path, recursive)) /\ UNCHANGED <<lineVars, held>>
        \/ ListingOpens(Listing(path, recursive))
  BY DEF ReadDir
<1> DEFINE c == Listing(path, recursive)
<1>2. ListLocals(c)
  BY ListingIs
<1> HIDE DEF c
<1>3. CASE ListFails(c) /\ UNCHANGED <<lineVars, held>>
  <2>1. After /\ spotless' = FALSE
    BY <1>0, <1>3, ListFailsSpoils, SpoilsWell
  <2>2. Quiet
    BY <1>3, <2>1 DEF Quiet
  <2> QED
    BY <2>1, <2>2 DEF Shaped
<1>4. CASE ListingOpens(c)
  BY <1>0, <1>2, <1>4, ListingOpensStep
<1> QED
  BY <1>1, <1>3, <1>4 DEF c

LEMMA ReadDirOpenStep ==
  ASSUME OpensComeWhole, Core, CallOK, ReadDir_Open
  PROVE  Shaped /\ After
<1>1. call.op = "readDir" /\ call.at = "open" /\ ListingOpens(call)
  BY DEF ReadDir_Open
<1>2. ListLocals(call) /\ ~ Aborting
  BY <1>1, LocalsAre DEF ListLocals
<1> QED
  BY <1>1, <1>2, ListingOpensStep

(* The locals as they were, but for those of what was read. *)
LEMMA LocalsKept ==
  ASSUME NEW c, NEW d, NEW handles,
         d = [y \in DOMAIN d |-> d[y]],
         {"op", "at", "x"} \subseteq DOMAIN d,
         d.op = c.op, d.x = c.x, c.op # "none",
         c.x \in handles, c.x[1] = CallKind(c.op)
  PROVE  GoodLocals(d, handles)
BY DEF GoodLocals

LEMMA ReadDirReadStep ==
  ASSUME Core, CallOK, LastOK, ReadDir_Read
  PROVE  Shaped /\ After
<1> DEFINE req == InLargeBuffer(HandleRequest("ReadDir", call.x[2]))
                    ++ [sequence |-> call.n]
           Name(r) == IF "name" \in DOMAIN r.heard.f THEN r.heard.f.name ELSE call.name
           Type(r) == IF "entryType" \in DOMAIN r.heard.f THEN r.heard.f.entryType
                      ELSE call.type
           Next_(r) == [call EXCEPT !.name = Name(r), !.type = Type(r),
                                    !.refused = @ \/ Refuses(r)]
           After_(r) == IF Name(r) = "" THEN [Next_(r) EXCEPT !.at = "close"]
                        ELSE [Next_(r) EXCEPT !.n = @ + 1,
                                !.found = @ \cup {<<call.path, Name(r), Type(r)>>},
                                !.below = IF Type(r) # TypeCode.dir THEN @
                                          ELSE Append(@, call.path \o <<Name(r), "/">>)]
<1>0. call.op = "readDir" /\ call.at = "read"
  BY DEF ReadDir_Read
<1>1. /\ Running /\ ~ Aborting /\ call.x \in held /\ call.x[1] = CallKind(call.op)
      /\ {"op", "at", "x"} \subseteq DOMAIN call
  BY <1>0, LocalsAre
<1>2. PICK r \in Exchanges(req) :
        /\ Takes(r)
        /\ \/ Dies("readDir")
           \/ r.heard # Silence /\ Abandons(r)
           \/ /\ r.heard # Silence
              /\ ~ SendThrows(req, r.heard)
              /\ Goes(After_(r))
              /\ UNCHANGED held
  BY DEF ReadDir_Read, SendCommand
<1>3. PlainReq(req)
  BY AnswerTable, OwnRequests DEF Changing
<1> HIDE DEF req
<1>4. CASE Dies("readDir")
  <2>1. Spoils /\ held' \subseteq held
    BY <1>4, FailsSpoils DEF Dies
  <2> QED
    BY <1>1, <1>2, <1>3, <2>1, KeepsOn
<1>5. CASE r.heard # Silence /\ Abandons(r)
  <2> DEFINE d == [call EXCEPT !.at = "abort", !.refused = @ \/ Refuses(r)]
  <2>1. Goes(d) /\ UNCHANGED held
    BY <1>5 DEF Abandons
  <2>2. /\ d = [y \in DOMAIN d |-> d[y]] /\ DOMAIN d = DOMAIN call
        /\ d.op = call.op /\ d.x = call.x /\ d.at = "abort"
    BY <1>1
  <2> HIDE DEF d
  <2>3. GoodLocals(d, held)
    BY <1>0, <1>1, <2>2, LocalsKept
  <2> QED
    BY <1>1, <1>2, <1>3, <1>5, <2>1, <2>2, <2>3, KeepsOn
<1>6. CASE /\ r.heard # Silence
           /\ ~ SendThrows(req, r.heard)
           /\ Goes(After_(r))
           /\ UNCHANGED held
  <2> DEFINE n == Next_(r)
             d == After_(r)
  <2>1. /\ DOMAIN n = DOMAIN call /\ n.op = call.op /\ n.x = call.x
    BY <1>1
  <2>2. /\ d = [y \in DOMAIN d |-> d[y]] /\ DOMAIN d = DOMAIN call
        /\ d.op = call.op /\ d.x = call.x
    <3> DEFINE close == [n EXCEPT !.at = "close"]
               more == [n EXCEPT !.n = @ + 1,
                          !.found = @ \cup {<<call.path, Name(r), Type(r)>>},
                          !.below = IF Type(r) # TypeCode.dir THEN @
                                    ELSE Append(@, call.path \o <<Name(r), "/">>)]
    <3>1. d = close \/ d = more
      OBVIOUS
    <3> HIDE DEF d
    <3> HIDE DEF n
    <3>2. /\ close = [y \in DOMAIN close |-> close[y]] /\ DOMAIN close = DOMAIN call
          /\ close.op = call.op /\ close.x = call.x
      BY <1>1, <2>1
    <3>3. /\ more = [y \in DOMAIN more |-> more[y]] /\ DOMAIN more = DOMAIN call
          /\ more.op = call.op /\ more.x = call.x
      BY <1>1, <2>1
    <3> HIDE DEF close, more
    <3> QED
      BY <3>1, <3>2, <3>3
  <2>3. Goes(d) /\ UNCHANGED held
    BY <1>6
  <2> HIDE DEF d
  <2>4. GoodLocals(d, held)
    BY <1>0, <1>1, <2>2, LocalsKept
  <2> QED
    BY <1>1, <1>2, <1>3, <1>6, <2>3, <2>4, KeepsOn
<1> QED
  BY <1>2, <1>4, <1>5, <1>6

LEMMA ReadDirAbortStep ==
  ASSUME Core, CallOK, LastOK, ReadDir_Abort
  PROVE  Shaped /\ After
<1> DEFINE req == HandleRequest("CloseDir", call.x[2])
<1>0. call.op = "readDir" /\ call.at = "abort"
  BY DEF ReadDir_Abort
<1>1. Running /\ call.x \in held /\ call.x[1] = "dir"
  BY <1>0, LocalsAre DEF CallKind
<1>2. PICK r \in Exchanges(req) :
        Takes(r) /\ (Dies("readDir") \/ ListingFailing(r))
  BY DEF ReadDir_Abort, SendCommand
<1>3. EfsReq(req) /\ req.sub \in Closing /\ HandleOf(call.x) = ClosedBy(req)
  BY <1>1, OwnClose DEF HandleKind
<1> HIDE DEF req
<1>4. Spoils /\ held' \subseteq held \ {call.x}
  BY <1>2, FailsSpoils, ListingFailingIs DEF Dies
<1> QED
  BY <1>1, <1>2, <1>3, <1>4, GivesOn

LEMMA ReadDirCloseStep ==
  ASSUME Core, CallOK, LastOK, ReadDir_Close
  PROVE  Shaped /\ After
<1> DEFINE req == HandleRequest("CloseDir", call.x[2])
           todo == (IF call.recursive THEN call.below ELSE <<>>) \o call.todo
<1>0. call.op = "readDir" /\ call.at = "close"
  BY DEF ReadDir_Close
<1>1. Running /\ ~ Aborting /\ call.x \in held /\ call.x[1] = "dir"
      /\ {"op", "at", "x"} \subseteq DOMAIN call
  BY <1>0, LocalsAre DEF CallKind
<1>2. PICK r \in Exchanges(req) :
        /\ Takes(r)
        /\ \/ Dies("readDir")
           \/ ListingFailing(r)
           \/ /\ r.heard # Silence
              /\ ~ SendThrows(req, r.heard)
              /\ ~ ErrorIn(r.heard)
              /\ held' = held \ {call.x}
              /\ \/ Goes(ListingNext(call, todo))
                 \/ Ends("readDir", "ok", call.top,
                            [dir |-> HandleOf(call.x),
                             refused |-> call.refused \/ Refuses(r),
                             found |-> call.found, recursive |-> call.recursive])
  BY DEF ReadDir_Close, SendCommand
<1>3. EfsReq(req) /\ req.sub \in Closing /\ HandleOf(call.x) = ClosedBy(req)
  BY <1>1, OwnClose DEF HandleKind
<1> HIDE DEF req, todo
<1>4. CASE Dies("readDir") \/ ListingFailing(r)
  <2>1. Spoils /\ held' \subseteq held \ {call.x}
    BY <1>4, FailsSpoils, ListingFailingIs DEF Dies
  <2> QED
    BY <1>1, <1>2, <1>3, <2>1, GivesOn
<1>5. ASSUME r.heard # Silence, ~ SendThrows(req, r.heard), ~ ErrorIn(r.heard),
             held' = held \ {call.x}, Goes(ListingNext(call, todo))
      PROVE  Shaped /\ After
  <2> DEFINE d == ListingNext(call, todo)
  <2>1. /\ d = [y \in DOMAIN d |-> d[y]] /\ DOMAIN d = DOMAIN call
        /\ d.op = call.op /\ d.at = "open"
    BY <1>1 DEF ListingNext
  <2> HIDE DEF d
  <2>2. GoodLocals(d, held') /\ Goes(d)
    BY <1>0, <1>1, <1>5, <2>1 DEF GoodLocals, d
  <2> QED
    BY <1>1, <1>2, <1>3, <1>5, <2>1, <2>2, GivesOn
<1>6. ASSUME r.heard # Silence, ~ SendThrows(req, r.heard), ~ ErrorIn(r.heard),
             held' = held \ {call.x},
             NEW value, Ends("readDir", "ok", call.top, value)
      PROVE  Shaped /\ After
  BY <1>1, <1>2, <1>3, <1>6, GivesOn
<1> QED
  BY <1>2, <1>4, <1>5, <1>6

LEMMA ReadDirectoryStep ==
  ASSUME Core, ~ Running, ReadDirectory
  PROVE  Shaped /\ After
<1>0. spotless \in BOOLEAN /\ ~ Aborting
  BY NotRunningOK DEF Core
<1>1. PICK x \in DirArguments :
        IF x = InvalidDir THEN Invalid("readDirectory")
        ELSE /\ Begins("readDirectory", [op |-> "readDirectory", at |-> "read",
                                         x |-> x, n |-> 1, name |-> ""])
             /\ UNCHANGED <<lineVars, held>>
  BY DEF ReadDirectory
<1>2. CASE x = InvalidDir
  BY <1>0, <1>1, <1>2, InvalidStep
<1>3. CASE x # InvalidDir
  <2> DEFINE c == [op |-> "readDirectory", at |-> "read", x |-> x, n |-> 1, name |-> ""]
  <2>1. x \in held /\ x[1] = "dir"
    BY <1>3 DEF DirArguments, Handles
  <2>2. Begins("readDirectory", c) /\ UNCHANGED <<lineVars, held>>
    BY <1>1, <1>3
  <2>3. GoodLocals(c, held')
    BY <2>1, <2>2 DEF GoodLocals, CallKind
  <2> HIDE DEF c
  <2>4. /\ Ended("readDirectory", "running", "none", "none")
        /\ spotless' = spotless /\ call' = c
    BY <2>2 DEF Begins
  <2>5. After
    BY <2>3, <2>4, StartsWell
  <2>6. Quiet
    BY <1>0, <2>2, <2>4 DEF Quiet
  <2> QED
    BY <2>5, <2>6 DEF Shaped
<1> QED
  BY <1>2, <1>3

LEMMA ReadDirectoryReadStep ==
  ASSUME Core, CallOK, LastOK, ReadDirectory_Read
  PROVE  Shaped /\ After
<1> DEFINE req == InLargeBuffer(HandleRequest("ReadDir", call.x[2]))
                    ++ [sequence |-> call.n]
           abort == [call EXCEPT !.at = "abort"]
           Name(r) == IF "name" \in DOMAIN r.heard.f THEN r.heard.f.name ELSE call.name
           More(r) == [call EXCEPT !.n = @ + 1, !.name = Name(r)]
<1>0. call.op = "readDirectory" /\ call.at = "read"
  BY DEF ReadDirectory_Read
<1>1. /\ Running /\ ~ Aborting /\ call.x \in held /\ call.x[1] = CallKind(call.op)
      /\ {"op", "at", "x"} \subseteq DOMAIN call
  BY <1>0, LocalsAre
<1>2. PICK r \in Exchanges(req) :
        /\ Takes(r)
        /\ \/ Dies("readDirectory")
           \/ /\ r.heard # Silence
              /\ Goes(abort)
              /\ UNCHANGED held
           \/ /\ r.heard # Silence
              /\ ~ SendThrows(req, r.heard)
              /\ \/ Ends("readDirectory", "ok", "none", "none")
                 \/ Goes(More(r))
              /\ UNCHANGED held
  BY DEF ReadDirectory_Read, SendCommand
<1>3. PlainReq(req)
  BY AnswerTable, OwnRequests DEF Changing
<1> HIDE DEF req
<1>4. CASE Dies("readDirectory")
  <2>1. Spoils /\ held' \subseteq held
    BY <1>4, FailsSpoils DEF Dies
  <2> QED
    BY <1>1, <1>2, <1>3, <2>1, KeepsOn
<1>5. CASE /\ r.heard # Silence
           /\ Goes(abort)
           /\ UNCHANGED held
  <2>1. /\ abort = [y \in DOMAIN abort |-> abort[y]] /\ DOMAIN abort = DOMAIN call
        /\ abort.op = call.op /\ abort.x = call.x /\ abort.at = "abort"
    BY <1>1
  <2> HIDE DEF abort
  <2>2. GoodLocals(abort, held)
    BY <1>0, <1>1, <2>1, LocalsKept
  <2> QED
    BY <1>1, <1>2, <1>3, <1>5, <2>1, <2>2, KeepsOn
<1>6. ASSUME r.heard # Silence, ~ SendThrows(req, r.heard), held' = held,
             Goes(More(r))
      PROVE  Shaped /\ After
  <2> DEFINE d == More(r)
  <2>1. /\ d = [y \in DOMAIN d |-> d[y]] /\ DOMAIN d = DOMAIN call
        /\ d.op = call.op /\ d.x = call.x
    BY <1>1
  <2>2. Goes(d)
    BY <1>6
  <2> HIDE DEF d
  <2>3. GoodLocals(d, held)
    BY <1>0, <1>1, <2>1, LocalsKept
  <2> QED
    BY <1>1, <1>2, <1>3, <1>6, <2>2, <2>3, KeepsOn
<1>7. ASSUME r.heard # Silence, ~ SendThrows(req, r.heard), held' = held,
             Ends("readDirectory", "ok", "none", "none")
      PROVE  Shaped /\ After
  BY <1>1, <1>2, <1>3, <1>7, KeepsOn
<1> QED
  BY <1>2, <1>4, <1>5, <1>6, <1>7

LEMMA ReadDirectoryAbortStep ==
  ASSUME Core, CallOK, LastOK, ReadDirectory_Abort
  PROVE  Shaped /\ After
<1> DEFINE req == HandleRequest("CloseDir", call.x[2])
<1>0. call.op = "readDirectory" /\ call.at = "abort"
  BY DEF ReadDirectory_Abort
<1>1. Running /\ call.x \in held /\ call.x[1] = "dir"
  BY <1>0, LocalsAre DEF CallKind
<1>2. PICK r \in Exchanges(req) :
        Takes(r) /\ (Dies("readDirectory") \/ Failing(r))
  BY DEF ReadDirectory_Abort, SendCommand
<1>3. EfsReq(req) /\ req.sub \in Closing /\ HandleOf(call.x) = ClosedBy(req)
  BY <1>1, OwnClose DEF HandleKind
<1> HIDE DEF req
<1>4. Spoils /\ held' \subseteq held \ {call.x}
  BY <1>0, <1>2, FailsSpoils, FailingIs DEF Dies
<1> QED
  BY <1>1, <1>2, <1>3, <1>4, GivesOn

----------------------------------------------------------------------------
(* The shell's get and put.                                                 *)

LEMMA ShellOpensStep ==
  ASSUME OpensComeWhole, Core, ~ Running, NEW op \in {"get", "put"},
         NEW path, NEW creates, creates => WellNamed(path),
         NEW c, "at" \in DOMAIN c,
         DOMAIN c \cap {"op", "x"} = {},
         ShellOpens(op, path, creates, c)
  PROVE  Shaped /\ After
<1>0. spotless \in BOOLEAN /\ ~ Aborting
  BY NotRunningOK DEF Core
<1> DEFINE req == OpenRequest(path, creates)
<1>1. PICK r \in Exchanges(req) :
        /\ Takes(r)
        /\ \/ Dies(op)
           \/ Fails(op) /\ UNCHANGED held
           \/ LET x == <<"file", Got(r.heard, "fp"), path>>
              IN  /\ r.heard # Silence
                  /\ ~ SendThrows(req, r.heard)
                  /\ ~ ErrorIn(r.heard)
                  /\ held' = held \cup {x}
                  /\ Begins(op, c ++ [op |-> op, x |-> x])
  BY DEF ShellOpens, SendCommand
<1>2. EfsReq(req) /\ req.sub = "Open" /\ req.path = path /\ Sound(req)
  BY OpenRequestIs
<1> HIDE DEF req
<1>3. HandleKind(req.sub) = "file" /\ HandleField(req.sub) = "fp"
  BY <1>2 DEF HandleKind, HandleField
<1> DEFINE x == <<"file", Got(r.heard, "fp"), path>>
           d == c ++ [op |-> op, x |-> x]
<1>4. CASE Dies(op) \/ (Fails(op) /\ UNCHANGED held)
  <2>1. Spoils /\ held' \subseteq held
    BY <1>4, FailsSpoils DEF Dies
  <2> QED
    BY <1>0, <1>1, <1>2, <2>1, BeginsWithOpen
<1>5. CASE /\ r.heard # Silence
           /\ ~ SendThrows(req, r.heard)
           /\ ~ ErrorIn(r.heard)
           /\ held' = held \cup {x}
           /\ Begins(op, d)
  <2>0. x[1] = "file" /\ x \in held'
    BY <1>5
  <2>3. held' = held \cup {<<HandleKind(req.sub),
                              Got(r.heard, HandleField(req.sub)), req.path>>}
    BY <1>2, <1>3, <1>5
  <2> HIDE DEF x
  <2>1. /\ {"op", "at", "x"} \subseteq DOMAIN d
        /\ d.op = op /\ d.x = x
        /\ d = [y \in DOMAIN d |-> d[y]]
    BY DEF ++
  <2> HIDE DEF d
  <2>2. GoodLocals(d, held')
    BY <2>0, <2>1 DEF GoodLocals, CallKind
  <2>4. Ended(op, "running", "none", "none") /\ UNCHANGED spotless /\ call' = d
    BY <1>5 DEF Begins
  <2> QED
    BY <1>0, <1>1, <1>2, <1>5, <2>2, <2>3, <2>4, BeginsWithOpen
<1> QED
  BY <1>1, <1>4, <1>5

LEMMA GetNextIs ==
  ASSUME NEW data, NEW size, GetNext(data, size), call.x \in held, call.x[1] = "file"
  PROVE  held' = held /\ \E c : Goes(c) /\ GoodLocals(c, held)
<1> DEFINE c == [op |-> "get", x |-> call.x, data |-> data, size |-> size,
                 at |-> IF Len(data) = size THEN "close" ELSE "read"]
<1>1. Goes(c) /\ held' = held
  BY DEF GetNext
<1>2. GoodLocals(c, held)
  BY DEF GoodLocals, CallKind
<1> HIDE DEF c
<1> QED
  BY <1>1, <1>2

LEMMA GetFstatStep ==
  ASSUME Core, CallOK, LastOK, Get_Fstat
  PROVE  Shaped /\ After
<1> DEFINE req == HandleRequest("Fstat", call.x[2])
<1>0. call.op = "get" /\ call.at = "fstat"
  BY DEF Get_Fstat, StepOf
<1>1. Running /\ ~ Aborting /\ call.x \in held /\ call.x[1] = "file"
  BY <1>0, LocalsAre DEF CallKind
<1>2. PICK r \in Exchanges(req) :
        /\ Takes(r)
        /\ \/ Dies("get")
           \/ Failing(r)
           \/ Ends("get", "zero", "none", "none") /\ held' = held \ {call.x}
           \/ /\ r.heard # Silence
              /\ ~ SendThrows(req, r.heard)
              /\ GetNext(<<>>, Got(r.heard, "size"))
  BY DEF Get_Fstat, SendCommand
<1>3. PlainReq(req)
  BY AnswerTable, OwnRequests DEF Changing
<1> HIDE DEF req
<1>4. CASE \/ Dies("get") \/ Failing(r)
           \/ (Ends("get", "zero", "none", "none") /\ held' = held \ {call.x})
  <2>1. Spoils /\ held' \subseteq held
    BY <1>0, <1>4, FailsSpoils, FailingIs DEF Dies, Spoils
  <2> QED
    BY <1>1, <1>2, <1>3, <2>1, KeepsOn
<1>5. ASSUME r.heard # Silence, ~ SendThrows(req, r.heard),
             NEW data, NEW size, GetNext(data, size)
      PROVE  Shaped /\ After
  <2>1. held' = held /\ \E c : Goes(c) /\ GoodLocals(c, held)
    BY <1>1, <1>5, GetNextIs
  <2> QED
    BY <1>1, <1>2, <1>3, <1>5, <2>1, KeepsOn
<1> QED
  BY <1>2, <1>4, <1>5

LEMMA GetReadStep ==
  ASSUME Core, CallOK, LastOK, Get_Read
  PROVE  Shaped /\ After
<1> DEFINE req == ReadRequest(call.x[2], call.size - Len(call.data), Len(call.data))
<1>0. call.op = "get" /\ call.at = "read"
  BY DEF Get_Read, StepOf
<1>1. Running /\ ~ Aborting /\ call.x \in held /\ call.x[1] = "file"
  BY <1>0, LocalsAre DEF CallKind
<1>2. PICK r \in Exchanges(req) :
        /\ Takes(r)
        /\ \/ Dies("get")
           \/ Failing(r)
           \/ /\ r.heard # Silence
              /\ ~ SendThrows(req, r.heard)
              /\ GetNext(call.data \o Received(r.heard), call.size)
  BY DEF Get_Read, SendCommand
<1>3. PlainReq(req)
  BY AnswerTable, OwnRequests DEF Changing, ReadRequest
<1> HIDE DEF req
<1>4. CASE Dies("get") \/ Failing(r)
  <2>1. Spoils /\ held' \subseteq held
    BY <1>0, <1>4, FailsSpoils, FailingIs DEF Dies
  <2> QED
    BY <1>1, <1>2, <1>3, <2>1, KeepsOn
<1>5. ASSUME r.heard # Silence, ~ SendThrows(req, r.heard),
             NEW data, NEW size, GetNext(data, size)
      PROVE  Shaped /\ After
  <2>1. held' = held /\ \E c : Goes(c) /\ GoodLocals(c, held)
    BY <1>1, <1>5, GetNextIs
  <2> QED
    BY <1>1, <1>2, <1>3, <1>5, <2>1, KeepsOn
<1> QED
  BY <1>2, <1>4, <1>5

LEMMA GetCloseStep ==
  ASSUME Core, CallOK, LastOK, Get_Close
  PROVE  Shaped /\ After
<1> DEFINE req == HandleRequest("Close", call.x[2])
<1>0. call.op = "get" /\ call.at = "close"
  BY DEF Get_Close, StepOf
<1>1. Running /\ ~ Aborting /\ call.x \in held /\ call.x[1] = "file"
  BY <1>0, LocalsAre DEF CallKind
<1>2. PICK r \in Exchanges(req) :
        /\ Takes(r)
        /\ \/ Dies("get")
           \/ Failing(r)
           \/ /\ r.heard # Silence
              /\ ~ SendThrows(req, r.heard)
              /\ ~ ErrorIn(r.heard)
              /\ held' = held \ {call.x}
              /\ Ends("get", "ok", call.x[3], call.data)
  BY DEF Get_Close, SendCommand, CloseRequest
<1>3. EfsReq(req) /\ req.sub \in Closing /\ HandleOf(call.x) = ClosedBy(req)
  BY <1>1, OwnClose DEF HandleKind
<1> HIDE DEF req
<1>4. CASE Dies("get") \/ Failing(r)
  <2>1. Spoils /\ held' \subseteq held \ {call.x}
    BY <1>0, <1>4, FailsSpoils, FailingIs DEF Dies
  <2> QED
    BY <1>1, <1>2, <1>3, <2>1, GivesOn
<1>5. CASE /\ r.heard # Silence
           /\ ~ SendThrows(req, r.heard)
           /\ ~ ErrorIn(r.heard)
           /\ held' = held \ {call.x}
           /\ Ends("get", "ok", call.x[3], call.data)
  BY <1>1, <1>2, <1>3, <1>5, GivesOn
<1> QED
  BY <1>2, <1>4, <1>5

LEMMA PutWriteStep ==
  ASSUME Core, CallOK, LastOK, Put_Write
  PROVE  Shaped /\ After
<1> DEFINE left == SubSeq(call.data, call.written + 1, Len(call.data))
           req == WriteRequest(call.x[2], left, call.written)
           Written(r) == call.written + Got(r.heard, "bytesWritten")
           More(r) == [call EXCEPT !.written = Written(r),
                         !.at = IF Written(r) = Len(call.data) THEN "close" ELSE "write"]
<1>0. call.op = "put" /\ call.at = "write"
  BY DEF Put_Write, StepOf
<1>1. /\ Running /\ ~ Aborting /\ call.x \in held /\ call.x[1] = CallKind(call.op)
      /\ {"op", "at", "x"} \subseteq DOMAIN call
  BY <1>0, LocalsAre
<1>2. PICK r \in Exchanges(req) :
        /\ Takes(r)
        /\ \/ Dies("put")
           \/ Failing(r)
           \/ /\ r.heard # Silence
              /\ ~ SendThrows(req, r.heard)
              /\ Goes(More(r))
              /\ UNCHANGED held
  BY DEF Put_Write, SendCommand
<1>3. PlainReq(req)
  <2>1. PutLocals => left \in Seq(Nat) /\ call.written \in Nat
    BY <1>0 DEF PutLocals
  <2> HIDE DEF left
  <2>2. /\ EfsReq(req) /\ req.sub = "Write"
        /\ req.data = left /\ req.offset = call.written
    BY WriteRequestIs
  <2> HIDE DEF req
  <2> QED
    BY <2>1, <2>2 DEF PlainReq, Closing, Sound
<1> HIDE DEF req, left
<1>4. CASE Dies("put") \/ Failing(r)
  <2>1. Spoils /\ held' \subseteq held
    BY <1>0, <1>4, FailsSpoils, FailingIs DEF Dies
  <2> QED
    BY <1>1, <1>2, <1>3, <2>1, KeepsOn
<1>5. CASE /\ r.heard # Silence
           /\ ~ SendThrows(req, r.heard)
           /\ Goes(More(r))
           /\ UNCHANGED held
  <2> DEFINE d == More(r)
  <2>1. /\ d = [y \in DOMAIN d |-> d[y]] /\ DOMAIN d = DOMAIN call
        /\ d.op = call.op /\ d.x = call.x
    BY <1>1
  <2>2. Goes(d)
    BY <1>5
  <2> HIDE DEF d
  <2>3. GoodLocals(d, held)
    BY <1>0, <1>1, <2>1, LocalsKept
  <2> QED
    BY <1>1, <1>2, <1>3, <1>5, <2>2, <2>3, KeepsOn
<1> QED
  BY <1>2, <1>4, <1>5

LEMMA PutCloseStep ==
  ASSUME Core, CallOK, LastOK, Put_Close
  PROVE  Shaped /\ After
<1> DEFINE req == HandleRequest("Close", call.x[2])
<1>0. call.op = "put" /\ call.at = "close"
  BY DEF Put_Close, StepOf
<1>1. Running /\ ~ Aborting /\ call.x \in held /\ call.x[1] = "file"
  BY <1>0, LocalsAre DEF CallKind
<1>2. PICK r \in Exchanges(req) :
        /\ Takes(r)
        /\ \/ Dies("put")
           \/ Failing(r)
           \/ /\ r.heard # Silence
              /\ ~ SendThrows(req, r.heard)
              /\ ~ ErrorIn(r.heard)
              /\ held' = held \ {call.x}
              /\ \E ret \in {"ok", "zero"} :
                   Ends("put", ret, call.x[3], [data |-> call.data, old |-> call.old])
  BY DEF Put_Close, SendCommand, CloseRequest
<1>3. EfsReq(req) /\ req.sub \in Closing /\ HandleOf(call.x) = ClosedBy(req)
  BY <1>1, OwnClose DEF HandleKind
<1> HIDE DEF req
<1>4. CASE Dies("put") \/ Failing(r)
  <2>1. Spoils /\ held' \subseteq held \ {call.x}
    BY <1>0, <1>4, FailsSpoils, FailingIs DEF Dies
  <2> QED
    BY <1>1, <1>2, <1>3, <2>1, GivesOn
<1>5. ASSUME r.heard # Silence, ~ SendThrows(req, r.heard), ~ ErrorIn(r.heard),
             held' = held \ {call.x}, NEW value,
             Ends("put", "ok", call.x[3], value)
      PROVE  Shaped /\ After
  BY <1>1, <1>2, <1>3, <1>5, GivesOn
<1>6. ASSUME held' = held \ {call.x}, NEW value, Ends("put", "zero", call.x[3], value)
      PROVE  Shaped /\ After
  <2>1. Spoils /\ held' \subseteq held \ {call.x}
    BY <1>6 DEF Spoils
  <2> QED
    BY <1>1, <1>2, <1>3, <2>1, GivesOn
<1> QED
  BY <1>2, <1>4, <1>5, <1>6

----------------------------------------------------------------------------
(* The rest of diag.                                                        *)

(* What a method of QcdmSerial comes to, but for what it returns. *)
Asked ==
  /\ last'.ret \in {"ok", "throws", "dies"}
  /\ \/ UNCHANGED lineVars /\ last'.ret # "dies"
     \/ \E req : QcdmReq(req) /\ \E x \in Exchanges(req) : Takes(x)

LEMMA QcdmRequests ==
  /\ \A cmd : cmd \notin {"subsys", "nvRead", "nvWrite"} =>
       QcdmReq(Request(cmd)) /\ QcdmReq(AnyRequest(cmd))
  /\ \A mode : QcdmReq(Request("control") ++ [mode |-> mode])
  /\ \A item \in Items : QcdmReq(Request("nvRead") ++ [item |-> item])
  /\ \A item \in Items, value \in Values :
       QcdmReq(Request("nvWrite") ++ [item |-> item, value |-> value])
<1>1. ASSUME NEW cmd
      PROVE  /\ Request(cmd).cmd = cmd /\ Request(cmd).sub = "none"
             /\ AnyRequest(cmd).cmd = cmd /\ AnyRequest(cmd).sub = "none"
             /\ DOMAIN Request(cmd) = {"cmd", "sub", "any"}
  BY DEF Request, AnyRequest
<1>2. ASSUME NEW q, DOMAIN q = {"cmd", "sub", "any"}, NEW g
      PROVE  /\ (q ++ g).cmd = q.cmd /\ (q ++ g).sub = q.sub
             /\ "item" \in DOMAIN g => (q ++ g).item = g["item"]
             /\ "value" \in DOMAIN g => (q ++ g).value = g["value"]
  BY <1>2 DEF ++
<1>3. ASSUME NEW mode
      PROVE  QcdmReq(Request("control") ++ [mode |-> mode])
  <2> DEFINE q == Request("control")
             g == [mode |-> mode]
  <2>1. q.cmd = "control" /\ q.sub = "none" /\ DOMAIN q = {"cmd", "sub", "any"}
    BY <1>1
  <2> HIDE DEF q, g
  <2>2. (q ++ g).cmd = "control" /\ (q ++ g).sub = "none"
    BY <1>2, <2>1
  <2>3. QcdmReq(q ++ g)
    BY <2>2 DEF QcdmReq
  <2> QED
    BY <2>3 DEF q, g
<1>4. ASSUME NEW item \in Items
      PROVE  QcdmReq(Request("nvRead") ++ [item |-> item])
  <2> DEFINE q == Request("nvRead")
             g == [item |-> item]
  <2>1. q.cmd = "nvRead" /\ q.sub = "none" /\ DOMAIN q = {"cmd", "sub", "any"}
    BY <1>1
  <2>2. "item" \in DOMAIN g /\ g["item"] = item
    OBVIOUS
  <2> HIDE DEF q, g
  <2>3. (q ++ g).cmd = "nvRead" /\ (q ++ g).sub = "none" /\ (q ++ g).item = item
    BY <1>2, <2>1, <2>2
  <2>4. QcdmReq(q ++ g)
    BY <2>3 DEF QcdmReq
  <2> QED
    BY <2>4 DEF q, g
<1>5. ASSUME NEW item \in Items, NEW value \in Values
      PROVE  QcdmReq(Request("nvWrite") ++ [item |-> item, value |-> value])
  <2> DEFINE q == Request("nvWrite")
             g == [item |-> item, value |-> value]
  <2>1. q.cmd = "nvWrite" /\ q.sub = "none" /\ DOMAIN q = {"cmd", "sub", "any"}
    BY <1>1
  <2>2. DOMAIN g = {"item", "value"} /\ g["item"] = item /\ g["value"] = value
    OBVIOUS
  <2> HIDE DEF q, g
  <2>3. /\ (q ++ g).cmd = "nvWrite" /\ (q ++ g).sub = "none"
        /\ (q ++ g).item = item /\ (q ++ g).value = value
    BY <1>2, <2>1, <2>2
  <2>4. QcdmReq(q ++ g)
    BY <2>3 DEF QcdmReq
  <2> QED
    BY <2>4 DEF q, g
<1>6. ASSUME NEW cmd, cmd \notin {"subsys", "nvRead", "nvWrite"}
      PROVE  QcdmReq(Request(cmd)) /\ QcdmReq(AnyRequest(cmd))
  BY <1>1, <1>6 DEF QcdmReq
<1> QED
  BY <1>3, <1>4, <1>5, <1>6

LEMMA QcdmCalls ==
  ASSUME \/ GetVersion \/ GetDiagVersion \/ GetStatus \/ GetGuid \/ SendSpc
         \/ SendPassword \/ SwitchToDload \/ SetPhoneMode \/ WriteNV \/ PeekNV
         \/ SendHtcNvUnlock \/ SendLgNvUnlock \/ GetLgSpc \/ GetErrorLog
  PROVE  Asked /\ last'.op \notin {"readNV", "readDir", "readPath", "get", "put"}
<1>1. CASE GetVersion
  BY <1>1, QcdmRequests DEF GetVersion, Exchange, Ended, Asked
<1>2. CASE GetDiagVersion
  BY <1>2, QcdmRequests DEF GetDiagVersion, Exchange, Ended, Asked
<1>3. CASE GetStatus
  BY <1>3, QcdmRequests DEF GetStatus, Exchange, Ended, Asked
<1>4. CASE GetGuid
  BY <1>4, QcdmRequests DEF GetGuid, Exchange, Ended, Asked
<1>5. CASE SendSpc
  BY <1>5, QcdmRequests DEF SendSpc, Exchange, Ended, Rejects, Asked
<1>6. CASE SendPassword
  BY <1>6, QcdmRequests DEF SendPassword, Ended, Rejects, Asked
<1>7. CASE SwitchToDload
  BY <1>7, QcdmRequests DEF SwitchToDload, Exchange, Ended, Asked
<1>8. CASE SetPhoneMode
  BY <1>8, QcdmRequests DEF SetPhoneMode, Exchange, Ended, Asked
<1>9. CASE WriteNV
  BY <1>9, QcdmRequests DEF WriteNV, Exchange, Ended, Rejects, Asked
<1>10. CASE PeekNV
  BY <1>10, QcdmRequests DEF PeekNV, Exchange, Ended, Rejects, Asked
<1>11. CASE SendHtcNvUnlock
  BY <1>11, QcdmRequests DEF SendHtcNvUnlock, Exchange, Ended, Asked
<1>12. CASE SendLgNvUnlock
  BY <1>12, QcdmRequests DEF SendLgNvUnlock, Exchange, Ended, Asked
<1>13. CASE GetLgSpc
  BY <1>13, QcdmRequests DEF GetLgSpc, Exchange, Ended, Asked
<1>14. CASE GetErrorLog
  BY <1>14, QcdmRequests DEF GetErrorLog, Exchange, Ended, Asked
<1> QED
  BY <1>1, <1>2, <1>3, <1>4, <1>5, <1>6, <1>7, <1>8, <1>9, <1>10, <1>11, <1>12,
     <1>13, <1>14

(* The value that readNV returns. *)
LEMMA ReadNvCall ==
  ASSUME OpensComeWhole, Core, ReadNV
  PROVE  Asked /\ NvReadIsPhones'
<1>1. PICK item \in Items :
        \E x \in Exchanges(Request("nvRead") ++ [item |-> item]) :
          /\ Takes(x)
          /\ \/ last'.ret \in {"dies", "throws"}
             \/ /\ x.heard.cmd = "nvRead"
                /\ last'.ret = "ok"
                /\ last'.arg = item
                /\ last'.value = Field(x.heard, "value")
  <2>1. \A item \in Items :
          LET q == Request("nvRead") ++ [item |-> item]
          IN  q.cmd = "nvRead" /\ q.any = FALSE
    BY DEF ++, Request
  <2> QED
    BY <2>1 DEF ReadNV, Exchange, Ended, Throws
<1> DEFINE req == Request("nvRead") ++ [item |-> item]
<1>2. QcdmReq(req)
  BY QcdmRequests
<1>3. req.cmd = "nvRead" /\ req.item = item
  BY DEF ++, Request
<1>4. PICK x \in Exchanges(req) :
        /\ Takes(x)
        /\ \/ last'.ret \in {"dies", "throws"}
           \/ /\ x.heard.cmd = "nvRead"
              /\ last'.ret = "ok"
              /\ last'.arg = item
              /\ last'.value = Field(x.heard, "value")
  BY <1>1
<1> HIDE DEF req
<1>5. Asked
  BY <1>2, <1>4 DEF Asked
<1>6. ASSUME last'.ret = "ok"
      PROVE  IF InStep' THEN last'.value = phone'.nv[last'.arg]
             ELSE last'.value \in {"factory"} \cup Values
  <2>1. /\ x.heard.cmd = "nvRead"
        /\ last'.arg = item
        /\ last'.value = Field(x.heard, "value")
    BY <1>4, <1>6
  <2>2. PacketOK(x.heard)
    BY <1>2, HeardPacketOK DEF Req, QcdmReq, Closing
  <2>3. /\ last'.value = x.heard.f["value"]
        /\ last'.value \in NvValues
    BY <2>1, <2>2 DEF PacketOK, Field
  <2>4. ASSUME InStep'
        PROVE  last'.value = phone'.nv[last'.arg]
    <3>1. x.rest = <<>> /\ x.phone.mode = "diag" /\ phone' = x.phone
      BY <1>4, <2>4 DEF InStep, Takes
    <3>2. rx \in Seq(Range(rx))
      BY DEF Core, QueueOK
    <3>3. \/ /\ x.phone = Serve(phone, req).phone
             /\ x.heard = Serve(phone, req).answer
          \/ x.heard \in {Refusal(req), BadCommand}
      BY <3>1, <3>2, ExchangeInStep
    <3>4. Refusal(req).cmd = "bad" /\ BadCommand.cmd = "bad"
      BY <1>3 DEF Refusal, BadCommand, QcdmAnswer
    <3>5. Serve(phone, req) =
            [phone |-> phone,
             answer |-> [cmd |-> "nvRead", sub |-> "none",
                         f |-> [item |-> item, value |-> phone.nv[item]]]]
      BY <1>3 DEF Serve, ServesQcdm, Done, QcdmAnswer
    <3> QED
      BY <2>1, <2>3, <3>1, <3>3, <3>4, <3>5
  <2> QED
    BY <2>3, <2>4 DEF NvValues
<1> QED
  BY <1>5, <1>6 DEF NvReadIsPhones

LEMMA CallQcdmStep ==
  ASSUME OpensComeWhole, Core, CallOK, CallQcdm
  PROVE  Shaped /\ After
<1>1. /\ ~ Running /\ ~ Aborting
      /\ QcdmCall
      /\ held' = IF last'.ret = "dies" THEN {} ELSE held
      /\ spotless' = (spotless /\ last'.ret # "dies")
      /\ call' = call
  BY NotRunningOK DEF CallQcdm, MayCall
<1>2. Asked /\ NvReadIsPhones'
  <2>1. CASE ReadNV
    BY <2>1, ReadNvCall
  <2>2. CASE ~ ReadNV
    BY <1>1, <2>2, QcdmCalls, NotReadNv DEF QcdmCall
  <2> QED
    BY <2>1, <2>2
<1>3. ~ Running' /\ CallOK'
  BY <1>1 DEF Running, CallOK
<1>4. LastOK'
  BY <1>2, <1>3 DEF LastOK, Asked, Rets, Running
<1>5. spotless \in BOOLEAN
  BY DEF Core
<1>6. CASE UNCHANGED lineVars /\ last'.ret # "dies"
  <2>1. Quiet
    BY <1>1, <1>5, <1>6 DEF Quiet
  <2> QED
    BY <1>2, <1>3, <1>4, <2>1 DEF Shaped, After
<1>7. ASSUME NEW req, QcdmReq(req), \E x \in Exchanges(req) : Takes(x)
      PROVE  Shaped /\ After
  <2>1. Asking(req)
    BY <1>1, <1>5, <1>7 DEF Asking
  <2> QED
    BY <1>2, <1>3, <1>4, <2>1 DEF Shaped, After
<1> QED
  BY <1>2, <1>6, <1>7 DEF Asked

----------------------------------------------------------------------------
(* Every step.                                                              *)

LEMMA ProgramSteps ==
  ASSUME OpensComeWhole, Core, CallOK, CallQcdm \/ CallEfs \/ CallHalf \/ CallHandles
  PROVE  Shaped /\ After
<1>0. spotless \in BOOLEAN
  BY DEF Core
<1>1. CASE CallQcdm
  BY <1>1, CallQcdmStep
<1>2. CASE CallEfs
  <2>1. ~ Running
    BY <1>2 DEF CallEfs, MayCall
  <2>2. \/ SimpleCall
        \/ Access \/ GetGroupInfo \/ FactoryImageRead
        \/ FactoryImage
    BY <1>2, SessionCalls, NamingCalls DEF CallEfs
  <2> QED
    BY <1>0, <2>1, <2>2, SimpleCallStep, BareCalls, FactoryCall
<1>3. CASE CallHalf
  <2>1. ~ Running
    BY <1>3 DEF CallHalf, MayCall
  <2>2. SimpleCall
    BY <1>3, HalfCalls, PathlessCalls DEF CallHalf
  <2> QED
    BY <1>0, <2>1, <2>2, SimpleCallStep
<1>4. CASE CallHandles
  <2>1. ~ Running
    BY <1>4 DEF CallHandles, MayCall
  <2>2. CASE Read \/ Write \/ Fstat \/ Ftruncate
    BY <1>0, <2>1, <2>2, FileCalls, SimpleCallStep
  <2>3. CASE Close \/ CloseDir \/ CloseFilesystemImage
    BY <1>0, <2>1, <2>3, ClosingCalls
  <2>4. CASE OpenFile \/ OpenDir
    BY <2>1, <2>4, OpeningCalls
  <2>5. CASE OpenFilesystemImage \/ ReadFilesystemImage
    BY <2>1, <2>5, ImageCalls
  <2>6. CASE ReadPath \/ ReadDir \/ ReadDirectory
    BY <2>1, <2>6, ReadPathStep, ReadDirStep, ReadDirectoryStep
  <2> QED
    BY <1>4, <2>2, <2>3, <2>4, <2>5, <2>6 DEF CallHandles
<1> QED
  BY <1>1, <1>2, <1>3, <1>4

LEMMA ContinueSteps ==
  ASSUME OpensComeWhole, Core, CallOK, LastOK, Continue
  PROVE  Shaped /\ After
BY ReadPathFstatStep, ReadPathReadStep, ReadPathCloseStep, ReadDirOpenStep,
   ReadDirReadStep, ReadDirAbortStep, ReadDirCloseStep, ReadDirectoryReadStep,
   ReadDirectoryAbortStep DEF Continue

(* A step of the shell alone: the phone is not asked. *)
LEMMA ShellAlone ==
  ASSUME Core, CallOK, ~ Running, NEW op \in {"start", "cd"},
         Ended(op, "ok", "none", "none"), UNCHANGED <<lineVars, efsVars>>
  PROVE  Shaped /\ After
<1>1. ~ Aborting
  BY NotRunningOK
<1>2. /\ UNCHANGED lineVars /\ held' = held /\ spotless' = spotless /\ call' = call
  BY DEF efsVars
<1>3. Quiet
  BY <1>1, <1>2 DEF Quiet, Core
<1>4. last'.ret = "ok" /\ last'.op # "readNV"
  BY DEF Ended
<1>5. ~ Running' /\ CallOK'
  BY <1>2 DEF Running, CallOK
<1>6. LastOK'
  BY <1>4, <1>5 DEF LastOK, Rets, Running
<1> QED
  BY <1>3, <1>4, <1>5, <1>6, NotReadNv DEF Shaped, After

LEMMA ShellSteps ==
  ASSUME OpensComeWhole, Core, CallOK, LastOK, Shell
  PROVE  Shaped /\ After
<1>0. spotless \in BOOLEAN
  BY DEF Core
<1>1. CASE Shell_Starts
  <2>1. ~ Running /\ Ended("start", "ok", "none", "none")
        /\ UNCHANGED <<lineVars, efsVars>>
    BY <1>1 DEF Shell_Starts, MayCall
  <2> QED
    BY <2>1, ShellAlone
<1>2. CASE Shell_Cd
  <2>1. ~ Running /\ Ended("cd", "ok", "none", "none")
        /\ UNCHANGED <<lineVars, efsVars>>
    BY <1>2 DEF Shell_Cd, MayCall
  <2> QED
    BY <2>1, ShellAlone
<1>3. CASE Shell_Hello \/ Shell_Query
  <2>1. ~ Running /\ (Hello \/ Query)
    BY <1>3 DEF Shell_Hello, Shell_Query, Turn
  <2> QED
    BY <1>0, <2>1, SessionCalls, SimpleCallStep
<1>4. CASE Shell_Lists
  <2> DEFINE c == Listing(cPath, FALSE)
  <2>1. ~ Running /\ ListingOpens(c)
    BY <1>4 DEF Shell_Lists, Turn
  <2>2. ListLocals(c)
    <3>1. \E recursive \in BOOLEAN : c = Listing(cPath, recursive)
      OBVIOUS
    <3> HIDE DEF c
    <3> QED
      BY <3>1, ListingIs
  <2> HIDE DEF c
  <2> QED
    BY <2>1, <2>2, ListingOpensStep, NotRunningOK
<1>5. CASE Shell_Del
  <2>1. PICK e : Simple("unlink", PathRequest("Unlink", Under(e[1], e[2])), TRUE)
    BY <1>5 DEF Shell_Del
  <2>2. ~ Running
    BY <1>5 DEF Shell_Del, Turn
  <2> DEFINE path == Under(e[1], e[2])
             req == PathRequest("Unlink", path)
  <2> HIDE DEF path
  <2>3. PlainReq(req)
    BY AnswerTable, PlainRequests DEF Changing
  <2>4. Simple("unlink", req, TRUE)
    BY <2>1 DEF path
  <2> HIDE DEF req
  <2>5. SimpleCall
    BY <2>3, <2>4 DEF SimpleCall
  <2> QED
    BY <1>0, <2>2, <2>5, SimpleCallStep
<1>6. CASE Shell_Get
  <2> DEFINE c == [at |-> "fstat"]
  <2>1. PICK path : ShellOpens("get", path, FALSE, c)
    BY <1>6 DEF Shell_Get
  <2>2. ~ Running
    BY <1>6 DEF Shell_Get, Turn
  <2>3. DOMAIN c = {"at"}
    OBVIOUS
  <2> HIDE DEF c
  <2> QED
    BY <2>1, <2>2, <2>3, ShellOpensStep
<1>7. CASE Shell_Put
  <2>1. PICK path \in Paths \ {<<>>}, data \in Datas, readable \in BOOLEAN :
          ShellOpens("put", path, TRUE,
            [at |-> IF readable /\ data # NoData THEN "write" ELSE "close",
             written |-> 0, data |-> data, readable |-> readable,
             old |-> IF IsA(phone, path, "file") THEN phone.tree[Trimmed(path)].data
                     ELSE NoData])
    BY <1>7 DEF Shell_Put
  <2>2. ~ Running
    BY <1>7 DEF Shell_Put, Turn
  <2> DEFINE c == [at |-> IF readable /\ data # NoData THEN "write" ELSE "close",
                   written |-> 0, data |-> data, readable |-> readable,
                   old |-> IF IsA(phone, path, "file")
                           THEN phone.tree[Trimmed(path)].data ELSE NoData]
  <2>3. DOMAIN c = {"at", "written", "data", "readable", "old"}
    OBVIOUS
  <2>4. ShellOpens("put", path, TRUE, c)
    BY <2>1
  <2> HIDE DEF c
  <2>5. \E creates : (creates => WellNamed(path)) /\ ShellOpens("put", path, creates, c)
    BY <2>4, PathsAssumption
  <2> QED
    BY <2>2, <2>3, <2>5, ShellOpensStep
<1>8. CASE Get_Fstat \/ Get_Read \/ Get_Close \/ Put_Write \/ Put_Close
  BY <1>8, GetFstatStep, GetReadStep, GetCloseStep, PutWriteStep, PutCloseStep
<1> QED
  BY <1>1, <1>2, <1>3, <1>4, <1>5, <1>6, <1>7, <1>8 DEF Shell

LEMMA EndingSteps ==
  ASSUME ProgramEnds \/ PhoneBoots
  PROVE  Shaped /\ After
<1>1. Shaped
  BY NotRunningOK
     DEF ProgramEnds, PhoneBoots, ProgramOver, Leaving, Booting, Shaped
<1>2. last' = NoCall /\ call' = NotRunning
  BY DEF ProgramEnds, PhoneBoots, ProgramOver
<1>3. ~ Running' /\ CallOK'
  BY <1>2 DEF Running, CallOK, NotRunning
<1>4. LastOK' /\ NvReadIsPhones'
  BY <1>2, <1>3, NotReadNv DEF LastOK, NoCall, Rets, Running
<1> QED
  BY <1>1, <1>3, <1>4 DEF After

LEMMA CallsCounted ==
  ASSUME calls \in 0 .. MaxCalls, Next
  PROVE  calls' \in 0 .. MaxCalls
<1>1. MayCall \/ UNCHANGED calls
  BY DEF Next, CallQcdm, CallEfs, CallHalf, CallHandles, Continue, Shell,
     Shell_Starts,
         Shell_Hello, Shell_Query, Shell_Lists, Shell_Cd, Shell_Del, Shell_Get,
         Get_Fstat, Get_Read, Get_Close, Shell_Put, Put_Write, Put_Close, StepOf,
         ProgramEnds, PhoneBoots, ProgramOver
<1> QED
  BY <1>1, CallsAssumption DEF MayCall

LEMMA InvariantParts ==
  IInv <=> /\ Core /\ CallOK /\ LastOK /\ NvReadIsPhones
           /\ calls \in 0 .. MaxCalls
BY DEF IInv, Core

LEMMA InvariantPartsNext ==
  IInv' <=> /\ Core' /\ CallOK' /\ LastOK' /\ NvReadIsPhones'
            /\ calls' \in 0 .. MaxCalls
BY DEF IInv, Core

LEMMA StepKeeps ==
  ASSUME OpensComeWhole, IInv, [Next]_vars
  PROVE  IInv' /\ [Table!Next]_(Table!vars)
<1>1. CASE Next
  <2>1. /\ Core /\ CallOK /\ LastOK /\ calls \in 0 .. MaxCalls
    BY InvariantParts
  <2>2. Shaped /\ After
    BY <1>1, <2>1, ProgramSteps, ContinueSteps, ShellSteps, EndingSteps DEF Next
  <2>3. Core' /\ [Table!Next]_(Table!vars)
    BY <2>1, <2>2, ShapedStep
  <2>4. calls' \in 0 .. MaxCalls
    BY <1>1, <2>1, CallsCounted
  <2> QED
    BY <2>2, <2>3, <2>4, InvariantPartsNext DEF After
<1>2. CASE UNCHANGED vars
  <2>1. /\ phone' = phone /\ rx' = rx /\ faults' = faults /\ calls' = calls
        /\ last' = last /\ held' = held /\ call' = call /\ spotless' = spotless
    BY <1>2 DEF vars, lineVars, qcdmVars, efsVars
  <2>2. OpenHandles' = OpenHandles /\ HeldHandles' = HeldHandles
        /\ (InStep' <=> InStep) /\ (Aborting' <=> Aborting) /\ (Running' <=> Running)
    BY <2>1 DEF OpenHandles, HeldHandles, InStep, Aborting, Running
  <2>3. CallOK' /\ LastOK' /\ NvReadIsPhones'
    BY <2>1, <2>2, InvariantParts DEF CallOK, LastOK, NvReadIsPhones, Running
  <2>4. Core' /\ calls' \in 0 .. MaxCalls
    BY <2>1, <2>2, InvariantParts DEF Core
  <2>5. UNCHANGED Table!vars
    BY <2>2 DEF Table!vars
  <2> QED
    BY <2>3, <2>4, <2>5, InvariantPartsNext
<1> QED
  BY <1>1, <1>2

LEMMA InitKeeps ==
  ASSUME Init
  PROVE  IInv /\ Table!Init
<1>1. /\ phone = NewPhone /\ rx = <<>> /\ faults = MaxFaults
      /\ calls = MaxCalls /\ last = NoCall
      /\ held = {} /\ call = NotRunning /\ spotless = TRUE
  BY DEF Init, LineInit, QcdmInit, EfsInit
<1>2. PhoneOK(phone)
  <2>1. DOMAIN <<>> = {}
    OBVIOUS
  <2> QED
    BY <1>1, <2>1, PhoneAssumption DEF NewPhone, PhoneOK, NodeTypes, NvValues
<1>3. OpenHandles = {} /\ HeldHandles = {}
  <2>1. DOMAIN phone.open = {}
    BY <1>1 DEF NewPhone
  <2> QED
    BY <1>1, <2>1 DEF OpenHandles, HeldHandles
<1>4. HandlesOK(held) /\ OpenedFor(phone, held)
  BY <1>1 DEF HandlesOK, OpenedFor
<1>5. QueueOK(rx, OpenHandles, HeldHandles) /\ NoAnswers(rx)
  BY <1>1, QueueEmpty, NoAnswersEmpty
<1>6. ~ Running /\ CallOK
  BY <1>1 DEF Running, CallOK, NotRunning
<1>7. LastOK /\ NvReadIsPhones
  BY <1>1, <1>6 DEF LastOK, NvReadIsPhones, NoCall, Rets, Running
<1>8. Core
  BY <1>1, <1>2, <1>3, <1>4, <1>5, LineAssumption DEF Core
<1>9. calls \in 0 .. MaxCalls
  BY <1>1, CallsAssumption
<1> QED
  BY <1>3, <1>6, <1>7, <1>8, <1>9, InvariantParts DEF Table!Init

----------------------------------------------------------------------------
(* The steps of the methods that go through a whole file or directory, and  *)
(* the others.                                                              *)

Long == {"readDir", "readPath", "get", "put"}

(* A step that neither ends a call of the method m nor goes on with one. *)
Elsewhere(m) ==
  /\ last'.op # m \/ last'.ret = "running"
  /\ call'.op # m

LEMMA EndsElsewhere ==
  ASSUME NEW m \in Long, NEW op, op # m,
         \/ Fails(op) \/ Dies(op) \/ Invalid(op)
         \/ \E ret, arg, value : Ends(op, ret, arg, value)
  PROVE  Elsewhere(m)
<1>1. PICK ret, arg, value : Ends(op, ret, arg, value)
  BY DEF Fails, Dies, Invalid
<1>2. last'.op # m /\ call'.op = "none"
  BY <1>1 DEF Ends, Ended, NotRunning, Long
<1> QED
  BY <1>2 DEF Elsewhere, Long

LEMMA BeginsElsewhere ==
  ASSUME NEW m \in Long, NEW op, NEW c, c.op # m, Begins(op, c)
  PROVE  Elsewhere(m)
BY DEF Begins, Ended, Elsewhere

LEMMA GoesElsewhere ==
  ASSUME NEW m \in Long, LastOK, Running, NEW c, c.op # m, Goes(c)
  PROVE  Elsewhere(m)
BY DEF LastOK, Goes, Elsewhere

LEMMA RequestElsewhere ==
  ASSUME NEW m \in Long, NEW op, op # m, NEW req, NEW x, NEW y, NEW z, NEW w,
         \/ Simple(op, req, x)
         \/ GivesBack(op, x, req, y)
         \/ TakesHandle(op, x, y, z, req)
         \/ BareCall(op, x, y)
  PROVE  Elsewhere(m)
<1>1. CASE Simple(op, req, x)
  BY <1>1, EndsElsewhere DEF Simple, SendCommand
<1>2. CASE GivesBack(op, x, req, y)
  BY <1>2, EndsElsewhere DEF GivesBack, SendCommand
<1>3. CASE TakesHandle(op, x, y, z, req)
  BY <1>3, EndsElsewhere DEF TakesHandle, SendCommand
<1>4. CASE BareCall(op, x, y)
  BY <1>4, EndsElsewhere DEF BareCall, SendCommand
<1> QED
  BY <1>1, <1>2, <1>3, <1>4

LEMMA ListingElsewhere ==
  ASSUME NEW m \in Long, m # "readDir", NEW c, c.op = "readDir",
         ListFails(c) \/ ListingOpens(c)
  PROVE  Elsewhere(m)
<1>1. CASE ListFails(c)
  BY <1>1, EndsElsewhere DEF ListFails
<1>2. CASE ListingOpens(c)
  <2>1. PICK r :
          \/ Dies("readDir")
          \/ ListFails(c)
          \/ /\ Ended("readDir", "running", "none", "none")
             /\ call' = [c EXCEPT !.at = "read",
                           !.x = <<"dir", Got(r.heard, "dp"), c.path>>,
                           !.refused = @ \/ Refuses(r)]
    BY <1>2 DEF ListingOpens, SendCommand
  <2>2. CASE Dies("readDir")
    BY <2>2, EndsElsewhere
  <2>3. CASE /\ Ended("readDir", "running", "none", "none")
             /\ call' = [c EXCEPT !.at = "read",
                           !.x = <<"dir", Got(r.heard, "dp"), c.path>>,
                           !.refused = @ \/ Refuses(r)]
    <3>1. last'.ret = "running" /\ call'.op = c.op
      BY <2>3 DEF Ended
    <3> QED
      BY <3>1 DEF Elsewhere
  <2> QED
    BY <1>1, <2>1, <2>2, <2>3
<1> QED
  BY <1>1, <1>2

LEMMA CallsElsewhere ==
  ASSUME NEW m \in Long, CallQcdm \/ CallEfs \/ CallHalf \/ CallHandles
  PROVE  \/ Elsewhere(m)
         \/ m = "readDir" /\ ReadDir
         \/ m = "readPath" /\ ReadPath
<1>0. call.op = "none"
  BY DEF CallQcdm, CallEfs, CallHalf, CallHandles, MayCall, Running
<1>1. CASE CallQcdm
  <2>1. call' = call /\ QcdmCall
    BY <1>1 DEF CallQcdm
  <2>2. ReadNV => last'.op = "readNV"
    BY DEF ReadNV, Exchange, Ended, Remembered
  <2>3. last'.op \notin Long
    BY <2>1, <2>2, QcdmCalls DEF QcdmCall, Long
  <2> QED
    BY <1>0, <2>1, <2>3 DEF Elsewhere, Long
<1>2. SimpleCall => Elsewhere(m)
  BY EndsElsewhere, RequestElsewhere DEF SimpleCall, Long
<1>3. CASE CallEfs
  <2>1. Access \/ GetGroupInfo \/ FactoryImageRead => Elsewhere(m)
    BY RequestElsewhere DEF Access, GetGroupInfo, FactoryImageRead, Long
  <2>2. FactoryImage => Elsewhere(m)
    BY EndsElsewhere DEF FactoryImage, Long
  <2> QED
    BY <1>2, <1>3, <2>1, <2>2, SessionCalls, NamingCalls DEF CallEfs
<1>4. CASE CallHalf
  BY <1>2, <1>4, HalfCalls, PathlessCalls DEF CallHalf
<1>5. CASE CallHandles
  <2>1. Close \/ CloseDir \/ CloseFilesystemImage => Elsewhere(m)
    BY RequestElsewhere DEF Close, CloseDir, CloseFilesystemImage, Long
  <2>2. OpenFile \/ OpenDir => Elsewhere(m)
    BY RequestElsewhere DEF OpenFile, OpenDir, Long
  <2>3. OpenFilesystemImage => Elsewhere(m)
    BY EndsElsewhere DEF OpenFilesystemImage, SendCommand, Long
  <2>4. ReadFilesystemImage => Elsewhere(m)
    BY EndsElsewhere DEF ReadFilesystemImage, SendCommand, Long
  <2>5. ReadPath /\ m # "readPath" => Elsewhere(m)
    BY EndsElsewhere, BeginsElsewhere DEF ReadPath, SendCommand
  <2>6. ReadDirectory => Elsewhere(m)
    BY EndsElsewhere, BeginsElsewhere DEF ReadDirectory, Long
  <2>7. ReadDir /\ m # "readDir" => Elsewhere(m)
    BY ListingElsewhere DEF ReadDir, Listing
  <2> QED
    BY <1>2, <1>5, <2>1, <2>2, <2>3, <2>4, <2>5, <2>6, <2>7, FileCalls DEF CallHandles
<1> QED
  BY <1>1, <1>3, <1>4, <1>5

LEMMA ContinuesElsewhere ==
  ASSUME NEW m \in Long, CallOK, LastOK, call.op # m,
         \/ ReadPath_Fstat \/ ReadPath_Read \/ ReadPath_Close
         \/ ReadDirectory_Read \/ ReadDirectory_Abort
         \/ Get_Fstat \/ Get_Read \/ Get_Close \/ Put_Write \/ Put_Close
  PROVE  Elsewhere(m)
<1>0. /\ Running /\ "op" \in DOMAIN call
      /\ call.op \in {"readPath", "readDirectory", "get", "put"}
  BY DEF ReadPath_Fstat, ReadPath_Read, ReadPath_Close, ReadDirectory_Read,
         ReadDirectory_Abort, Get_Fstat, Get_Read, Get_Close, Put_Write, Put_Close,
         StepOf, CallOK, Running
<1>1. \A r : Failing(r) => Elsewhere(m)
  BY <1>0, EndsElsewhere DEF Failing
<1>2. CASE ReadPath_Fstat
  BY <1>0, <1>1, <1>2, EndsElsewhere, GoesElsewhere DEF ReadPath_Fstat, SendCommand
<1>3. CASE ReadPath_Read
  BY <1>0, <1>1, <1>3, EndsElsewhere, GoesElsewhere DEF ReadPath_Read, SendCommand
<1>4. CASE ReadPath_Close
  BY <1>0, <1>1, <1>4, EndsElsewhere DEF ReadPath_Close, SendCommand
<1>5. CASE ReadDirectory_Read
  BY <1>0, <1>1, <1>5, EndsElsewhere, GoesElsewhere DEF ReadDirectory_Read, SendCommand
<1>6. CASE ReadDirectory_Abort
  BY <1>0, <1>1, <1>6, EndsElsewhere DEF ReadDirectory_Abort, SendCommand
<1>7. \A data, size : call.op = "get" /\ GetNext(data, size) => Elsewhere(m)
  BY <1>0, GoesElsewhere DEF GetNext
<1>8. CASE Get_Fstat
  BY <1>0, <1>1, <1>7, <1>8, EndsElsewhere DEF Get_Fstat, StepOf, SendCommand
<1>9. CASE Get_Read
  BY <1>0, <1>1, <1>7, <1>9, EndsElsewhere DEF Get_Read, StepOf, SendCommand
<1>10. CASE Get_Close
  BY <1>0, <1>1, <1>10, EndsElsewhere DEF Get_Close, StepOf, SendCommand
<1>11. CASE Put_Write
  BY <1>0, <1>1, <1>11, EndsElsewhere, GoesElsewhere DEF Put_Write, StepOf, SendCommand
<1>12. CASE Put_Close
  BY <1>0, <1>1, <1>12, EndsElsewhere DEF Put_Close, StepOf, SendCommand
<1> QED
  BY <1>2, <1>3, <1>4, <1>5, <1>6, <1>8, <1>9, <1>10, <1>11, <1>12

(* A listing that goes on, and how. *)
LEMMA ListingGoesElsewhere ==
  ASSUME NEW m \in Long, m # "readDir", CallOK, LastOK,
         ReadDir_Open \/ ReadDir_Read \/ ReadDir_Abort \/ ReadDir_Close
  PROVE  Elsewhere(m)
<1>0. /\ Running /\ "op" \in DOMAIN call /\ call.op = "readDir"
  BY DEF ReadDir_Open, ReadDir_Read, ReadDir_Abort, ReadDir_Close, CallOK, Running
<1>1. \A r : ListingFailing(r) => Elsewhere(m)
  BY EndsElsewhere DEF ListingFailing, ListFails
<1>2. CASE ReadDir_Open
  BY <1>0, <1>2, ListingElsewhere DEF ReadDir_Open
<1>3. CASE ReadDir_Read
  <2> DEFINE Name(r) == IF "name" \in DOMAIN r.heard.f THEN r.heard.f.name ELSE call.name
             Type(r) == IF "entryType" \in DOMAIN r.heard.f THEN r.heard.f.entryType
                        ELSE call.type
             Next_(r) == [call EXCEPT !.name = Name(r), !.type = Type(r),
                                      !.refused = @ \/ Refuses(r)]
             Last_(r) == [Next_(r) EXCEPT !.at = "close"]
             More_(r) == [Next_(r) EXCEPT !.n = @ + 1,
                            !.found = @ \cup {<<call.path, Name(r), Type(r)>>},
                            !.below = IF Type(r) # TypeCode.dir THEN @
                                      ELSE Append(@, call.path \o <<Name(r), "/">>)]
  <2>1. PICK r : Dies("readDir") \/ Abandons(r) \/ Goes(Last_(r)) \/ Goes(More_(r))
    BY <1>3 DEF ReadDir_Read, SendCommand
  <2> DEFINE n == Next_(r)
             close == Last_(r)
             more == More_(r)
             d == [call EXCEPT !.at = "abort", !.refused = @ \/ Refuses(r)]
  <2>2. d.op = call.op
    OBVIOUS
  <2>3. n.op = call.op
    OBVIOUS
  <2>4. close.op = n.op
    OBVIOUS
  <2>5. more.op = n.op
    OBVIOUS
  <2>6. Dies("readDir") \/ Goes(d) \/ Goes(close) \/ Goes(more)
    BY <2>1 DEF Abandons
  <2> HIDE DEF n, close, more, d
  <2> QED
    BY <1>0, <2>2, <2>3, <2>4, <2>5, <2>6, EndsElsewhere, GoesElsewhere
<1>4. CASE ReadDir_Abort
  BY <1>1, <1>4, EndsElsewhere DEF ReadDir_Abort, SendCommand
<1>5. CASE ReadDir_Close
  <2> DEFINE todo == (IF call.recursive THEN call.below ELSE <<>>) \o call.todo
             d == ListingNext(call, todo)
  <2>1. \/ Dies("readDir")
        \/ \E r : ListingFailing(r)
        \/ Goes(d)
        \/ \E value : Ends("readDir", "ok", call.top, value)
    BY <1>5 DEF ReadDir_Close, SendCommand
  <2>2. d.op = call.op
    BY DEF ListingNext
  <2> HIDE DEF d
  <2> QED
    BY <1>0, <1>1, <2>1, <2>2, EndsElsewhere, GoesElsewhere
<1> QED
  BY <1>2, <1>3, <1>4, <1>5

LEMMA ShellElsewhere ==
  ASSUME NEW m \in Long,
         \/ Shell_Starts \/ Shell_Hello \/ Shell_Query \/ Shell_Cd \/ Shell_Del
         \/ m # "readDir" /\ Shell_Lists
         \/ m # "get" /\ Shell_Get
         \/ m # "put" /\ Shell_Put
  PROVE  Elsewhere(m)
<1>1. CASE Shell_Starts \/ Shell_Cd
  <2>1. call.op = "none" /\ call' = call /\ \E op \in {"start", "cd"} :
          Ended(op, "ok", "none", "none")
    BY <1>1 DEF Shell_Starts, Shell_Cd, MayCall, Running, efsVars
  <2>2. last'.op \in {"start", "cd"}
    BY <2>1 DEF Ended, Remembered
  <2> QED
    BY <2>1, <2>2 DEF Elsewhere, Long
<1>2. CASE Shell_Hello \/ Shell_Query
  BY <1>2, RequestElsewhere DEF Shell_Hello, Shell_Query, Hello, Query, Long
<1>3. CASE Shell_Del
  BY <1>3, RequestElsewhere DEF Shell_Del, Long
<1>4. ASSUME NEW op \in {"get", "put"}, op # m, NEW path, NEW creates, NEW c,
             "op" \notin DOMAIN c, ShellOpens(op, path, creates, c)
      PROVE  Elsewhere(m)
  <2>1. \A x : (c ++ [op |-> op, x |-> x]).op = op
    BY <1>4 DEF ++
  <2> QED
    BY <1>4, <2>1, EndsElsewhere, BeginsElsewhere DEF ShellOpens, SendCommand
<1>5. CASE m # "get" /\ Shell_Get
  <2>1. PICK path, creates : ShellOpens("get", path, creates, [at |-> "fstat"])
    BY <1>5 DEF Shell_Get
  <2> QED
    BY <1>4, <1>5, <2>1
<1>6. CASE m # "put" /\ Shell_Put
  <2>1. PICK path, at, data, readable, old :
          ShellOpens("put", path, TRUE,
            [at |-> at, written |-> 0, data |-> data, readable |-> readable, old |-> old])
    BY <1>6 DEF Shell_Put
  <2> DEFINE c == [at |-> at, written |-> 0, data |-> data, readable |-> readable,
                   old |-> old]
  <2>2. "op" \notin DOMAIN c /\ ShellOpens("put", path, TRUE, c)
    BY <2>1
  <2> HIDE DEF c
  <2> QED
    BY <1>4, <1>6, <2>2
<1>7. CASE m # "readDir" /\ Shell_Lists
  BY <1>7, ListingElsewhere DEF Shell_Lists, Listing
<1> QED
  BY <1>1, <1>2, <1>3, <1>5, <1>6, <1>7

(* Every step, seen from one of these methods. *)
OwnStep(m) ==
  CASE m = "readPath" ->
         ReadPath \/ ReadPath_Fstat \/ ReadPath_Read \/ ReadPath_Close
    [] m = "readDir" ->
         \/ ReadDir \/ ReadDir_Open \/ ReadDir_Read \/ ReadDir_Abort \/ ReadDir_Close
         \/ Shell_Lists
    [] m = "get" -> Shell_Get \/ Get_Fstat \/ Get_Read \/ Get_Close
    [] m = "put" -> Shell_Put \/ Put_Write \/ Put_Close

LEMMA StepsElsewhere ==
  ASSUME NEW m \in Long, CallOK, LastOK, Next
  PROVE  Elsewhere(m) \/ OwnStep(m)
<1>1. CASE CallQcdm \/ CallEfs \/ CallHalf \/ CallHandles
  BY <1>1, CallsElsewhere DEF OwnStep
<1>2. CASE ProgramEnds \/ PhoneBoots
  <2>1. last'.op = "none" /\ call'.op = "none"
    BY <1>2 DEF ProgramEnds, PhoneBoots, ProgramOver, NoCall, NotRunning
  <2> QED
    BY <2>1 DEF Elsewhere, Long
<1>3. CASE \/ ReadPath_Fstat \/ ReadPath_Read \/ ReadPath_Close
           \/ Get_Fstat \/ Get_Read \/ Get_Close \/ Put_Write \/ Put_Close
           \/ ReadDirectory_Read \/ ReadDirectory_Abort
  <2>1. call.op # m => Elsewhere(m)
    BY <1>3, ContinuesElsewhere
  <2>2. call.op = m => OwnStep(m)
    BY <1>3 DEF OwnStep, StepOf, ReadPath_Fstat, ReadPath_Read, ReadPath_Close,
                Get_Fstat, Get_Read, Get_Close, Put_Write, Put_Close,
                ReadDirectory_Read, ReadDirectory_Abort, Long
  <2> QED
    BY <2>1, <2>2
<1>4. CASE ReadDir_Open \/ ReadDir_Read \/ ReadDir_Abort \/ ReadDir_Close
  BY <1>4, ListingGoesElsewhere DEF OwnStep
<1>5. CASE \/ Shell_Starts \/ Shell_Hello \/ Shell_Query \/ Shell_Cd \/ Shell_Del
           \/ Shell_Lists \/ Shell_Get \/ Shell_Put
  BY <1>5, ShellElsewhere DEF OwnStep
<1> QED
  BY <1>1, <1>2, <1>3, <1>4, <1>5 DEF Next, Continue, Shell

----------------------------------------------------------------------------
(* readDir ends with its directory closed.                                  *)

(* The first directory of the phone is number 1, after every step. *)
NoHandleZero(p) == <<"dir", 0>> \notin DOMAIN p.open

LEMMA ServesNoZero ==
  ASSUME NEW p, PhoneOK(p), NoHandleZero(p), NEW req, Req(req)
  PROVE  NoHandleZero(Serve(p, req).phone)
<1> DEFINE zero == <<"dir", 0>>
           q == Serve(p, req).phone
<1> SUFFICES NoHandleZero(q)
  OBVIOUS
<1>1. \A o : NoHandleZero(o) <=> zero \notin Counted(o.open)
  BY DEF Counted, NoHandleZero
<1> HIDE DEF q, zero
<1>2. CASE req.sub \notin Closing \cup {"Open", "OpenDir"}
  <2>1. SameFiles(p, q)
    BY <1>2, ServesKeeping DEF q
  <2> QED
    BY <1>1, <2>1 DEF SameFiles
<1>3. CASE req.sub \in {"Open", "OpenDir"}
  <2>1. EfsReq(req)
    BY <1>3 DEF Req, QcdmReq
  <2>2. \/ q.open = p.open
        \/ \E h \in 0 .. MaxOpen :
             /\ HandleKind(req.sub) # "file" => h # 0
             /\ Opened(p, q, <<HandleKind(req.sub), h>>, Trimmed(req.path))
    BY <1>3, <2>1, ServeOpening DEF q, Serve, EfsReq
  <2>3. ASSUME NEW h, HandleKind(req.sub) # "file" => h # 0,
               Opened(p, q, <<HandleKind(req.sub), h>>, Trimmed(req.path))
        PROVE  NoHandleZero(q)
    <3> DEFINE x == <<HandleKind(req.sub), h>>
    <3>1. x # zero
      BY <2>3 DEF zero
    <3>2. DOMAIN q.open = DOMAIN p.open \cup {x}
      BY <2>3 DEF Opened
    <3> HIDE DEF x
    <3> QED
      BY <3>1, <3>2 DEF NoHandleZero, zero
  <2>5. q.open = p.open => NoHandleZero(q)
    BY DEF NoHandleZero
  <2> QED
    BY <2>2, <2>3, <2>5
<1>4. CASE req.sub \in Closing
  <2>1. EfsReq(req)
    BY <1>4 DEF Req, QcdmReq, Closing
  <2>2. q = p \/ Counted(q.open) \subseteq Counted(p.open)
    BY <1>4, <2>1, ServesClosing DEF q
  <2> QED
    BY <1>1, <2>2
<1> QED
  BY <1>2, <1>3, <1>4

LEMMA ShapedNoZero ==
  ASSUME PhoneOK(phone), NoHandleZero(phone), Shaped
  PROVE  NoHandleZero(phone')
<1>1. ASSUME NEW req, Req(req), NEW x \in Exchanges(req), Takes(x)
      PROVE  NoHandleZero(phone')
  BY <1>1, ExchangePhone, ServesNoZero DEF Takes
<1>2. CASE \E req : Req(req) /\ \E x \in Exchanges(req) : Takes(x)
  BY <1>1, <1>2
<1>3. CASE UNCHANGED phone
  BY <1>3 DEF NoHandleZero
<1>4. CASE PhoneStarts
  <2>1. DOMAIN phone'.open = {}
    BY <1>4 DEF PhoneStarts, Booted, PhoneOK
  <2> QED
    BY <2>1 DEF NoHandleZero
<1> QED
  BY <1>2, <1>3, <1>4
     DEF Shaped, Keeping, PlainReq, Asking, Taking, Giving, Quiet, Leaving, Booting,
         PortReopens, lineVars, Req

(* A close is served, refused, or asked of a phone that has left diag mode. *)
LEMMA CloseServed ==
  ASSUME PhoneOK(phone), NEW req, EfsReq(req), req.sub \in Closing,
         NEW x \in Exchanges(req), Takes(x)
  PROVE  \/ Refuses(x)
         \/ phone'.mode = "gone"
         \/ ClosedBy(req) \notin DOMAIN phone'.open
<1>0. phone' = x.phone
  BY DEF Takes
<1>1. CASE Gone(x)
  BY <1>0, <1>1 DEF Gone, PhoneOK
<1>2. CASE Turned(req, x)
  BY <1>2 DEF Turned, Refuses
<1>3. CASE x.phone = Serve(phone, req).phone
  <2> DEFINE q == Serve(phone, req).phone
             c == ClosedBy(req)
  <2>1. c \in Counted(q.open) <=> c \in DOMAIN q.open
    BY DEF Counted, ClosedBy, HandleKind, Closing
  <2>2. c \in Counted(phone.open) <=> c \in DOMAIN phone.open
    BY DEF Counted, ClosedBy, HandleKind, Closing
  <2>3. \/ Counted(q.open) = Counted(phone.open) \ {c}
        \/ c \notin Counted(phone.open) /\ q = phone
    BY ServesClosing
  <2> HIDE DEF q, c
  <2>4. c \notin DOMAIN q.open
    BY <2>1, <2>2, <2>3
  <2> QED
    BY <1>0, <1>3, <2>4 DEF q, c
<1> QED
  BY <1>1, <1>2, <1>3, ExchangeForms DEF Answered, Logged, Late, Shortened

(* The locals of a listing that has no directory. *)
Unopened(c) ==
  /\ {"op", "at", "x", "refused"} \subseteq DOMAIN c
  /\ c.op = "readDir"
  /\ c.x = InvalidDir

LEMMA DiesLists ==
  ASSUME NoHandleZero(phone'), NEW op, Dies(op)
  PROVE  ListingOK'
<1>1. last'.ret = "dies" /\ call'.op = "none"
  BY DEF Dies, Ends, Ended, NotRunning
<1> QED
  BY <1>1 DEF ListingOK, ListedDirsClosed, NoHandleZero

LEMMA ListFailsLists ==
  ASSUME NoHandleZero(phone'), NEW c, ListFails(c),
         \/ c.refused
         \/ phone'.mode = "gone"
         \/ HandleOf(c.x) \notin DOMAIN phone'.open
  PROVE  ListingOK'
<1>1. /\ last'.value.dir = HandleOf(c.x)
      /\ last'.value.refused = c.refused
      /\ call'.op = "none"
  BY DEF ListFails, Ends, Ended, NotRunning
<1> QED
  BY <1>1 DEF ListingOK, ListedDirsClosed, NoHandleZero

LEMMA ListingOpensLists ==
  ASSUME NoHandleZero(phone'), NEW c, Unopened(c), ListingOpens(c)
  PROVE  ListingOK'
<1>1. PICK r :
        \/ Dies("readDir")
        \/ ListFails(c)
        \/ /\ Ended("readDir", "running", "none", "none")
           /\ call' = [c EXCEPT !.at = "read",
                         !.x = <<"dir", Got(r.heard, "dp"), c.path>>,
                         !.refused = @ \/ Refuses(r)]
  BY DEF ListingOpens, SendCommand
<1>2. CASE Dies("readDir")
  BY <1>2, DiesLists
<1>3. CASE ListFails(c)
  <2>1. HandleOf(c.x) \notin DOMAIN phone'.open
    BY DEF Unopened, HandleOf, InvalidDir, NoHandleZero
  <2> QED
    BY <1>3, <2>1, ListFailsLists
<1>4. CASE /\ Ended("readDir", "running", "none", "none")
           /\ call' = [c EXCEPT !.at = "read",
                         !.x = <<"dir", Got(r.heard, "dp"), c.path>>,
                         !.refused = @ \/ Refuses(r)]
  <2>1. last'.ret = "running" /\ "refused" \in DOMAIN call' /\ call'.at = "read"
    BY <1>4 DEF Ended, Unopened
  <2> QED
    BY <2>1 DEF ListingOK, ListedDirsClosed, NoHandleZero
<1> QED
  BY <1>1, <1>2, <1>3, <1>4

(* A listing goes on. *)
LEMMA GoesLists ==
  ASSUME NoHandleZero(phone'), LastOK, Running, NEW c, Goes(c),
         "refused" \in DOMAIN c, c.at = "open" => c.x = InvalidDir
  PROVE  ListingOK'
<1>1. last'.ret = "running" /\ call' = c
  BY DEF LastOK, Goes
<1> QED
  BY <1>1 DEF ListingOK, ListedDirsClosed, NoHandleZero

LEMMA ListingFailingLists ==
  ASSUME NoHandleZero(phone'), "refused" \in DOMAIN call, NEW r, ListingFailing(r),
         \/ Refuses(r)
         \/ phone'.mode = "gone"
         \/ HandleOf(call.x) \notin DOMAIN phone'.open
  PROVE  ListingOK'
<1> DEFINE c == [call EXCEPT !.refused = @ \/ Refuses(r)]
<1>1. ListFails(c)
  BY DEF ListingFailing
<1>2. c.x = call.x
  OBVIOUS
<1>3. c.refused = (call.refused \/ Refuses(r))
  OBVIOUS
<1>4. Refuses(r) => c.refused
  BY <1>3
<1> HIDE DEF c
<1> QED
  BY <1>1, <1>2, <1>4, ListFailsLists

LEMMA ReadDirReadLists ==
  ASSUME NoHandleZero(phone'), CallOK, LastOK, ListingOK, ReadDir_Read
  PROVE  ListingOK'
<1> DEFINE Name(r) == IF "name" \in DOMAIN r.heard.f THEN r.heard.f.name ELSE call.name
           Type(r) == IF "entryType" \in DOMAIN r.heard.f THEN r.heard.f.entryType
                      ELSE call.type
           Next_(r) == [call EXCEPT !.name = Name(r), !.type = Type(r),
                                    !.refused = @ \/ Refuses(r)]
           Last_(r) == [Next_(r) EXCEPT !.at = "close"]
           More_(r) == [Next_(r) EXCEPT !.n = @ + 1,
                          !.found = @ \cup {<<call.path, Name(r), Type(r)>>},
                          !.below = IF Type(r) # TypeCode.dir THEN @
                                    ELSE Append(@, call.path \o <<Name(r), "/">>)]
<1>0. /\ call.op = "readDir" /\ call.at = "read" /\ Running
      /\ {"op", "at", "x", "refused"} \subseteq DOMAIN call
  BY LocalsAre DEF ReadDir_Read, ListingOK
<1>1. PICK r : Dies("readDir") \/ Abandons(r) \/ Goes(Last_(r)) \/ Goes(More_(r))
  BY DEF ReadDir_Read, SendCommand
<1>2. CASE Dies("readDir")
  BY <1>2, DiesLists
<1>3. CASE Abandons(r)
  <2> DEFINE d == [call EXCEPT !.at = "abort", !.refused = @ \/ Refuses(r)]
  <2>1. Goes(d)
    BY <1>3 DEF Abandons
  <2>2. "refused" \in DOMAIN d /\ d.at = "abort"
    BY <1>0
  <2> HIDE DEF d
  <2> QED
    BY <1>0, <2>1, <2>2, GoesLists
<1>4. CASE Goes(Last_(r)) \/ Goes(More_(r))
  <2> DEFINE n == Next_(r)
             close == Last_(r)
             more == More_(r)
  <2>1. Goes(close) \/ Goes(more)
    BY <1>4
  <2>2. DOMAIN n = DOMAIN call /\ n.at = call.at
    BY <1>0
  <2> HIDE DEF n
  <2>3. DOMAIN close = DOMAIN n /\ close.at = "close"
    BY <1>0, <2>2
  <2>4. DOMAIN more = DOMAIN n /\ more.at = n.at
    BY <2>2
  <2> HIDE DEF close, more
  <2> QED
    BY <1>0, <2>1, <2>2, <2>3, <2>4, GoesLists
<1> QED
  BY <1>1, <1>2, <1>3, <1>4

LEMMA ReadDirClosesLists ==
  ASSUME PhoneOK(phone), NoHandleZero(phone'), CallOK, LastOK, ListingOK,
         ReadDir_Abort \/ ReadDir_Close
  PROVE  ListingOK'
<1> DEFINE req == HandleRequest("CloseDir", call.x[2])
           todo == (IF call.recursive THEN call.below ELSE <<>>) \o call.todo
<1>0. call.op = "readDir" /\ call.at \in {"abort", "close"}
  BY DEF ReadDir_Abort, ReadDir_Close
<1>1. /\ Running /\ call.x[1] = "dir"
      /\ {"op", "at", "x", "refused"} \subseteq DOMAIN call
  BY <1>0, LocalsAre DEF CallKind, ListingOK
<1>2. PICK r \in Exchanges(req) :
        /\ Takes(r)
        /\ \/ Dies("readDir")
           \/ ListingFailing(r)
           \/ Goes(ListingNext(call, todo))
           \/ Ends("readDir", "ok", call.top,
                   [dir |-> HandleOf(call.x), refused |-> call.refused \/ Refuses(r),
                    found |-> call.found, recursive |-> call.recursive])
  BY DEF ReadDir_Abort, ReadDir_Close, SendCommand
<1>3. EfsReq(req) /\ req.sub \in Closing /\ HandleOf(call.x) = ClosedBy(req)
  BY <1>1, OwnClose DEF HandleKind
<1> HIDE DEF req, todo
<1>4. \/ Refuses(r)
      \/ phone'.mode = "gone"
      \/ HandleOf(call.x) \notin DOMAIN phone'.open
  BY <1>2, <1>3, CloseServed
<1>5. CASE Dies("readDir")
  BY <1>5, DiesLists
<1>6. CASE ListingFailing(r)
  BY <1>1, <1>4, <1>6, ListingFailingLists
<1>7. CASE Goes(ListingNext(call, todo))
  <2> DEFINE d == ListingNext(call, todo)
  <2>1. "refused" \in DOMAIN d /\ d.x = InvalidDir
    BY <1>1 DEF ListingNext
  <2> HIDE DEF d
  <2> QED
    BY <1>1, <1>7, <2>1, GoesLists DEF d
<1>8. CASE Ends("readDir", "ok", call.top,
                [dir |-> HandleOf(call.x), refused |-> call.refused \/ Refuses(r),
                 found |-> call.found, recursive |-> call.recursive])
  <2>1. /\ last'.value.dir = HandleOf(call.x)
        /\ Refuses(r) => last'.value.refused
        /\ call'.op = "none"
    BY <1>8 DEF Ends, Ended, NotRunning
  <2> QED
    BY <1>4, <2>1 DEF ListingOK, ListedDirsClosed, NoHandleZero
<1> QED
  BY <1>2, <1>5, <1>6, <1>7, <1>8

LEMMA ListingStep ==
  ASSUME OpensComeWhole, IInv, ListingOK, [Next]_vars
  PROVE  ListingOK'
<1>0. NoHandleZero(phone) /\ PhoneOK(phone) /\ CallOK /\ LastOK /\ Core
  BY InvariantParts DEF IInv, ListingOK, NoHandleZero
<1>1. CASE UNCHANGED vars
  BY <1>1 DEF vars, lineVars, qcdmVars, efsVars, ListingOK, ListedDirsClosed
<1>2. CASE Next
  <2>1. Shaped
    BY <1>0, <1>2, ProgramSteps, ContinueSteps, ShellSteps, EndingSteps DEF Next
  <2>2. NoHandleZero(phone')
    BY <1>0, <2>1, ShapedNoZero
  <2>3. Elsewhere("readDir") => ListingOK'
    BY <2>2 DEF Elsewhere, ListingOK, ListedDirsClosed, NoHandleZero
  <2>4. \A path, recursive : Unopened(Listing(path, recursive))
    BY DEF Listing, Unopened
  <2>5. CASE ReadDir
    <3>1. PICK path, recursive :
            ListFails(Listing(path, recursive)) \/ ListingOpens(Listing(path, recursive))
      BY <2>5 DEF ReadDir
    <3> DEFINE c == Listing(path, recursive)
    <3>2. Unopened(c)
      BY <2>4
    <3> HIDE DEF c
    <3>3. HandleOf(c.x) \notin DOMAIN phone'.open
      BY <2>2, <3>2 DEF Unopened, HandleOf, InvalidDir, NoHandleZero
    <3> QED
      BY <2>2, <3>1, <3>2, <3>3, ListFailsLists, ListingOpensLists DEF c
  <2>6. CASE ReadDir_Open
    <3>1. call.op = "readDir" /\ call.at = "open" /\ ListingOpens(call)
      BY <2>6 DEF ReadDir_Open
    <3>2. Unopened(call)
      BY <1>0, <3>1, LocalsAre DEF Unopened, ListingOK
    <3> QED
      BY <2>2, <3>1, <3>2, ListingOpensLists
  <2>7. CASE ReadDir_Read \/ ReadDir_Abort \/ ReadDir_Close
    BY <1>0, <2>2, <2>7, ReadDirReadLists, ReadDirClosesLists
  <2>8. CASE Shell_Lists
    <3>1. ListingOpens(Listing(cPath, FALSE))
      BY <2>8 DEF Shell_Lists
    <3> QED
      BY <2>2, <2>4, <3>1, ListingOpensLists
  <2> QED
    BY <1>0, <1>2, <2>3, <2>5, <2>6, <2>7, <2>8, StepsElsewhere DEF OwnStep, Long
<1> QED
  BY <1>1, <1>2

----------------------------------------------------------------------------
(* Theorems.                                                                *)

(* Between any two steps of a program the phone, the line and the program   *)
(* agree on what is open: DiagInvariant is inductive, whatever is on the    *)
(* line when a request is written to it.                                    *)
THEOREM DiagInvariantHolds ==
  ASSUME OpensComeWhole
  PROVE  Spec => []IInv
<1>1. Init => IInv
  BY InitKeeps
<1>2. IInv /\ [Next]_vars => IInv'
  BY StepKeeps
<1> QED
  BY <1>1, <1>2, PTL DEF Spec

(* What the phone, the line and the programs have stays of its type.        *)
THEOREM DiagTypeCorrect ==
  ASSUME OpensComeWhole
  PROVE  Spec => []TypeOK
<1>1. IInv => TypeOK
  <2> SUFFICES ASSUME IInv
               PROVE  TypeOK
    OBVIOUS
  <2>1. \A p \in DOMAIN phone.tree : phone.tree[p].type \in DOMAIN TypeCode
    BY DEF IInv, PhoneOK, NodeTypes, TypeCode
  <2>2. \A i \in DOMAIN rx : rx[i].sub \in DOMAIN Answers \cup {"none"}
    <3>1. DOMAIN rx = 1 .. Len(rx)
      BY DEF IInv, QueueOK
    <3> QED
      BY <3>1 DEF IInv, QueueOK, PacketOK
  <2>3. last.ret \in Rets /\ (last.ret = "running") = Running
    BY DEF IInv, LastOK
  <2> QED
    BY <2>1, <2>2, <2>3 DEF TypeOK, IInv, PhoneOK, HandlesOK
<1> QED
  BY <1>1, DiagInvariantHolds, PTL

(* While the line is in step, a handle that the program has is one of the   *)
(* file that it opened it for.                                              *)
THEOREM HandlesMeanFilesHolds ==
  ASSUME OpensComeWhole
  PROVE  Spec => []HandlesMeanFiles
<1>1. IInv => HandlesMeanFiles
  <2> SUFFICES ASSUME IInv, InStep, NEW x \in held, x[1] # "image"
               PROVE  /\ HandleOf(x) \in DOMAIN phone.open
                      /\ phone.open[HandleOf(x)] = Trimmed(x[3])
    BY DEF HandlesMeanFiles
  <2>1. HandleOf(x) \in HeldHandles
    BY DEF HeldHandles
  <2>2. HandleOf(x) \in OpenHandles
    BY <2>1 DEF IInv
  <2> QED
    BY <2>2 DEF IInv, OpenedFor, OpenHandles
<1> QED
  BY <1>1, DiagInvariantHolds, PTL

(* As long as no call has failed, nothing is open on the phone but what the *)
(* program holds: no method forgets a handle when it returns.               *)
THEOREM ReturnsLeaveNothingHolds ==
  ASSUME OpensComeWhole
  PROVE  Spec => []ReturnsLeaveNothing
<1>1. IInv => ReturnsLeaveNothing
  BY DEF IInv, ReturnsLeaveNothing
<1> QED
  BY <1>1, DiagInvariantHolds, PTL

(* A readDir that has ended, by return or exception, in every order of late *)
(* and stray packets and other calls, has closed its directory on the       *)
(* phone, unless the phone refused a request of it or has left diag mode.   *)
THEOREM ListedDirsClosedHolds ==
  ASSUME OpensComeWhole
  PROVE  Spec => []ListedDirsClosed
<1>1. Init => ListingOK
  <2> SUFFICES ASSUME Init
               PROVE  ListingOK
    OBVIOUS
  <2>1. /\ DOMAIN phone.open = {} /\ last.op = "none" /\ call.op = "none"
    BY DEF Init, LineInit, QcdmInit, EfsInit, NewPhone, NoCall, NotRunning
  <2> QED
    BY <2>1 DEF ListingOK, ListedDirsClosed
<1>2. IInv /\ ListingOK /\ [Next]_vars => ListingOK'
  BY ListingStep
<1>3. ListingOK => ListedDirsClosed
  BY DEF ListingOK
<1> QED
  BY <1>1, <1>2, <1>3, DiagInvariantHolds, PTL DEF Spec

(* readNV returns what the phone has in the item, or, behind by a packet,   *)
(* a value of some item: never what another kind of packet left in the      *)
(* buffer.                                                                  *)
THEOREM NvReadIsPhonesHolds ==
  ASSUME OpensComeWhole
  PROVE  Spec => []NvReadIsPhones
<1>1. IInv => NvReadIsPhones
  BY DEF IInv
<1> QED
  BY <1>1, DiagInvariantHolds, PTL

(* Open, close and their likes implement HandleTable: each step of a        *)
(* program, an exception, its end or a boot of the phone among them, is one *)
(* of its steps or none.                                                    *)
THEOREM HandlesRefineHolds ==
  ASSUME OpensComeWhole
  PROVE  Spec => HandlesRefine
<1>1. Init => Table!Init
  BY InitKeeps
<1>2. IInv /\ [Next]_vars => [Table!Next]_(Table!vars)
  BY StepKeeps
<1> QED
  BY <1>1, <1>2, DiagInvariantHolds, PTL DEF Spec, HandlesRefine, Table!Spec

LEMMA HeldIsOpenHolds == Table!Init => Table!HeldIsOpen
BY DEF Table!Init, Table!HeldIsOpen

LEMMA HeldIsOpenStays ==
  Table!HeldIsOpen /\ [Table!Next]_(Table!vars) => Table!HeldIsOpen'
<1> SUFFICES ASSUME Table!HeldIsOpen, [Table!Next]_(Table!vars)
             PROVE  Table!HeldIsOpen'
  OBVIOUS
<1>1. ASSUME NEW x \in OpenHandles' \ OpenHandles, Table!Open(x)
      PROVE  Table!HeldIsOpen'
  BY <1>1 DEF Table!Open, Table!HeldIsOpen
<1>2. ASSUME NEW x \in HeldHandles, Table!Close(x)
      PROVE  Table!HeldIsOpen'
  <2>1. HeldHandles' \subseteq HeldHandles \ {x} /\ OpenHandles' = OpenHandles \ {x}
    BY <1>2 DEF Table!Close
  <2> QED
    BY <2>1 DEF Table!HeldIsOpen
<1>3. ASSUME NEW x \in OpenHandles, Table!Find(x)
      PROVE  Table!HeldIsOpen'
  BY <1>3 DEF Table!Find, Table!HeldIsOpen
<1>4. CASE Table!Forget
  BY <1>4 DEF Table!Forget, Table!HeldIsOpen
<1>5. CASE Table!Restart
  BY <1>5 DEF Table!Restart, Table!HeldIsOpen
<1>6. CASE UNCHANGED Table!vars
  BY <1>6 DEF Table!vars, Table!HeldIsOpen
<1> QED
  BY <1>1, <1>2, <1>3, <1>4, <1>5, <1>6 DEF Table!Next

(* HandleTable says that no handle a program has is one that the other side *)
(* has closed: what open, close, openDir and closeDir keep, as they         *)
(* implement it.                                                            *)
THEOREM HandlesHeldAreOpen == Table!Spec => []Table!HeldIsOpen
<1>1. Table!Init => Table!HeldIsOpen
  BY HeldIsOpenHolds
<1>2. Table!HeldIsOpen /\ [Table!Next]_(Table!vars) => Table!HeldIsOpen'
  BY HeldIsOpenStays
<1> QED
  BY <1>1, <1>2, PTL DEF Table!Spec

(* So no handle that a program has is one that is closed on the phone.      *)
COROLLARY HeldHandlesAreOpen ==
  ASSUME OpensComeWhole
  PROVE  Spec => []Table!HeldIsOpen
BY HandlesRefineHolds, HandlesHeldAreOpen DEF HandlesRefine
================================================================================

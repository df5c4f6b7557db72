------------------------------ MODULE EfsPackets ------------------------------
(***************************************************************************)
(* The packets of the phone's file system: which fields a request and its  *)
(* answer have, in order, and how many bytes each takes.  DmEfsManager     *)
(* sends many requests with sizeof(packet) for a size, packet being a      *)
(* pointer: the tables tell how much of the path such a request carries.   *)
(***************************************************************************)
EXTENDS Naturals, Sequences, SequencesExt, TLC

(* What f has, and what g has besides: the fields that are appended to a    *)
(* record, or an entry of a table before its others; and tables that have   *)
(* no entry in common, taken together.                                      *)
f ++ g ==
  [x \in DOMAIN f \cup DOMAIN g |-> IF x \in DOMAIN f THEN f[x] ELSE g[x]]
Only(x, v) == [y \in {x} |-> v]
Joined(tables) ==
  [x \in UNION {DOMAIN t : t \in tables} |->
     (CHOOSE t \in tables : x \in DOMAIN t)[x]]

HeaderSize == 4

(* sizeof of a pointer where the library is built for 64 bits. *)
PointerSize == 8

(* The fields that are not of four bytes; a path, a name and data count     *)
(* with the bytes their structure declares for them.                        *)
NarrowFields ==
  [mode16 |-> 2, permissionBits |-> 1, sequence |-> 2, imageType |-> 1,
   streamState |-> 1, infoClusterSent |-> 1, clusterMapSequence |-> 2,
   clusterDataSequence |-> 2, amount |-> 8, path |-> 1, newPath |-> 1,
   name |-> 1, label |-> 1, data |-> 1, results |-> 2, length16 |-> 2,
   status |-> 1, deviceType |-> 1, hash |-> 16, filesystemType |-> 8,
   productName |-> 16, date |-> 16]
Width(field) ==
  IF field \in DOMAIN NarrowFields THEN NarrowFields[field] ELSE 4
SizeOf(fields) ==
  FoldLeft(LAMBDA n, field : n + Width(field), HeaderSize, fields)

(* What comes before the path in a request.                                 *)
(* Files, links and directories. *)
EntryRequests ==
  [Open |-> <<"flags", "mode">>, Symlink |-> <<>>, ReadLink |-> <<>>,
   Unlink |-> <<>>, Mkdir |-> <<"mode16">>, Rmdir |-> <<>>, OpenDir |-> <<>>]
(* Names and attributes. *)
AttributeRequests ==
  [Rename |-> <<>>, Stat |-> <<>>, Lstat |-> <<>>, Chmod |-> <<"mode16">>,
   StatFS |-> <<>>, Access |-> <<"permissionBits">>]
(* Ownership. *)
OwnerRequests ==
  [Chown |-> <<"uid", "gid">>, SetQuota |-> <<"gid", "amount">>,
   SetReservation |-> <<"gid", "amount">>, GetGroupInfo |-> <<"gid">>]
(* Whole trees and file sizes. *)
TreeRequests ==
  [Deltree |-> <<"sequence">>, Truncate |-> <<"sequence", "length">>,
   StatVFS_V2 |-> <<"sequence">>, Md5Sum |-> <<"sequence">>,
   HotplugFormat |-> <<"sequence">>, Shred |-> <<"sequence">>]
(* Remote file systems and images. *)
ImageRequests ==
  [HotplugDeviceInfo |-> <<"sequence">>, SyncNoWait |-> <<"sequence">>,
   SyncGetStatus |-> <<"sequence", "token">>,
   MakeGoldenCopy |-> <<"sequence">>,
   FsImageOpen |-> <<"sequence", "imageType">>]
PathRequests ==
  Joined({EntryRequests, AttributeRequests, OwnerRequests, TreeRequests,
          ImageRequests})
PathAt == [sub \in DOMAIN PathRequests |-> SizeOf(PathRequests[sub])]

(* Those that are passed in place of a buffer for the answer, with nothing  *)
(* in the path. *)
BareSize ==
  [Access |-> SizeOf(AttributeRequests.Access \o <<"path">>),
   GetGroupInfo |-> SizeOf(OwnerRequests.GetGroupInfo \o <<"path">>),
   FactoryImageStart |->
     SizeOf(<<"streamState", "infoClusterSent", "clusterMapSequence",
              "clusterDataSequence">>)]

(* Answers.                                                                 *)
SessionAnswers ==
  [Hello |-> <<"targetWindow", "targetBytes", "hostWindow", "hostBytes",
               "dirWindow", "dirBytes", "version", "minVersion",
               "maxVersion", "featureBits">>,
   Query |-> <<"maxFilename", "maxPathname", "maxSymlinkDepth",
               "maxFileSize", "maxDirectories", "maxMounts">>]
FileAnswers ==
  [Open |-> <<"fp", "error">>, Close |-> <<"error">>,
   Read |-> <<"fp", "offset", "bytesRead", "error", "data">>,
   Write |-> <<"fp", "offset", "bytesWritten", "error">>,
   Symlink |-> <<"error">>, ReadLink |-> <<"error", "path">>,
   Unlink |-> <<"error">>]
DirAnswers ==
  [Mkdir |-> <<"error">>, Rmdir |-> <<"error">>,
   OpenDir |-> <<"dp", "error">>,
   ReadDir |-> <<"dp", "sequenceNumber", "error", "entryType", "mode", "size",
                 "atime", "mtime", "ctime", "name">>,
   CloseDir |-> <<"error">>, Rename |-> <<"error">>]
Times == <<"atime", "mtime", "ctime">>
AttributeAnswers ==
  [Stat |-> <<"error", "mode", "size", "linkCount">> \o Times,
   Lstat |-> <<"error", "mode">> \o Times,
   Fstat |-> <<"error", "mode", "size", "linkCount">> \o Times,
   Chmod |-> <<"error">>,
   StatFS |-> <<"error", "filesystemId", "filesystemType", "blockSize",
                "totalBlocks", "availableBlocks", "freeBlocks",
                "maxFileSize", "numberOfFiles", "maxFiles">>,
   Access |-> <<"error">>]
DeviceAnswers ==
  [DevInfo |-> <<"error", "blocks", "pagesPerBlock", "pageSize",
                 "totalPageSize", "makerId", "deviceId", "deviceType",
                 "label">>,
   FactoryImageStart |-> <<"error">>]
OwnerAnswers ==
  [Chown |-> <<"error">>, SetQuota |-> <<"error">>,
   SetReservation |-> <<"error">>,
   GetGroupInfo |-> <<"error", "quotaSize", "reservationSize", "spaceUsed">>]
TreeAnswers ==
  [Deltree |-> <<"sequence", "error">>, Truncate |-> <<"sequence", "error">>,
   Ftruncate |-> <<"sequence", "error">>,
   StatVFS_V2 |-> <<"sequence", "error", "fsId", "filesystemType",
                    "blockSize", "totalBlocks", "availableBlocks",
                    "freeBlocks", "maxFileSize", "fileCount", "maxFiles",
                    "maxWriteSize", "maxPathSize", "caseSensitive",
                    "casePreserving", "fMaxFileSize", "fFileSizeUnits",
                    "fMaxOpenFiles", "fNameRule", "fNameEncoding">>,
   Md5Sum |-> <<"sequence", "error", "hash">>,
   HotplugFormat |-> <<"sequence", "error">>,
   Shred |-> <<"sequence", "results", "error">>]
ImageAnswers ==
  [HotplugDeviceInfo |-> <<"sequence", "error", "manufacturerId", "oemId",
                           "revision", "productName", "date">>,
   SyncNoWait |-> <<"sequence", "token", "error">>,
   SyncGetStatus |-> <<"sequence", "status", "error">>,
   MakeGoldenCopy |-> <<"sequence", "error">>,
   FsImageOpen |-> <<"sequence", "handle", "error">>,
   FsImageRead |-> <<"sequence", "length16", "error", "data">>,
   FsImageClose |-> <<"sequence", "error">>]
Answers ==
  Joined({SessionAnswers, FileAnswers, DirAnswers, AttributeAnswers,
          DeviceAnswers, OwnerAnswers, TreeAnswers, ImageAnswers})

(* The size of the first n fields of an answer, and of all of them. *)
PartSize ==
  [sub \in DOMAIN Answers |->
     [n \in 0 .. Len(Answers[sub]) |-> SizeOf(SubSeq(Answers[sub], 1, n))]]
AnswerSize(sub) == PartSize[sub][Len(Answers[sub])]

Zero(field) == CASE field \in {"data", "path"} -> <<>>
                 [] field = "name" -> ""
                 [] OTHER -> 0

(* The path in the first size bytes of a request: it ends with a zero byte, *)
(* or it is not a path.                                                     *)
Cut == <<>>
Arriving(sub, path, size) ==
  IF PathAt[sub] + Len(path) + 1 <= size THEN path ELSE Cut
==============================================================================

----------------------------- MODULE DmEfsHandles -----------------------------
(***************************************************************************)
(* The methods of DmEfsManager that take handles from the phone and give   *)
(* them back: files, directories, images, and the two methods that go      *)
(* through a whole file or directory.  A handle whose close has failed is  *)
(* not used again by the program.                                          *)
(***************************************************************************)
EXTENDS DmEfsManager

Handles(kind) == {x \in held : x[1] = kind}
HandleOf(x) == <<x[1], x[2]>>
InvalidFile == <<"file", -1, <<>>>>
InvalidDir == <<"dir", 0, <<>>>>
InvalidImage == <<"image", 0, <<>>>>
Drop(x) == held' = held \ {x}
FileArguments == Handles("file") \cup {InvalidFile}
DirArguments == Handles("dir") \cup {InvalidDir}
ImageArguments == Handles("image") \cup {InvalidImage}

(* A method of one request on a handle, which keeps it. *)
OnHandle(op, x, req, invalid, checked) ==
  IF x = invalid THEN Invalid(op) ELSE Simple(op, req, checked)
(* One that gives it back. *)
GivesBack(op, x, req, invalid) ==
  IF x = invalid THEN Invalid(op)
  ELSE SendCommand(req, Dies(op),
         LAMBDA r : Fails(op) /\ Drop(x),
         LAMBDA r : /\ IF ErrorIn(r.heard) THEN Fails(op)
                       ELSE Ends(op, "ok", "none", "none")
                    /\ Drop(x))
(* One that takes one. *)
Grant(kind, h, path) == held' = held \cup {<<kind, h, path>>}
TakesHandle(op, kind, field, path, req) ==
  IF path = <<>> THEN Invalid(op)
  ELSE SendCommand(req, Dies(op),
         LAMBDA r : Fails(op) /\ UNCHANGED held,
         LAMBDA r : IF ErrorIn(r.heard) THEN Fails(op) /\ UNCHANGED held
                    ELSE /\ Ends(op, "ok", "none", "none")
                         /\ Grant(kind, Got(r.heard, field), path))

----------------------------------------------------------------------------
(* Files, directories and images, one request at a time.                    *)

OpenRequest(path, creates) ==
  [PathRequest("Open", path) EXCEPT !.creates = creates]
OpenFile ==
  \E path \in Paths, creates \in BOOLEAN :
    TakesHandle("open", "file", "fp", path, OpenRequest(path, creates))
(* As CloseRequest, with the handle left out. *)
CloseRequest_First(x) == HandleRequest("Close", 0)
CloseRequest(x) == HandleRequest("Close", x[2])
Close ==
  \E x \in FileArguments : GivesBack("close", x, CloseRequest(x), InvalidFile)
(* As ReadRequest, always from the beginning. *)
ReadRequest_Start(h, size, offset) ==
  InLargeBuffer(HandleRequest("Read", h)) ++ [size |-> size, offset |-> 0]
ReadRequest(h, size, offset) ==
  InLargeBuffer(HandleRequest("Read", h)) ++ [size |-> size, offset |-> offset]
Read ==
  \E x \in FileArguments, size \in 0 .. 1 :
    IF size = 0 THEN Invalid("read")
    ELSE OnHandle("read", x, ReadRequest(x[2], size, 0), InvalidFile, TRUE)
(* As WriteRequest, always to the beginning. *)
WriteRequest_Start(h, data, offset) ==
  HandleRequest("Write", h) ++ [data |-> data, offset |-> 0]
WriteRequest(h, data, offset) ==
  HandleRequest("Write", h) ++ [data |-> data, offset |-> offset]
Write ==
  \E x \in FileArguments, data \in Datas \cup {<<>>} :
    IF data = <<>> THEN Invalid("write")
    ELSE OnHandle("write", x, WriteRequest(x[2], data, 0), InvalidFile, TRUE)
Fstat ==
  \E x \in FileArguments :
    OnHandle("fstat", x, HandleRequest("Fstat", x[2]), InvalidFile, FALSE)
(* The length is not put into the request: it is zero. *)
Ftruncate ==
  \E x \in FileArguments, amount \in 0 .. 1 :
    IF amount = 0 THEN Invalid("ftruncate")
    ELSE OnHandle("ftruncate", x,
                  HandleRequest("Ftruncate", x[2]) ++ [size |-> 0],
                  InvalidFile, TRUE)
OpenDir ==
  \E path \in Paths :
    TakesHandle("openDir", "dir", "dp", path, PathRequest("OpenDir", path))
CloseDir ==
  \E x \in DirArguments :
    GivesBack("closeDir", x, HandleRequest("CloseDir", x[2]), InvalidDir)

(* An image that cannot be opened is handle 0.                              *)
OpenFilesystemImage ==
  \E path \in Paths :
    IF path = <<>> THEN Invalid("openFilesystemImage")
    ELSE SendCommand(HalfRequest("FsImageOpen", path), Dies("openFilesystemImage"),
           LAMBDA r : Fails("openFilesystemImage") /\ UNCHANGED held,
           LAMBDA r : IF ErrorIn(r.heard)
                      THEN Ends("openFilesystemImage", "zero", "none", "none")
                           /\ UNCHANGED held
                      ELSE /\ Ends("openFilesystemImage", "ok", "none", "none")
                           /\ Grant("image", Got(r.heard, "handle"), path))
(* The request says FsImageClose, and its answer is read as one with a      *)
(* length in front of the error: of an error only the upper half is seen,   *)
(* which ends the program (there is no exception to throw again), and one   *)
(* below 2^16 passes for a length of nothing but zeros.                     *)
ReadFilesystemImage ==
  \E x \in ImageArguments :
    IF x = InvalidImage THEN Invalid("readFilesystemImage")
    ELSE SendCommand(InLargeBuffer(HandleRequest("FsImageClose", x[2])),
           Dies("readFilesystemImage"),
           LAMBDA r : Fails("readFilesystemImage") /\ UNCHANGED held,
           LAMBDA r : \/ ErrorIn(r.heard) /\ Dies("readFilesystemImage")
                      \/ /\ Ends("readFilesystemImage", "ok", "none", "none")
                         /\ UNCHANGED held)
CloseFilesystemImage ==
  \E x \in ImageArguments :
    GivesBack("closeFilesystemImage", x, HandleRequest("FsImageClose", x[2]),
              InvalidImage)

----------------------------------------------------------------------------
(* Methods of several requests.                                             *)

Goes(c) == call' = c /\ UNCHANGED <<last, spotless>>
Begins(op, c) ==
  /\ Ended(op, "running", "none", "none")
  /\ call' = c
  /\ UNCHANGED spotless
Refuses(x) == x.fault \in {"refuse", "bad"}

(* read(path, outPath): one request for all of the file, whatever comes.    *)
(* As Failing, but the exception is caught and the method goes on. *)
Failing_Caught(r) ==
  Ended(call.op, "throws", "none", "none") /\ UNCHANGED <<held, call, spotless>>
Failing(r) == Fails(call.op) /\ held' = held \ {call.x}
(* As Received, of the size asked for. *)
Received_Asked(packet) ==
  LET data == Got(packet, "data")
  IN  [i \in 1 .. IF call.op = "none" THEN 0 ELSE call.size |->
         IF i \in DOMAIN data THEN data[i] ELSE 0]
Received(packet) ==
  [i \in 1 .. Got(packet, "bytesRead") |->
     IF i \in DOMAIN Got(packet, "data") THEN Got(packet, "data")[i] ELSE 0]

ReadPath ==
  \E path \in Paths :
    IF path = <<>> THEN Invalid("readPath")
    ELSE SendCommand(OpenRequest(path, FALSE), Dies("readPath"),
           LAMBDA r : Fails("readPath") /\ UNCHANGED held,
           LAMBDA r : IF ErrorIn(r.heard) THEN Fails("readPath") /\ UNCHANGED held
                      ELSE LET x == <<"file", Got(r.heard, "fp"), path>>
                           IN  /\ held' = held \cup {x}
                               /\ Begins("readPath", [op |-> "readPath",
                                    at |-> "fstat", x |-> x]))
ReadPath_Fstat ==
  /\ call.op = "readPath"
  /\ call.at = "fstat"
  /\ SendCommand(HandleRequest("Fstat", call.x[2]), Dies("readPath"), Failing,
       LAMBDA r : IF ErrorIn(r.heard) \/ Got(r.heard, "size") <= 0
                  THEN Ends("readPath", "zero", "none", "none")
                       /\ held' = held \ {call.x}
                  ELSE /\ Goes([op |-> "readPath", at |-> "read", x |-> call.x,
                                size |-> Got(r.heard, "size")])
                       /\ UNCHANGED held)
ReadPath_Read ==
  /\ call.op = "readPath"
  /\ call.at = "read"
  /\ SendCommand(ReadRequest(call.x[2], call.size, 0), Dies("readPath"), Failing,
       LAMBDA r : IF ErrorIn(r.heard) THEN Fails("readPath") /\ held' = held \ {call.x}
                  ELSE /\ Goes([op |-> "readPath", at |-> "close", x |-> call.x,
                                data |-> Received(r.heard)])
                       /\ UNCHANGED held)
ReadPath_Close ==
  /\ call.op = "readPath"
  /\ call.at = "close"
  /\ SendCommand(CloseRequest(call.x), Dies("readPath"), Failing,
       LAMBDA r : /\ held' = held \ {call.x}
                  /\ IF ErrorIn(r.heard) THEN Fails("readPath")
                     ELSE Ends("readPath", "ok", call.x[3], call.data))

(* readDir(path, recursive).  The response buffer is the same for all       *)
(* entries of a directory: name and type are what it holds.                 *)
Listing(path, recursive) ==
  [op |-> "readDir", at |-> "open", top |-> path, path |-> path, todo |-> <<>>,
   recursive |-> recursive, found |-> {}, refused |-> FALSE,
   x |-> InvalidDir, n |-> 1, name |-> "", type |-> 0, below |-> <<>>]
(* As ListingNext, with the entries counted on. *)
ListingNext_Counting(c, todo) ==
  [c EXCEPT !.at = "open", !.path = Head(todo), !.todo = Tail(todo),
            !.x = InvalidDir, !.name = "", !.type = 0, !.below = <<>>]
ListingNext(c, todo) ==
  [c EXCEPT !.at = "open", !.path = Head(todo), !.todo = Tail(todo),
            !.x = InvalidDir, !.n = 1, !.name = "", !.type = 0, !.below = <<>>]
ListFails(c) ==
  Ends("readDir", "throws", "none", [dir |-> HandleOf(c.x), refused |-> c.refused])
ListingFailing(r) ==
  /\ ListFails([call EXCEPT !.refused = @ \/ Refuses(r)])
  /\ held' = held \ {call.x}
(* A packet that is no answer ends the listing; the directory is closed     *)
(* first, or it is not: *)
Abandons_Open(r) == ListingFailing(r)
Abandons(r) ==
  /\ Goes([call EXCEPT !.at = "abort", !.refused = @ \/ Refuses(r)])
  /\ UNCHANGED held
ListingOpens(c) ==
  SendCommand(PathRequest("OpenDir", c.path), Dies("readDir"),
    LAMBDA r : ListFails(c) /\ UNCHANGED held,
    LAMBDA r : LET x == <<"dir", Got(r.heard, "dp"), c.path>>
               IN  IF ErrorIn(r.heard) \/ x[2] = 0
                   THEN ListFails(c) /\ UNCHANGED held
                   ELSE /\ held' = held \cup {x}
                        /\ Ended("readDir", "running", "none", "none")
                        /\ UNCHANGED spotless
                        /\ call' = [c EXCEPT !.at = "read", !.x = x,
                                      !.refused = @ \/ Refuses(r)])
ReadDir ==
  \E path \in Paths, recursive \in BOOLEAN :
    IF path = <<>>
    THEN ListFails(Listing(path, recursive)) /\ UNCHANGED <<lineVars, held>>
    ELSE ListingOpens(Listing(path, recursive))
ReadDir_Open ==
  /\ call.op = "readDir"
  /\ call.at = "open"
  /\ ListingOpens(call)
ReadDir_Read ==
  /\ call.op = "readDir"
  /\ call.at = "read"
  /\ SendCommand(InLargeBuffer(HandleRequest("ReadDir", call.x[2]))
                   ++ [sequence |-> call.n],
       Dies("readDir"), Abandons,
       LAMBDA r :
         LET f == r.heard.f
             name == IF "name" \in DOMAIN f THEN f.name ELSE call.name
             type == IF "entryType" \in DOMAIN f THEN f.entryType ELSE call.type
             next == [call EXCEPT !.name = name, !.type = type,
                                  !.refused = @ \/ Refuses(r)]
         IN  /\ Goes(IF name = "" THEN [next EXCEPT !.at = "close"]
                     ELSE [next EXCEPT !.n = @ + 1,
                             !.found = @ \cup {<<call.path, name, type>>},
                             !.below = IF type # TypeCode.dir THEN @
                                       ELSE Append(@, call.path \o <<name, "/">>)])
             /\ UNCHANGED held)
(* What the close of an abandoned directory comes to is not looked at. *)
ReadDir_Abort ==
  /\ call.op = "readDir"
  /\ call.at = "abort"
  /\ SendCommand(HandleRequest("CloseDir", call.x[2]), Dies("readDir"),
       ListingFailing, ListingFailing)
(* The contents of the directories in it come after it is closed. *)
ReadDir_Close ==
  /\ call.op = "readDir"
  /\ call.at = "close"
  /\ SendCommand(HandleRequest("CloseDir", call.x[2]), Dies("readDir"),
       ListingFailing,
       LAMBDA r :
         LET todo == (IF call.recursive THEN call.below ELSE <<>>) \o call.todo
         IN  IF ErrorIn(r.heard) THEN ListingFailing(r)
             ELSE /\ held' = held \ {call.x}
                  /\ IF todo # <<>> THEN Goes(ListingNext(call, todo))
                     ELSE Ends("readDir", "ok", call.top,
                            [dir |-> HandleOf(call.x),
                             refused |-> call.refused \/ Refuses(r),
                             found |-> call.found, recursive |-> call.recursive]))

(* readDir(dp): it closes the directory of its caller when it fails.        *)
ReadDirectory ==
  \E x \in DirArguments :
    IF x = InvalidDir THEN Invalid("readDirectory")
    ELSE /\ Begins("readDirectory", [op |-> "readDirectory", at |-> "read",
                                     x |-> x, n |-> 1, name |-> ""])
         /\ UNCHANGED <<lineVars, held>>
ReadDirectory_Read ==
  /\ call.op = "readDirectory"
  /\ call.at = "read"
  /\ SendCommand(InLargeBuffer(HandleRequest("ReadDir", call.x[2]))
                   ++ [sequence |-> call.n],
       Dies("readDirectory"),
       LAMBDA r : Goes([call EXCEPT !.at = "abort"]) /\ UNCHANGED held,
       LAMBDA r :
         LET f == r.heard.f
             name == IF "name" \in DOMAIN f THEN f.name ELSE call.name
         IN  /\ IF name = "" THEN Ends("readDirectory", "ok", "none", "none")
                ELSE Goes([call EXCEPT !.n = @ + 1, !.name = name])
             /\ UNCHANGED held)
ReadDirectory_Abort ==
  /\ call.op = "readDirectory"
  /\ call.at = "abort"
  /\ SendCommand(HandleRequest("CloseDir", call.x[2]), Dies("readDirectory"),
                 Failing, Failing)
==============================================================================

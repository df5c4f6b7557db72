------------------------------- MODULE EfsShell -------------------------------
(***************************************************************************)
(* The programs: the shell of examples/efs.cpp, and one that calls the     *)
(* methods of QcdmSerial and DmEfsManager on one port in any order and     *)
(* goes on after their exceptions.  The shell ends with the first.         *)
(***************************************************************************)
EXTENDS DmEfsHandles

VARIABLES
  cPath          (* the shell's directory; <<>> while the other program runs *)

vars == <<lineVars, qcdmVars, efsVars, cPath>>

NoShell == <<>>
Shelling == cPath # NoShell

Init ==
  /\ LineInit
  /\ QcdmInit
  /\ EfsInit
  /\ cPath = NoShell

MayCall ==
  /\ ~Running
  /\ calls > 0
  /\ calls' = calls - 1

----------------------------------------------------------------------------
(* The shell: hello, query, and then in turns the contents of cPath and a   *)
(* command.                                                                 *)

Turn(after) == Shelling /\ ~Running /\ last.op \in after
Commands == {"query", "cd", "get", "put", "unlink"}
(* An exception ends the program. *)
ShellGoesOn ==
  cPath' = IF last'.ret \in {"throws", "dies"} THEN NoShell ELSE cPath
Contents == last.value.found

Shell_Starts ==
  /\ ~Shelling
  /\ MayCall
  /\ held = {}
  /\ cPath' = Root
  /\ Ended("start", "ok", "none", "none")
  /\ UNCHANGED <<lineVars, efsVars>>
Shell_Hello ==
  Turn({"start"}) /\ Hello /\ ShellGoesOn /\ UNCHANGED calls
Shell_Query ==
  Turn({"hello"}) /\ Query /\ ShellGoesOn /\ UNCHANGED calls
Shell_Lists ==
  /\ Turn(Commands)
  /\ ListingOpens(Listing(cPath, FALSE))
  /\ ShellGoesOn
  /\ UNCHANGED calls

(* changedir: the name is put behind the path as it is; ".." cuts the path  *)
(* at its last slash.                                                       *)
Up(path) ==
  LET last_ == CHOOSE i \in DOMAIN path :
                 path[i] = "/" /\ \A j \in i + 1 .. Len(path) : path[j] # "/"
  IN  IF last_ = 1 THEN Root ELSE SubSeq(path, 2, last_ - 1)
Shell_Cd ==
  /\ Turn({"readDir"})
  /\ MayCall
  /\ \/ cPath' = Up(cPath)
     \/ \E e \in Contents : e[3] = TypeCode.dir /\ cPath' = Append(cPath, e[2])
  /\ Ended("cd", "ok", "none", "none")
  /\ UNCHANGED <<lineVars, efsVars>>

(* del_entry *)
Shell_Del ==
  /\ Turn({"readDir"})
  /\ MayCall
  /\ \E e \in Contents :
       /\ e[3] = TypeCode.file
       /\ Simple("unlink", PathRequest("Unlink", Under(e[1], e[2])), TRUE)
  /\ ShellGoesOn

(* The first request of get_entry and put_entry. *)
ShellOpens(op, path, creates, c) ==
  SendCommand(OpenRequest(path, creates), Dies(op),
    LAMBDA r : Fails(op) /\ UNCHANGED held,
    LAMBDA r : IF ErrorIn(r.heard) THEN Fails(op) /\ UNCHANGED held
               ELSE LET x == <<"file", Got(r.heard, "fp"), path>>
                    IN  /\ held' = held \cup {x}
                        /\ Begins(op, c ++ [op |-> op, x |-> x]))
StepOf(op, at) == call.op = op /\ call.at = at /\ UNCHANGED calls

(* get_entry: it reads until it has what fstat promised.                    *)
Shell_Get ==
  /\ Turn({"readDir"})
  /\ MayCall
  /\ \E e \in Contents :
       /\ e[3] = TypeCode.file
       /\ ShellOpens("get", Under(e[1], e[2]), FALSE, [at |-> "fstat"])
  /\ ShellGoesOn
GetNext(data, size) ==
  /\ Goes([op |-> "get", x |-> call.x, data |-> data, size |-> size,
           at |-> IF Len(data) = size THEN "close" ELSE "read"])
  /\ UNCHANGED held
(* An error of fstat is shown; the file stays open. *)
Get_Fstat ==
  /\ StepOf("get", "fstat")
  /\ SendCommand(HandleRequest("Fstat", call.x[2]), Dies("get"), Failing,
       LAMBDA r : IF ErrorIn(r.heard)
                  THEN Ends("get", "zero", "none", "none") /\ held' = held \ {call.x}
                  ELSE GetNext(<<>>, Got(r.heard, "size")))
  /\ ShellGoesOn
Get_Read ==
  /\ StepOf("get", "read")
  /\ SendCommand(ReadRequest(call.x[2], call.size - Len(call.data), Len(call.data)),
       Dies("get"), Failing,
       LAMBDA r : IF ErrorIn(r.heard) THEN Failing(r)
                  ELSE GetNext(call.data \o Received(r.heard), call.size))
  /\ ShellGoesOn
Get_Close ==
  /\ StepOf("get", "close")
  /\ SendCommand(CloseRequest(call.x), Dies("get"), Failing,
       LAMBDA r : IF ErrorIn(r.heard) THEN Failing(r)
                  ELSE /\ Ends("get", "ok", call.x[3], call.data)
                       /\ held' = held \ {call.x})
  /\ ShellGoesOn

(* put_entry: the path is taken as typed, the file is not truncated.        *)
Shell_Put ==
  /\ Turn({"readDir"})
  /\ MayCall
  /\ \E path \in Paths \ {<<>>}, data \in Datas, readable \in BOOLEAN :
       ShellOpens("put", path, TRUE,
         [at |-> IF readable /\ data # NoData THEN "write" ELSE "close", written |-> 0, data |-> data,
          readable |-> readable,
          old |-> IF IsA(phone, path, "file") THEN phone.tree[Trimmed(path)].data
                  ELSE NoData])
  /\ ShellGoesOn
Put_Write ==
  /\ StepOf("put", "write")
  /\ LET left == SubSeq(call.data, call.written + 1, Len(call.data))
     IN  SendCommand(WriteRequest(call.x[2], left, call.written), Dies("put"),
           Failing,
           LAMBDA r : IF ErrorIn(r.heard) THEN Failing(r)
                      ELSE LET n == call.written + Got(r.heard, "bytesWritten")
                           IN  /\ Goes([call EXCEPT !.written = n,
                                   !.at = IF n = Len(call.data) THEN "close"
                                          ELSE "write"])
                               /\ UNCHANGED held)
  /\ ShellGoesOn
Put_Close ==
  /\ StepOf("put", "close")
  /\ SendCommand(CloseRequest(call.x), Dies("put"), Failing,
       LAMBDA r : IF ErrorIn(r.heard) THEN Failing(r)
                  ELSE /\ Ends("put", IF call.readable THEN "ok" ELSE "zero",
                               call.x[3], [data |-> call.data, old |-> call.old])
                       /\ held' = held \ {call.x})
  /\ ShellGoesOn
==============================================================================

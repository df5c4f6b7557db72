------------------------------ MODULE FlashStore ------------------------------
(***************************************************************************)
(* What readFlash and writeFlash promise their caller: one read or write   *)
(* at a time, a read whose result begins with what was asked for, a write  *)
(* that has happened when it returns, and a flash that changes in no other *)
(* place.  A write that fails may have happened in part, or happen yet.    *)
(***************************************************************************)
EXTENDS Integers, Sequences

VARIABLES
  flash,         (* the content of each unit                               *)
  job,           (* the last read or write asked for                       *)
  status,        (* "none", "busy", "done" or "failed"                     *)
  result         (* what the last read returned                            *)

vars == <<flash, job, status, result>>

Erased == -1
NoJob == [op |-> "none", base |-> 0, amount |-> 0, data |-> <<>>]

Contents(f, base, n) == [i \in 1 .. n |-> f[base + i - 1]]
Overlay(f, base, data) ==
  [u \in DOMAIN f |->
     IF base <= u /\ u < base + Len(data) THEN data[u - base + 1] ELSE f[u]]

Init ==
  /\ job = NoJob
  /\ status = "none"
  /\ result = <<>>

Begin ==
  /\ status # "busy"
  /\ status' = "busy"
  /\ job'.op \in {"read", "write"}
  /\ result' = <<>>
  /\ UNCHANGED flash

(* A part of the data reaches its place. *)
Store ==
  /\ job.op = "write"
  /\ status \in {"busy", "failed"}
  /\ \E from, to \in 0 .. Len(job.data) :
       flash' = Overlay(flash, job.base + from, SubSeq(job.data, from + 1, to))
  /\ UNCHANGED <<job, status, result>>

Return ==
  /\ status = "busy"
  /\ status' = "done"
  /\ \/ /\ job.op = "write"
        /\ Contents(flash, job.base, Len(job.data)) = job.data
        /\ UNCHANGED result
     \/ /\ job.op = "read"
        /\ SubSeq(result', 1, job.amount)
             = Contents(flash, job.base, job.amount)
  /\ UNCHANGED <<flash, job>>

Fail ==
  /\ status = "busy"
  /\ status' = "failed"
  /\ UNCHANGED <<flash, job, result>>

(* Everything is erased, and not in the middle of a read or a write. *)
Erase ==
  /\ status # "busy"
  /\ flash' = [u \in DOMAIN flash |-> Erased]
  /\ UNCHANGED <<job, status, result>>

Forget ==
  /\ status = "done"
  /\ status' = "none"
  /\ job' = NoJob
  /\ result' = <<>>
  /\ UNCHANGED flash

Next == Begin \/ Store \/ Return \/ Fail \/ Erase \/ Forget

Spec == Init /\ [][Next]_vars

=============================================================================

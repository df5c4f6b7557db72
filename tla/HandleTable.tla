------------------------------ MODULE HandleTable ------------------------------
(***************************************************************************)
(* What a program may count on of its handles, whatever becomes of an      *)
(* answer: it has no handle that the other side has not open, and the      *)
(* other side closes none that it goes on using.                           *)
(***************************************************************************)
VARIABLES
  open,          (* the handles open on the other side                      *)
  held           (* the handles the program has                             *)

vars == <<open, held>>

Init ==
  /\ open = {}
  /\ held = {}

(* The other side opens a handle; the program gets it, or one that an       *)
(* earlier call opened and did not get, or none, or ends.                   *)
Open(x) ==
  /\ x \notin open
  /\ open' = open \cup {x}
  /\ held' \subseteq held \cup open'

(* It closes one that the program gives back; the program may end over it. *)
Close(x) ==
  /\ x \in held
  /\ open' = open \ {x}
  /\ held' \subseteq held \ {x}

(* The program gets a handle that was opened for an earlier call. *)
Find(x) ==
  /\ x \in open
  /\ held' = held \cup {x}
  /\ UNCHANGED open

(* The program forgets handles; they stay open. *)
Forget ==
  /\ held' \subseteq held
  /\ UNCHANGED open

(* The other side starts again, and the program with it. *)
Restart ==
  /\ open' = {}
  /\ held' = {}

Next ==
  \/ \E x \in open' \ open : Open(x)
  \/ \E x \in held : Close(x)
  \/ \E x \in open : Find(x)
  \/ Forget
  \/ Restart

Spec == Init /\ [][Next]_vars

(* What it comes to: no handle the program has is a closed one. *)
HeldIsOpen == held \subseteq open
==============================================================================

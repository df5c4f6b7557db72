--------------------------- MODULE MCStreamingDload ---------------------------
(* Transfers of one sector and of several, with a last chunk that is whole  *)
(* sectors and one that is not.                                             *)
EXTENDS StreamingDload

SomeReads == {[lba |-> 0, amount |-> 5], [lba |-> 2, amount |-> 1]}
SomeWrites == {[lba |-> 0, amount |-> 5], [lba |-> 1, amount |-> 1]}

=============================================================================

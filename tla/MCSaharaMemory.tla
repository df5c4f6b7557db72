---------------------------- MODULE MCSaharaMemory ----------------------------
(* Ranges shorter than a request, of one, and of several, with a last       *)
(* request that is whole and one that is not.                               *)
EXTENDS SaharaMemory

SomeRanges == [address : {3}, size : 1 .. 5]

=============================================================================

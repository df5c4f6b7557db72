------------------------------- MODULE MCSahara -------------------------------
(* Constants of the Sahara runs: a file of three units and one long enough  *)
(* for the fields of a hello, taken for a read request, to lie within it    *)
(* (offset 1, size 1024 of image 2), and the requests a device may make of  *)
(* them: in and out of order, overlapping, and past the end of the file.    *)
EXTENDS SaharaInvariant

Files == [image \in {2, 13} |-> IF image = 2 THEN 1025 ELSE 3]
Request(image, offset, size) ==
  [imageId |-> image, offset |-> offset, size |-> size]

TwoImages ==
  {Request(2, 0, 1), Request(2, 1, 1), Request(2, 0, 1025),
   Request(13, 0, 1), Request(13, 1, 2), Request(13, 2, 2)}

=============================================================================

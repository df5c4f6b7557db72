-------------------------------- MODULE Library --------------------------------
(***************************************************************************)
(* The parts of the library that share neither a port nor a buffer, side   *)
(* by side: a program uses the one it was written for.                     *)
(***************************************************************************)
EXTENDS DiagSystem, MathMeaning, ImageFiles, MeidConverter, LafSerial

CONSTANT Parts   (* the parts there are programs for                        *)

VARIABLE part    (* the one this program uses                               *)

libraryVars == <<vars, xmlVars, imageVars, meidVars, lafVars, part>>

(* Only the readers look at errno. *)
LibraryInit ==
  /\ part \in Parts
  /\ Init
  /\ XmlInit
  /\ erange => part = "readers"
  /\ ImageInit
  /\ MeidInit
  /\ LafInit

Diagnostics ==
  /\ part = "diagnostics"
  /\ Next
  /\ UNCHANGED <<xmlVars, imageVars, meidVars, lafVars>>
Evaluator ==
  /\ part = "evaluator"
  /\ MathNext
  /\ UNCHANGED <<vars, erange, reading, attrs, entry, lastRead, reads,
                 imageVars, meidVars, lafVars>>
Readers ==
  /\ part = "readers"
  /\ XmlNext
  /\ UNCHANGED <<vars, imageVars, meidVars, lafVars>>
Images ==
  /\ part = "images"
  /\ ImageNext
  /\ UNCHANGED <<vars, xmlVars, meidVars, lafVars>>
Identities ==
  /\ part = "identities"
  /\ MeidNext
  /\ UNCHANGED <<vars, xmlVars, imageVars, lafVars>>
Laf ==
  /\ part = "laf"
  /\ LafNext
  /\ UNCHANGED <<vars, xmlVars, imageVars, meidVars>>

LibraryNext ==
  /\ UNCHANGED part
  /\ \/ Diagnostics
     \/ Evaluator
     \/ Readers
     \/ Images
     \/ Identities
     \/ Laf

LibrarySpec == LibraryInit /\ [][LibraryNext]_libraryVars
===============================================================================

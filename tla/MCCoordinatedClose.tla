-------------------------- MODULE MCCoordinatedClose --------------------------
(***************************************************************************)
(* Instances of CoordinatedClose for TLC.                                  *)
(***************************************************************************)
EXTENDS CoordinatedClose

MCClientIds == {"long", "short"} \X (0 .. MaxRequotes)
===============================================================================

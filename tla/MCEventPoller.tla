--------------------------- MODULE MCEventPoller ---------------------------
(***************************************************************************)
(* Small instances of EventPoller for TLC.                                 *)
(***************************************************************************)
EXTENDS EventPoller
=============================================================================

---------------------------- MODULE MCDialogLock ----------------------------
(* DialogLock on small instances. *)
EXTENDS DialogLock, TLC
=============================================================================

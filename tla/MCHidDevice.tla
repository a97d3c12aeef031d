---------------------------- MODULE MCHidDevice ----------------------------
(* HidDevice with a short report queue. *)
EXTENDS HidDevice
=============================================================================

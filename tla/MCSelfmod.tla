----------------------------- MODULE MCSelfmod -----------------------------
(* Model values for Selfmod.                                               *)
EXTENDS Selfmod

CONSTANTS o1, o2
=============================================================================

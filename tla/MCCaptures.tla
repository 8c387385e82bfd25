----------------------------- MODULE MCCaptures -----------------------------
(* A small instance of Captures for TLC.                                   *)
EXTENDS Captures
=============================================================================

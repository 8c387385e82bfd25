------------------------------ MODULE MCVision ------------------------------
(* A small instance of Vision for TLC.                                     *)
EXTENDS Vision
=============================================================================

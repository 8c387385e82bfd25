----------------------------- MODULE MCServoPwm -----------------------------
(* A small instance of ServoPwm for TLC.                                   *)
EXTENDS ServoPwm
=============================================================================

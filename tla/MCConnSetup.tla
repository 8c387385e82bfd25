---------------------------- MODULE MCConnSetup -----------------------------
(***************************************************************************)
(* ConnSetup with a timeout and a deadline of two ticks, as they are equal *)
(* in the code, and a few bytes of everything.  MaxAge exceeds every bound *)
(* that the properties state, so that a session that stays longer shows.   *)
(***************************************************************************)
EXTENDS ConnSetup
=============================================================================

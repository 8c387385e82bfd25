-------------------------- MODULE MCTerminalServer --------------------------
(* A small instance of TerminalServer for TLC.                             *)
EXTENDS TerminalServer

CONSTANTS tcp, ws

TwoListeners == <<tcp, ws>>
=============================================================================

----------------------------- MODULE MCClients ------------------------------
(* A small instance of Clients for TLC.                                    *)
EXTENDS Clients, TLC

\* The first version saved has two chunks, the second one, the third none.
Sizes == <<2, 1, 0>>
=============================================================================

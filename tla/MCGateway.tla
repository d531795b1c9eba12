----------------------------- MODULE MCGateway -----------------------------
(* A small instance of the gateway on its own.                             *)
EXTENDS Gateway

=============================================================================

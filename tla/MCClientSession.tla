-------------------------- MODULE MCClientSession --------------------------
(* ClientSession with few accounts and calls.                               *)
EXTENDS ClientSession, TLC
=============================================================================

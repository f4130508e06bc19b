------------------------------- MODULE MCClient -------------------------------
(***************************************************************************)
(* Client for TLC: two hosts whose connections are lost now and then.      *)
(***************************************************************************)
EXTENDS Client

CONSTANTS h1, h2
=============================================================================

------------------------------ MODULE MCTestRun ------------------------------
(***************************************************************************)
(* TestRun for TLC: one remote host, whose model value has a name here.    *)
(***************************************************************************)
EXTENDS TestRun

CONSTANTS h1
=============================================================================

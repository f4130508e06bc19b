---------------------------- MODULE MCLiveServer ----------------------------
(***************************************************************************)
(* LiveServer for TLC: up to two runs, two listeners, and one client that  *)
(* listens to all tests, stops all tests or stops one of two.              *)
(***************************************************************************)
EXTENDS LiveServer

CONSTANTS r1, r2, l1, l2, x, none, a, b

Sig(type, id) == [type |-> type, id |-> id]

MCSignals ==
  [k \in Clients |-> CASE k = r1 -> {Sig("run", a)}
                       [] k = r2 -> {Sig("run", b)}
                       [] k \in {l1, l2} -> {Sig("listen", a)}
                       [] OTHER -> {Sig("listen", none), Sig("stop", none), Sig("stop", b)}]
=============================================================================

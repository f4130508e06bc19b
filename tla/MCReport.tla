------------------------------ MODULE MCReport ------------------------------
(***************************************************************************)
(* Report for TLC: three servers, one of whose addresses is the beginning  *)
(* of another, and data points with and without a sample.                  *)
(***************************************************************************)
EXTENDS Report

CONSTANTS a, ab, c, none, t, u, v

Pair(lo, hi) == [high |-> hi, low |-> lo]
Unset == Pair(MaxInt64, 0)

\* a measures ab, and ab measures c.
MCReaders == {<<a, ab>>, <<ab, c>>}
MCMatching == [h \in Hosts |-> IF h = a THEN {a, ab} ELSE {h}]

\* Points with one sample, with several, and with a first byte but no answer.
Mixed == {[RMS |-> Pair(900, 900), TTFB |-> Pair(400, 400)],
          [RMS |-> Pair(1500, 3200), TTFB |-> Pair(100, 2000)],
          [RMS |-> Unset, TTFB |-> Pair(700, 1700)]}

\* The first numbers at which floating point makes a difference.
MCEarly == [p \in {50, 90} |-> IF p = 50 THEN {58} ELSE {70}]

\* What a server may hold of the tests t, u and v: nothing, some, or all, with
\* the same or another time than the others.
MCListings == {<<>>, t :> 1, u :> 2, (t :> 2) @@ (u :> 1), (t :> 1) @@ (v :> 1)}
=============================================================================

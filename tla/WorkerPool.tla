------------------------------ MODULE WorkerPool ------------------------------
(***************************************************************************)
(* What the performance readers of a test promise (server.go:707-819),     *)
(* seen from outside: a fixed set of workers, each of which serves one     *)
(* request at a time, until the pool is closed.  Closing does not recall a *)
(* worker that has already been cleared for a request: such a worker may   *)
(* still serve that one, its overrun.                                      *)
(***************************************************************************)
CONSTANT Workers

VARIABLES
  closed,   \* no further request is to be cleared
  out,      \* the workers that are not home
  cleared,  \* the workers cleared for a request they have not yet sent
  overrun   \* the workers that sent a request after the pool was closed

vars == <<closed, out, cleared, overrun>>

Init == closed = FALSE /\ out = {} /\ cleared = {} /\ overrun = {}

\* A worker leaves home.
Leave(w) ==
  /\ w \notin out
  /\ out' = out \cup {w}
  /\ UNCHANGED <<closed, cleared, overrun>>

\* It is cleared for a request, which a closed pool refuses.
Clear(w) ==
  /\ ~closed
  /\ w \in out
  /\ cleared' = cleared \cup {w}
  /\ UNCHANGED <<closed, out, overrun>>

\* It sends the request, or gives it up.
Send(w) ==
  /\ w \in cleared
  /\ cleared' = cleared \ {w}
  /\ overrun' = IF closed THEN overrun \cup {w} ELSE overrun
  /\ UNCHANGED <<closed, out>>

GiveUp(w) ==
  /\ w \in cleared
  /\ cleared' = cleared \ {w}
  /\ UNCHANGED <<closed, out, overrun>>

\* It comes home, with nothing left to send.
Return(w) ==
  /\ w \in out \ cleared
  /\ out' = out \ {w}
  /\ UNCHANGED <<closed, cleared, overrun>>

Close ==
  /\ ~closed
  /\ closed' = TRUE
  /\ UNCHANGED <<out, cleared, overrun>>

Next ==
  \/ Close
  \/ \E w \in Workers : Leave(w) \/ Clear(w) \/ Send(w) \/ GiveUp(w) \/ Return(w)

Spec == Init /\ [][Next]_vars
=============================================================================

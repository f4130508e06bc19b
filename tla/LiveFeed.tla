------------------------------- MODULE LiveFeed -------------------------------
(***************************************************************************)
(* What the clients of an hperf server are promised about live data: a     *)
(* test makes numbered batches, and a client receives the latest batch of  *)
(* a test it wants, never an older one again, and nothing once its request *)
(* is over.  A client that joins late, or leaves, has missed batches.      *)
(***************************************************************************)
EXTENDS Integers

CONSTANTS
  Clients,
  Tests,
  Wants     \* the pairs <<k, t>> such that client k asked for test t

VARIABLES
  made,     \* made[t]: the number of batches test t has made
  last,     \* last[k][t]: the latest batch of t that k has received
  over      \* the clients that have been told that their request is over

vars == <<made, last, over>>

Init ==
  /\ made = [t \in Tests |-> 0]
  /\ last = [k \in Clients |-> [t \in Tests |-> 0]]
  /\ over = {}

Make(t) ==
  /\ made' = [made EXCEPT ![t] = @ + 1]
  /\ UNCHANGED <<last, over>>

Receive(k, t) ==
  /\ <<k, t>> \in Wants
  /\ k \notin over
  /\ last[k][t] < made[t]
  /\ last' = [last EXCEPT ![k][t] = made[t]]
  /\ UNCHANGED <<made, over>>

End(k) ==
  /\ k \notin over
  /\ over' = over \cup {k}
  /\ UNCHANGED <<made, last>>

Next ==
  \/ \E t \in Tests : Make(t)
  \/ \E k \in Clients : End(k) \/ \E t \in Tests : Receive(k, t)

Spec == Init /\ [][Next]_vars
=============================================================================

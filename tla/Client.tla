-------------------------------- MODULE Client --------------------------------
(***************************************************************************)
(* The hperf client (client/client.go) while it carries out one command    *)
(* on all hosts: initializeClient connects, the command's function sends   *)
(* one signal on every connection, keepAliveLoop waits for the answers.    *)
(*                                                                         *)
(* handleWSConnection is a goroutine per host.  It reports its connection  *)
(* with a token in the channel done, reads messages until Done, and after  *)
(* an error starts itself again if Config.RestartOnError says so.  The     *)
(* data that arrives is handed to further goroutines and changes nothing   *)
(* here (see Report).  The servers are external: a host answers a signal   *)
(* it got with Done, and may be lost at any time.                          *)
(***************************************************************************)
EXTENDS Integers, FiniteSets

CONSTANTS
  Hosts,          \* Config.Hosts
  RestartOnError, \* Config.RestartOnError
  Limit,          \* Config.Duration + 20, the seconds keepAliveLoop allows
  MaxDrops        \* bound: connections lost per host

N == Cardinality(Hosts)

ASSUME ClientAssumption ==
  /\ IsFiniteSet(Hosts) /\ Hosts # {}
  /\ RestartOnError \in BOOLEAN
  /\ Limit \in Nat

VARIABLES
  main,        \* the command: "init", "signal", "loop", "ok", "error", "panic"
  interrupted, \* ctx.Err() # nil
  doneCount,   \* tokens received by initializeClient
  done,        \* the number of tokens in the channel done, of capacity N
  work,        \* hostsDoingWork
  time,        \* seconds spent in keepAliveLoop
  signalled,   \* the hosts itterateWebsockets has visited
  chain,       \* chain[h]: the goroutine handleWSConnection of h
  socket,      \* socket[h]: websockets[id], "nil", "empty" or "set"
  link,        \* link[h]: the state of the latest connection, "up" or "down"
  asked,       \* asked[h]: the signal went out on the latest connection
  drops,       \* drops[h]: connections lost
  asks         \* history: signals that h got

mainVars  == <<main, doneCount, time, signalled>>
hostVars  == <<socket, link, asked, drops, asks>>
vars == <<mainVars, interrupted, done, work, chain, hostVars>>

Init ==
  /\ main = "init"
  /\ interrupted = FALSE
  /\ doneCount = 0
  /\ done = 0
  /\ work = 0
  /\ time = 0
  /\ signalled = {}
  /\ chain = [h \in Hosts |-> "start"]
  /\ socket = [h \in Hosts |-> "nil"]
  /\ link = [h \in Hosts |-> "down"]
  /\ asked = [h \in Hosts |-> FALSE]
  /\ drops = [h \in Hosts |-> 0]
  /\ asks = [h \in Hosts |-> 0]

Goto(h, label) == chain' = [chain EXCEPT ![h] = label]

-----------------------------------------------------------------------------
(* handleWSConnection *)

\* The entry exists before the connection does; a restart finds the old one.
Enter(h) ==
  /\ chain[h] = "start"
  /\ socket' = [socket EXCEPT ![h] = IF @ = "nil" THEN "empty" ELSE @]
  /\ Goto(h, "dial")
  /\ UNCHANGED <<mainVars, interrupted, done, work, link, asked, drops, asks>>

\* Fault: a restarted goroutine sends the signal again.
DialOKAsks(h) ==
  /\ chain[h] = "dial"
  /\ ~interrupted
  /\ socket' = [socket EXCEPT ![h] = "set"]
  /\ link' = [link EXCEPT ![h] = "up"]
  /\ asked' = [asked EXCEPT ![h] = h \in signalled]
  /\ asks' = [asks EXCEPT ![h] = IF h \in signalled THEN @ + 1 ELSE @]
  /\ Goto(h, "hello")
  /\ UNCHANGED <<mainVars, interrupted, done, work, drops>>

DialOK(h) ==
  /\ chain[h] = "dial"
  /\ ~interrupted
  /\ socket' = [socket EXCEPT ![h] = "set"]
  /\ link' = [link EXCEPT ![h] = "up"]
  /\ asked' = [asked EXCEPT ![h] = FALSE]
  /\ Goto(h, "hello")
  /\ UNCHANGED <<mainVars, interrupted, done, work, drops, asks>>

\* The server's Ping has arrived: report the connection.
Hello(h) ==
  /\ chain[h] = "hello"
  /\ link[h] = "up"
  /\ Goto(h, "report")
  /\ UNCHANGED <<mainVars, interrupted, done, work, hostVars>>

\* done <- struct{}{} blocks while the channel is full.
Report(h) ==
  /\ chain[h] = "report"
  /\ done < N
  /\ done' = done + 1
  /\ Goto(h, "read")
  /\ UNCHANGED <<mainVars, interrupted, work, hostVars>>

\* The goroutine is over for good; its deferred function counts it out.
Gone(h) ==
  /\ Goto(h, "gone")
  /\ work' = work - 1

\* Done has arrived: return without an error.
ReadDone(h) ==
  /\ chain[h] = "read"
  /\ link[h] = "up" /\ asked[h]
  /\ Gone(h)
  /\ UNCHANGED <<mainVars, interrupted, done, hostVars>>

\* Fault: a goroutine that starts again is counted out.
FailsCountsOut(h) ==
  /\ \/ chain[h] = "dial"
     \/ chain[h] \in {"hello", "read"} /\ link[h] = "down"
  /\ Goto(h, IF RestartOnError /\ ~interrupted THEN "start" ELSE "gone")
  /\ work' = work - 1
  /\ UNCHANGED <<mainVars, interrupted, done, hostVars>>

\* Dialling, or reading from a lost connection, has failed: the deferred
\* function counts the goroutine out or sleeps to start it again.
Fails(h) ==
  /\ \/ chain[h] = "dial"
     \/ chain[h] \in {"hello", "read"} /\ link[h] = "down"
  /\ IF RestartOnError /\ ~interrupted
       THEN Goto(h, "start") /\ UNCHANGED work
       ELSE Gone(h)
  /\ UNCHANGED <<mainVars, interrupted, done, hostVars>>

\* The network or the server drops the connection.
Drop(h) ==
  /\ link[h] = "up"
  /\ drops[h] < MaxDrops
  /\ link' = [link EXCEPT ![h] = "down"]
  /\ drops' = [drops EXCEPT ![h] = @ + 1]
  /\ UNCHANGED <<mainVars, interrupted, done, work, chain, socket, asked,
                 asks>>

-----------------------------------------------------------------------------
(* initializeClient *)

\* Fault: the count is compared before the token is added.
TakeTokenLate ==
  /\ main = "init"
  /\ done > 0
  /\ done' = done - 1
  /\ doneCount' = doneCount + 1
  /\ work' = work + 1
  /\ main' = IF doneCount = N THEN "signal" ELSE "init"
  /\ UNCHANGED <<interrupted, time, signalled, chain, hostVars>>

TakeToken ==
  /\ main = "init"
  /\ done > 0
  /\ done' = done - 1
  /\ doneCount' = doneCount + 1
  /\ work' = work + 1
  /\ main' = IF doneCount + 1 = N THEN "signal" ELSE "init"
  /\ UNCHANGED <<interrupted, time, signalled, chain, hostVars>>

\* Fault: there is no timeout.
InitFailsInterrupted ==
  /\ main = "init"
  /\ interrupted
  /\ main' = "error"
  /\ UNCHANGED <<interrupted, doneCount, done, work, time, signalled, chain,
                 hostVars>>

\* Ten seconds are over, or the context is.
InitFails ==
  /\ main = "init"
  /\ main' = "error"
  /\ UNCHANGED <<interrupted, doneCount, done, work, time, signalled, chain,
                 hostVars>>

-----------------------------------------------------------------------------
(* RunTest and its like: itterateWebsockets, then keepAliveLoop *)

\* One step of the iteration: an absent entry is skipped, an entry without a
\* connection is a nil pointer, a write on a lost connection is not reported.
SignalHost(h) ==
  /\ main = "signal"
  /\ h \notin signalled
  /\ signalled' = signalled \cup {h}
  /\ main' = IF socket[h] = "empty" THEN "panic" ELSE "signal"
  /\ IF socket[h] = "set" /\ link[h] = "up"
       THEN /\ asked' = [asked EXCEPT ![h] = TRUE]
            /\ asks' = [asks EXCEPT ![h] = @ + 1]
       ELSE UNCHANGED <<asked, asks>>
  /\ UNCHANGED <<interrupted, doneCount, done, work, time, chain, socket, link,
                 drops>>

Signalled ==
  /\ main = "signal"
  /\ signalled = Hosts
  /\ main' = "loop"
  /\ UNCHANGED <<interrupted, doneCount, done, work, time, signalled, chain,
                 hostVars>>

\* Fault: there is no limit.
TickForever ==
  /\ main = "loop"
  /\ time' = time + 1
  /\ main' = IF interrupted THEN "error" ELSE IF work <= 0 THEN "ok" ELSE "loop"
  /\ UNCHANGED <<interrupted, doneCount, done, work, signalled, chain, hostVars>>

\* One second of keepAliveLoop.
Tick ==
  /\ main = "loop"
  /\ time' = time + 1
  /\ main' = CASE interrupted \/ time' > Limit -> "error"
               [] ~interrupted /\ time' <= Limit /\ work <= 0 -> "ok"
               [] OTHER -> "loop"
  /\ UNCHANGED <<interrupted, doneCount, done, work, signalled, chain, hostVars>>

Interrupt ==
  /\ ~interrupted
  /\ interrupted' = TRUE
  /\ UNCHANGED <<mainVars, done, work, chain, hostVars>>

-----------------------------------------------------------------------------
Running == main \in {"init", "signal", "loop"}

HostStep(h) ==
  /\ Running
  /\ \/ Enter(h) \/ DialOK(h) \/ Hello(h) \/ Report(h)
     \/ ReadDone(h) \/ Fails(h) \/ Drop(h)

MainStep == TakeToken \/ InitFails \/ (\E h \in Hosts : SignalHost(h)) \/ Signalled \/ Tick

\* The command has returned and the process is about to exit.
Returned == ~Running /\ UNCHANGED vars

Next == (\E h \in Hosts : HostStep(h)) \/ MainStep \/ (Running /\ Interrupt) \/ Returned

Spec == Init /\ [][Next]_vars

(***************************************************************************)
(* The command's own goroutine and its timers run, and writes return.      *)
(* Hosts owe nothing, neither a connection nor an answer.                  *)
(***************************************************************************)
FairSpec == Spec /\ WF_vars(MainStep) /\ WF_vars(InitFails)

-----------------------------------------------------------------------------
(* Properties *)

\* Every variable holds values of its Go type.
TypeOK ==
  /\ main \in {"init", "signal", "loop", "ok", "error", "panic"}
  /\ interrupted \in BOOLEAN
  /\ doneCount \in Nat
  /\ done \in Nat
  /\ work \in Int
  /\ time \in 0..(Limit + 1)
  /\ signalled \subseteq Hosts
  /\ chain \in [Hosts -> {"start", "dial", "hello", "report", "read", "gone"}]
  /\ socket \in [Hosts -> {"nil", "empty", "set"}]
  /\ link \in [Hosts -> {"up", "down"}]
  /\ asked \in [Hosts -> BOOLEAN]
  /\ drops \in [Hosts -> Nat]
  /\ asks \in [Hosts -> Nat]

\* hostsDoingWork counts in every token received and counts out every
\* goroutine that is over, restarts and all.  Once the hosts are signalled, N
\* tokens have been counted, however many of them came from one host: the
\* channel has room for all of its senders only while nobody has reconnected.
GoneHosts == {h \in Hosts : chain[h] = "gone"}
WorkBalance == work = doneCount - Cardinality(GoneHosts)
TokensCounted ==
  /\ doneCount <= N /\ done <= N
  /\ main \in {"signal", "loop", "ok"} => doneCount = N
WorkCounts == WorkBalance /\ TokensCounted

\* The command does not report success while a host is still at work: even
\* with tokens counted twice the loop ends only after every goroutine.  Nor
\* does a lost signal, whose error RunTest drops, pass for success when hosts
\* are restarted: every host has got the signal and has answered it.
SuccessIsComplete ==
  main = "ok" =>
    \A h \in Hosts : chain[h] = "gone" /\ (RestartOnError => asks[h] = 1)

\* A host gets the signal at most once: a reconnect never starts the test a
\* second time.
AskedOnce == \A h \in Hosts : asks[h] <= 1

\* The command returns, whatever the hosts do.
Returns == <>~Running

(***************************************************************************)
(* What the documentation says and the code does not keep.                 *)
(***************************************************************************)

\* cmd/hperf/main.go:134, "restart tests/clients upon error", and README.md:35,
\* "Clients can disconnect and reconnect to running tests at any time": a host
\* that is read from again has been asked on that connection.
Resubscribed ==
  \A h \in Hosts : main = "loop" /\ chain[h] = "read" /\ link[h] = "up" => asked[h]
=============================================================================

---------------------------- MODULE Client_proofs ----------------------------
(***************************************************************************)
(* Proofs about Client, for every finite set of hosts, with and without    *)
(* restarts, for every time limit and any number of lost connections.      *)
(***************************************************************************)
EXTENDS Client, FiniteSetTheorems, TLAPS

-----------------------------------------------------------------------------
(* Lemmas about the counts *)

Labels == {"start", "dial", "hello", "report", "read", "gone"}

LEMMA HostCount == N \in Nat /\ N > 0
<1>1. IsFiniteSet(Hosts) /\ Hosts # {}
  BY ClientAssumption
<1>2. Cardinality(Hosts) \in Nat /\ Cardinality(Hosts) # 0
  BY <1>1, FS_CardinalityType, FS_EmptySet
<1> QED BY <1>2 DEF N

LEMMA GoneCount == IsFiniteSet(GoneHosts) /\ Cardinality(GoneHosts) \in Nat
<1>1. IsFiniteSet(Hosts) /\ GoneHosts \in SUBSET Hosts
  BY ClientAssumption DEF GoneHosts
<1>2. IsFiniteSet(GoneHosts)
  BY <1>1, FS_Subset
<1> QED BY <1>2, FS_CardinalityType

\* When as many goroutines are over as there are hosts, all of them are.
LEMMA AllGone ==
  ASSUME Cardinality(GoneHosts) >= N
  PROVE  \A h \in Hosts : chain[h] = "gone"
<1>1. IsFiniteSet(Hosts) /\ GoneHosts \in SUBSET Hosts
  BY ClientAssumption DEF GoneHosts
<1>2. /\ Cardinality(GoneHosts) <= Cardinality(Hosts)
      /\ Cardinality(Hosts) = Cardinality(GoneHosts) => Hosts = GoneHosts
  BY <1>1, FS_Subset
<1>3. Cardinality(GoneHosts) = Cardinality(Hosts)
  BY <1>2, GoneCount, HostCount DEF N
<1> QED BY <1>2, <1>3 DEF GoneHosts

\* A goroutine that moves on, or starts again, is not over.
LEMMA GoneSame ==
  ASSUME chain \in [Hosts -> Labels], NEW h \in Hosts, chain[h] # "gone",
         NEW label \in Labels \ {"gone"}, Goto(h, label)
  PROVE  GoneHosts' = GoneHosts
BY DEF Goto, GoneHosts

\* A goroutine that ends is over once more, and only once.
LEMMA GoneMore ==
  ASSUME chain \in [Hosts -> Labels], NEW h \in Hosts, chain[h] # "gone",
         Goto(h, "gone")
  PROVE  Cardinality(GoneHosts') = Cardinality(GoneHosts) + 1
<1>1. GoneHosts' = GoneHosts \cup {h} /\ h \notin GoneHosts
  BY DEF Goto, GoneHosts, Labels
<1> QED BY <1>1, GoneCount, FS_AddElement

-----------------------------------------------------------------------------
(* The inductive invariant *)

\* What a signal may have done: nothing before it, one start of the test after.
SignalledOnce ==
  \A h \in Hosts : asks[h] <= IF h \in signalled THEN 1 ELSE 0

\* With restarts, a goroutine that is over without an interrupt has read the
\* answer to a signal its host got.
Told ==
  \A h \in Hosts : /\ asked[h] => asks[h] > 0
                   /\ RestartOnError /\ ~interrupted /\ chain[h] = "gone" => asks[h] > 0

\* WorkBalance is inductive by itself.  For TokensCounted the loop of
\* initializeClient must not have received its last token yet; for
\* SuccessIsComplete the counts at the moment of success are needed, and that
\* no interrupt has ended a goroutine before.
IInv ==
  /\ TypeOK
  /\ WorkBalance
  /\ TokensCounted
  /\ main = "init" => doneCount < N
  /\ main \in {"init", "signal", "loop"} => time <= Limit
  /\ main = "ok" => work <= 0 /\ ~interrupted
  /\ SignalledOnce
  /\ Told

LEMMA InitIInv == Init => IInv
<1> SUFFICES ASSUME Init PROVE IInv
  OBVIOUS
<1> USE DEF Init
<1>1. TypeOK
  <2>1. time \in 0..(Limit + 1)
    BY ClientAssumption
  <2>2. /\ chain \in [Hosts -> Labels]
        /\ socket \in [Hosts -> {"nil", "empty", "set"}]
        /\ link \in [Hosts -> {"up", "down"}]
    BY DEF Labels
  <2>3. /\ asked \in [Hosts -> BOOLEAN]
        /\ drops \in [Hosts -> Nat]
        /\ asks \in [Hosts -> Nat]
    OBVIOUS
  <2>4. /\ main \in {"init", "signal", "loop", "ok", "error", "panic"}
        /\ doneCount \in Nat /\ done \in Nat /\ work \in Int
        /\ signalled \subseteq Hosts
    OBVIOUS
  <2>5. interrupted \in BOOLEAN
    OBVIOUS
  <2> QED BY <2>1, <2>2, <2>3, <2>4, <2>5 DEF TypeOK, Labels
<1>2. WorkBalance
  <2>1. GoneHosts = {}
    BY DEF GoneHosts
  <2> QED BY <2>1, FS_EmptySet DEF WorkBalance
<1> QED
  BY <1>1, <1>2, HostCount, ClientAssumption DEF IInv, TokensCounted, SignalledOnce, Told

\* The steps of the goroutine of one host.
LEMMA HostIInv ==
  ASSUME IInv, NEW h \in Hosts, HostStep(h)
  PROVE  IInv'
<1> USE DEF IInv, TypeOK, mainVars, hostVars
<1>0. chain \in [Hosts -> Labels]
  BY DEF Labels
<1>1. CASE Enter(h)
  <2>1. GoneHosts' = GoneHosts
    BY <1>0, <1>1, GoneSame DEF Enter, Labels
  <2> QED BY <1>1, <2>1 DEF Enter, Goto, WorkBalance, TokensCounted, SignalledOnce, Told
<1>2. CASE DialOK(h)
  <2>1. GoneHosts' = GoneHosts
    BY <1>0, <1>2, GoneSame DEF DialOK, Labels
  <2> QED BY <1>2, <2>1 DEF DialOK, Goto, WorkBalance, TokensCounted, SignalledOnce, Told
<1>3. CASE Hello(h)
  <2>1. GoneHosts' = GoneHosts
    BY <1>0, <1>3, GoneSame DEF Hello, Labels
  <2> QED BY <1>3, <2>1 DEF Hello, Goto, WorkBalance, TokensCounted, SignalledOnce, Told
<1>4. CASE Report(h)
  <2>1. GoneHosts' = GoneHosts
    BY <1>0, <1>4, GoneSame DEF Report, Labels
  <2>2. done' <= N /\ done' \in Nat
    BY <1>4, HostCount DEF Report
  <2> QED BY <1>4, <2>1, <2>2 DEF Report, Goto, WorkBalance, TokensCounted, SignalledOnce, Told
<1>5. CASE ReadDone(h)
  <2>1. Cardinality(GoneHosts') = Cardinality(GoneHosts) + 1
    BY <1>0, <1>5, GoneMore DEF ReadDone, Gone
  <2>2. WorkBalance' /\ work' \in Int
    BY <1>5, <2>1, GoneCount DEF ReadDone, Gone, WorkBalance
  <2>3. main # "ok"
    BY DEF HostStep, Running
  <2> QED BY <1>5, <2>2, <2>3 DEF ReadDone, Gone, Goto, TokensCounted, SignalledOnce, Told
<1>6. CASE Fails(h)
  <2>1. chain[h] # "gone" /\ main # "ok"
    BY <1>6 DEF Fails, HostStep, Running
  <2>2. CASE RestartOnError /\ ~interrupted
    <3>1. Goto(h, "start") /\ work' = work
      BY <1>6, <2>2 DEF Fails
    <3>2. GoneHosts' = GoneHosts
      BY <1>0, <2>1, <3>1, GoneSame DEF Labels
    <3> QED BY <1>6, <2>1, <3>1, <3>2 DEF Fails, Goto, WorkBalance, TokensCounted, SignalledOnce, Told
  <2>3. CASE ~(RestartOnError /\ ~interrupted)
    <3>1. Goto(h, "gone") /\ work' = work - 1
      BY <1>6, <2>3 DEF Fails, Gone
    <3>2. Cardinality(GoneHosts') = Cardinality(GoneHosts) + 1
      BY <1>0, <2>1, <3>1, GoneMore
    <3>3. WorkBalance' /\ work' \in Int
      BY <1>6, <3>1, <3>2, GoneCount DEF Fails, WorkBalance
    <3> QED BY <1>6, <2>1, <3>1, <3>3 DEF Fails, Goto, TokensCounted, SignalledOnce, Told
  <2> QED BY <2>2, <2>3
<1>7. CASE Drop(h)
  BY <1>7 DEF Drop, WorkBalance, GoneHosts, TokensCounted, SignalledOnce, Told
<1> QED
  BY <1>1, <1>2, <1>3, <1>4, <1>5, <1>6, <1>7 DEF HostStep

\* The steps of the command itself, its timers and its context.
LEMMA MainIInv ==
  ASSUME IInv, MainStep \/ (Running /\ Interrupt)
  PROVE  IInv'
<1> USE DEF IInv, TypeOK, mainVars, hostVars, SignalledOnce, Told
<1>0. chain' = chain => GoneHosts' = GoneHosts
  BY DEF GoneHosts
<1>1. CASE TakeToken
  <2>1. doneCount' <= N /\ (main' = "signal" => doneCount' = N)
        /\ (main' = "init" => doneCount' < N)
    BY <1>1, HostCount DEF TakeToken
  <2>2. WorkBalance'
    BY <1>0, <1>1, GoneCount DEF TakeToken, WorkBalance
  <2>3. done' \in Nat /\ done' <= N
    BY <1>1, HostCount DEF TakeToken, TokensCounted
  <2> QED BY <1>1, <2>1, <2>2, <2>3 DEF TakeToken, TokensCounted
<1>2. CASE InitFails
  BY <1>0, <1>2 DEF InitFails, WorkBalance, TokensCounted
<1>3. ASSUME NEW h \in Hosts, SignalHost(h) PROVE IInv'
  <2>1. WorkBalance'
    BY <1>0, <1>3 DEF SignalHost, WorkBalance
  <2>2. TokensCounted'
    BY <1>3 DEF SignalHost, TokensCounted
  <2>3. asks' \in [Hosts -> Nat] /\ SignalledOnce'
    BY <1>3 DEF SignalHost
  <2>4. Told'
    BY <1>3 DEF SignalHost
  <2>5. TypeOK' /\ main' \notin {"init", "loop", "ok"}
    BY <1>3, <2>3 DEF SignalHost
  <2> QED BY <1>3, <2>1, <2>2, <2>3, <2>4, <2>5 DEF SignalHost
<1>4. CASE Signalled
  BY <1>0, <1>4 DEF Signalled, WorkBalance, TokensCounted
<1>5. CASE Tick
  <2>1. main' \in {"error", "ok", "loop"} /\ time' \in 0..(Limit + 1)
    BY <1>5, ClientAssumption DEF Tick
  <2>2. main' = "loop" => time' <= Limit
    BY <1>5, ClientAssumption DEF Tick
  <2>3. main' = "ok" => work' <= 0
    BY <1>5 DEF Tick
  <2> QED BY <1>0, <1>5, <2>1, <2>2, <2>3 DEF Tick, WorkBalance, TokensCounted
<1>6. CASE Interrupt
  <2>1. main # "ok" /\ interrupted' = TRUE /\ UNCHANGED <<chain, asks, asked, signalled>>
    BY <1>6 DEF Interrupt, MainStep, TakeToken, InitFails, SignalHost, Signalled, Tick, Running
  <2>2. Told' /\ SignalledOnce'
    BY <2>1
  <2> QED BY <1>0, <1>6, <2>1, <2>2 DEF Interrupt, WorkBalance, TokensCounted
<1> QED
  BY <1>1, <1>2, <1>3, <1>4, <1>5, <1>6 DEF MainStep

LEMMA StepIInv == IInv /\ [Next]_vars => IInv'
<1> SUFFICES ASSUME IInv, [Next]_vars PROVE IInv'
  OBVIOUS
<1>1. CASE UNCHANGED vars
  BY <1>1 DEF vars, mainVars, hostVars, IInv, TypeOK, WorkBalance, GoneHosts,
              TokensCounted, SignalledOnce, Told
<1>2. CASE Next
  BY <1>1, <1>2, HostIInv, MainIInv DEF Next, Returned
<1> QED BY <1>1, <1>2

LEMMA Invariance == Spec => []IInv
BY InitIInv, StepIInv, PTL DEF Spec

-----------------------------------------------------------------------------
(* The theorems *)

\* Every variable of the client has its type.
THEOREM ClientTypeCorrect == Spec => []TypeOK
<1>1. IInv => TypeOK
  BY DEF IInv
<1> QED BY <1>1, Invariance, PTL

\* hostsDoingWork is the number of tokens received less the goroutines that are
\* over, through every loss, restart and interrupt, and the signals go out after
\* exactly one token per host has been counted.
THEOREM WorkIsCounted == Spec => []WorkCounts
<1>1. IInv => WorkCounts
  BY DEF IInv, WorkCounts
<1> QED BY <1>1, Invariance, PTL

\* The command reports success only when every goroutine is over, whichever
\* hosts the tokens came from, and, with restarts, when every host has been
\* asked and has answered.
THEOREM SuccessComplete == Spec => []SuccessIsComplete
<1>1. IInv => SuccessIsComplete
  <2> SUFFICES ASSUME IInv, main = "ok", NEW h \in Hosts
               PROVE  chain[h] = "gone" /\ (RestartOnError => asks[h] = 1)
    BY DEF SuccessIsComplete
  <2>1. doneCount = N /\ work <= 0 /\ work = doneCount - Cardinality(GoneHosts)
    BY DEF IInv, TokensCounted, WorkBalance
  <2>2. Cardinality(GoneHosts) >= N
    BY <2>1, GoneCount, HostCount DEF IInv, TypeOK
  <2>3. chain[h] = "gone"
    BY <2>2, AllGone
  <2>4. RestartOnError => asks[h] > 0
    BY <2>3 DEF IInv, Told
  <2>5. asks[h] \in Nat /\ asks[h] <= 1
    BY DEF IInv, TypeOK, SignalledOnce
  <2> QED BY <2>3, <2>4, <2>5
<1> QED BY <1>1, Invariance, PTL

\* No host is told twice to start the test.
THEOREM HostsAskedOnce == Spec => []AskedOnce
<1>1. IInv => AskedOnce
  BY DEF IInv, TypeOK, SignalledOnce, AskedOnce
<1> QED BY <1>1, Invariance, PTL
=============================================================================

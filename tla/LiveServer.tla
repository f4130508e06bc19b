------------------------------ MODULE LiveServer ------------------------------
(***************************************************************************)
(* One hperf server and the clients connected to it (server/server.go):    *)
(* the list of tests, the connections subscribed to each, and the handler  *)
(* goroutine that the websocket read loop starts for a client's signal.    *)
(* The hperf command sends one signal on a connection, so a client, its    *)
(* connection and its handler share a name here, and a test has the name   *)
(* of the client that asked for it.                                        *)
(*                                                                         *)
(*   "run"     createAndRunTest: registers a test, joins it, sends a batch *)
(*             of data points a second to every connection of the test     *)
(*   "listen"  listenToLiveTests: joins the matching tests                 *)
(*   "stop"    stopAllTests: cancels the matching tests                    *)
(*                                                                         *)
(* newTest holds testLock, but the other handlers walk the list without    *)
(* it, and no lock guards test.cons, which a collector ranges over while   *)
(* listeners insert.  Appends, map writes and websocket writes take time   *)
(* here, and what another goroutine meets in that time is one of the       *)
(* outcomes the runtime or the websocket library may produce.              *)
(***************************************************************************)
EXTENDS Integers, Sequences, FiniteSets

CONSTANTS
  Clients,   \* the connections, each with its one signal
  Signals,   \* Signals[k]: the signals explored for k, [type : SType, id : TestID]
  NoID,      \* the empty TestID, which matches every test
  NoReaders, \* the run requests whose hosts may all be this server
  Stalling,  \* the clients that may stop reading without closing
  Duration   \* Config.Duration, the number of batches of a full test

Runs == {k \in Clients : \E m \in Signals[k] : m.type = "run"}

ASSUME LiveServerAssumption ==
  /\ \A k \in Clients : \A m \in Signals[k] : m.type \in {"run", "listen", "stop"}
  /\ NoReaders \subseteq Runs /\ Stalling \subseteq Clients
  /\ Duration \in Nat

VARIABLES
  signal,    \* signal[k]: the signal that k sends when it connects
  con,       \* con[k]: "none", "open", "stalled" or "closed"
  got,       \* got[k]: the last batch of each test and the end that k received
  pc,        \* pc[k]: where the handler of k is
  testLock,  \* the holder of testLock, a set of at most one
  tests,     \* the list of tests; while testLock is held, its last slot is nil
  cancelled, \* cancelled[t]: t.ctx.Err() # nil
  cons,      \* cons[t]: the connections in the map t.cons
  mapWriter, \* mapWriter[t]: the goroutines inserting into t.cons
  batch,     \* batch[t]: the batches generated
  ranging,   \* ranging[t]: the progress of sendAndSaveData over t.cons
  writing,   \* writing[k]: the collectors inside WriteJSON on k
  walk,      \* walk[k]: the progress of a listen or stop handler over tests
  before,    \* history: the tests registered when k asked to listen or stop
  crashed    \* the process is gone

conVars  == <<signal, con, got, writing>>
listVars == <<testLock, tests>>
testVars == <<cancelled, batch, ranging>>
mapVars  == <<cons, mapWriter>>
walkVars == <<walk, before>>
vars == <<conVars, pc, listVars, testVars, mapVars, walkVars, crashed>>

\* A slot is filled once newTest has stored the pointer and returned.
Filled(i) == i < Len(tests) \/ testLock = {}
Registered == {tests[i] : i \in {j \in DOMAIN tests : Filled(j)}}

\* The tests that the signal of k is about.
Matches(k, t) == signal[k].id \in {NoID, signal[t].id}

Init ==
  /\ signal \in {f \in [Clients -> UNION {Signals[k] : k \in Clients}] :
                  \A k \in Clients : f[k] \in Signals[k]}
  /\ con = [k \in Clients |-> "none"]
  /\ got = [k \in Clients |-> [stats |-> [t \in Runs |-> 0], end |-> "none"]]
  /\ pc = [k \in Clients |-> "idle"]
  /\ testLock = {}
  /\ tests = <<>>
  /\ cancelled = [t \in Runs |-> FALSE]
  /\ cons = [t \in Runs |-> {}]
  /\ mapWriter = [t \in Runs |-> {}]
  /\ batch = [t \in Runs |-> 0]
  /\ ranging = [t \in Runs |-> [start |-> {}, seen |-> {}]]
  /\ writing = [k \in Clients |-> {}]
  /\ walk = [k \in Clients |-> [next |-> 1, last |-> 0]]
  /\ before = [k \in Clients |-> {}]
  /\ crashed = FALSE

Goto(k, label) == pc' = [pc EXCEPT ![k] = label]

\* An unrecovered panic or a fatal error of the runtime ends the process.
Crash ==
  /\ crashed' = TRUE
  /\ UNCHANGED <<conVars, pc, listVars, testVars, mapVars, walkVars>>

\* The last message of a handler, which arrives if the client is still there.
SendEnd(k, end) ==
  /\ con[k] # "stalled"
  /\ got' = [got EXCEPT ![k].end = IF con[k] = "open" THEN end ELSE @]
  /\ Goto(k, "gone")
  /\ UNCHANGED <<signal, con, writing, listVars, testVars, mapVars, walkVars, crashed>>

-----------------------------------------------------------------------------
(* The clients and the websocket read loop *)

\* A client connects, is pinged, and sends its signal; the read loop starts
\* the handler.
Connect(k) ==
  /\ con[k] = "none"
  /\ con' = [con EXCEPT ![k] = "open"]
  /\ Goto(k, "start")
  /\ before' = [before EXCEPT ![k] = IF signal[k].type = "run" THEN {} ELSE Registered]
  /\ UNCHANGED <<signal, got, writing, listVars, testVars, mapVars, walk, crashed>>

\* A client that stops reading fills its connection; it never reads again, but
\* it may go away.
Stall(k) ==
  /\ k \in Stalling /\ con[k] = "open"
  /\ con' = [con EXCEPT ![k] = "stalled"]
  /\ UNCHANGED <<signal, got, writing, pc, listVars, testVars, mapVars, walkVars, crashed>>

Disconnect(k) ==
  /\ con[k] \in {"open", "stalled"}
  /\ con' = [con EXCEPT ![k] = "closed"]
  /\ UNCHANGED <<signal, got, writing, pc, listVars, testVars, mapVars, walkVars, crashed>>

-----------------------------------------------------------------------------
(* test.cons, a map without a lock *)

\* Client k's handler begins to insert its connection into t.cons.  The
\* runtime may notice another insertion that has not ended, which is fatal.
InsertBegin(k, t, label) ==
  \/ /\ mapWriter' = [mapWriter EXCEPT ![t] = @ \cup {k}]
     /\ Goto(k, label)
     /\ UNCHANGED <<conVars, listVars, testVars, cons, walkVars, crashed>>
  \/ mapWriter[t] # {} /\ Crash

\* Fault: all connections have one key.
InsertEndOneKey(k, t) ==
  /\ mapWriter' = [mapWriter EXCEPT ![t] = @ \ {k}]
  /\ cons' = [cons EXCEPT ![t] = {k}]

InsertEnd(k, t) ==
  /\ mapWriter' = [mapWriter EXCEPT ![t] = @ \ {k}]
  /\ cons' = [cons EXCEPT ![t] = @ \cup {k}]

-----------------------------------------------------------------------------
(* newTest *)

\* newTest takes testLock.  Without readers it fails and leaves no test;
\* else its append makes the list longer before it fills the new slot.
NewTest(t) ==
  /\ pc[t] = "start"
  /\ testLock = {}
  /\ \/ /\ t \in NoReaders
        /\ Goto(t, "fail")
        /\ UNCHANGED listVars
     \/ /\ Goto(t, "append")
        /\ testLock' = {t}
        /\ tests' = Append(tests, t)
  /\ UNCHANGED <<conVars, testVars, mapVars, walkVars, crashed>>

FillSlot(t) ==
  /\ pc[t] = "append"
  /\ testLock' = {}
  /\ Goto(t, "join")
  /\ UNCHANGED <<conVars, tests, testVars, mapVars, walkVars, crashed>>

-----------------------------------------------------------------------------
(* createAndRunTest, sendAndSaveData *)

\* Fault: the handler of a test that could not be made returns in silence.
FailSilent(t) ==
  /\ pc[t] = "fail"
  /\ Goto(t, "gone")
  /\ UNCHANGED <<conVars, listVars, testVars, mapVars, walkVars, crashed>>

\* SendError, then the deferred SendDone.
Fail(t) == pc[t] = "fail" /\ SendEnd(t, "failed")

JoinBegin(t) == pc[t] = "join" /\ InsertBegin(t, t, "joining")

\* Fault: SendDone is called and not deferred.
JoinEndDone(t) ==
  /\ pc[t] = "joining"
  /\ InsertEnd(t, t)
  /\ got' = [got EXCEPT ![t].end = "done"]
  /\ Goto(t, "check")
  /\ UNCHANGED <<signal, con, writing, listVars, testVars, walkVars, crashed>>

JoinEnd(t) ==
  /\ pc[t] = "joining"
  /\ InsertEnd(t, t)
  /\ Goto(t, "check")
  /\ UNCHANGED <<conVars, listVars, testVars, walkVars, crashed>>

\* Fault: the duration is not looked at.
SleepForever(t) ==
  /\ pc[t] = "check"
  /\ ~cancelled[t]
  /\ Goto(t, "sleep")
  /\ UNCHANGED <<conVars, listVars, testVars, mapVars, walkVars, crashed>>

\* The head of the loop: sleep for another second, or leave and cancel.
Sleep(t) ==
  /\ pc[t] = "check"
  /\ ~cancelled[t] /\ batch[t] < Duration
  /\ Goto(t, "sleep")
  /\ UNCHANGED <<conVars, listVars, testVars, mapVars, walkVars, crashed>>

Leave(t) ==
  /\ pc[t] = "check"
  /\ cancelled[t] \/ batch[t] >= Duration
  /\ cancelled' = [cancelled EXCEPT ![t] = TRUE]
  /\ ranging' = [ranging EXCEPT ![t] = [start |-> {}, seen |-> {}]]
  /\ Goto(t, "finish")
  /\ UNCHANGED <<conVars, listVars, batch, mapVars, walkVars, crashed>>

\* generateDataPoints, and sendAndSaveData up to its loop over t.cons.
Generate(t) ==
  /\ pc[t] = "sleep"
  /\ batch' = [batch EXCEPT ![t] = @ + 1]
  /\ ranging' = [ranging EXCEPT ![t] = [start |-> cons[t], seen |-> {}]]
  /\ Goto(t, "range")
  /\ UNCHANGED <<conVars, listVars, cancelled, mapVars, walkVars, crashed>>

\* The range over t.cons takes a connection it has not seen, perhaps one
\* inserted meanwhile, and starts to write to it.
WriteBegin(t, k) ==
  /\ pc[t] = "range"
  /\ k \in cons[t] \ ranging[t].seen
  /\ ranging' = [ranging EXCEPT ![t].seen = @ \cup {k}]
  /\ writing' = [writing EXCEPT ![k] = @ \cup {t}]
  /\ Goto(t, "write")
  /\ UNCHANGED <<signal, con, got, listVars, cancelled, batch, mapVars, walkVars, crashed>>

\* The library may notice that another goroutine is writing to k and panic.
\* sendAndSaveData recovers, without going on to the other connections.
WritePanics(t, k) ==
  /\ pc[t] = "range"
  /\ k \in cons[t] \ ranging[t].seen
  /\ writing[k] # {}
  /\ Goto(t, "check")
  /\ UNCHANGED <<conVars, listVars, testVars, mapVars, walkVars, crashed>>

\* The write ends once the client reads, for it has no deadline; on a closed
\* connection the kernel may have swallowed it.
WriteOK(t, k) ==
  /\ t \in writing[k] /\ con[k] # "stalled"
  /\ writing' = [writing EXCEPT ![k] = @ \ {t}]
  /\ got' = [got EXCEPT ![k].stats[t] = IF con[k] = "open" THEN batch[t] ELSE @]
  /\ Goto(t, "range")
  /\ UNCHANGED <<signal, con, listVars, testVars, mapVars, walkVars, crashed>>

\* Fault: a failed write ends the loop over the connections.
WriteFailsReturns(t, k) ==
  /\ t \in writing[k]
  /\ con[k] = "closed"
  /\ writing' = [writing EXCEPT ![k] = @ \ {t}]
  /\ cons' = [cons EXCEPT ![t] = @ \ {k}]
  /\ Goto(t, "check")
  /\ UNCHANGED <<signal, con, got, listVars, testVars, mapWriter, walkVars, crashed>>

\* Or it fails, and the connection leaves the test.
WriteFails(t, k) ==
  /\ t \in writing[k]
  /\ con[k] = "closed"
  /\ writing' = [writing EXCEPT ![k] = @ \ {t}]
  /\ cons' = [cons EXCEPT ![t] = @ \ {k}]
  /\ Goto(t, "range")
  /\ UNCHANGED <<signal, con, got, listVars, testVars, mapWriter, walkVars, crashed>>

\* Every connection that was there at the start and still is has been seen.
RangeEnd(t) ==
  /\ pc[t] = "range"
  /\ ranging[t].start \cap cons[t] \subseteq ranging[t].seen
  /\ Goto(t, "check")
  /\ UNCHANGED <<conVars, listVars, testVars, mapVars, walkVars, crashed>>

\* A step of the range, or the delete after a failed write, may meet an
\* insertion that has not ended: a fatal error, which no recover stops.
MapRace(t) ==
  /\ pc[t] \in {"range", "write"}
  /\ mapWriter[t] # {}
  /\ Crash

\* The deferred SendDone.
Finish(k) == pc[k] = "finish" /\ SendEnd(k, "done")

-----------------------------------------------------------------------------
(* listenToLiveTests and stopAllTests walk the list without testLock *)

WalkStart(k) ==
  /\ pc[k] = "start"
  /\ walk' = [walk EXCEPT ![k] = [next |-> 1, last |-> Len(tests)]]
  /\ Goto(k, "walk")
  /\ UNCHANGED <<conVars, listVars, testVars, mapVars, before, crashed>>

At(k, i) == pc[k] = "walk" /\ i = walk[k].next /\ i <= walk[k].last
Advance(k) == walk' = [walk EXCEPT ![k].next = @ + 1]

\* tests[i] is nil: the handler does not recover from the panic.
WalkNil(k) == \E i \in DOMAIN tests : At(k, i) /\ ~Filled(i) /\ Crash

WalkSkip(k) ==
  /\ \E i \in DOMAIN tests : At(k, i) /\ Filled(i) /\ ~Matches(k, tests[i])
  /\ Advance(k)
  /\ UNCHANGED <<conVars, pc, listVars, testVars, mapVars, before, crashed>>

ListenBegin(k) ==
  /\ signal[k].type = "listen"
  /\ \E i \in DOMAIN tests : /\ At(k, i) /\ Filled(i) /\ Matches(k, tests[i])
                             /\ InsertBegin(k, tests[i], "insert")

ListenEnd(k) ==
  /\ pc[k] = "insert"
  /\ InsertEnd(k, tests[walk[k].next])
  /\ Advance(k)
  /\ Goto(k, "walk")
  /\ UNCHANGED <<conVars, listVars, testVars, before, crashed>>

StopTest(k) ==
  /\ signal[k].type = "stop"
  /\ \E i \in DOMAIN tests : /\ At(k, i) /\ Filled(i) /\ Matches(k, tests[i])
                             /\ cancelled' = [cancelled EXCEPT ![tests[i]] = TRUE]
  /\ Advance(k)
  /\ UNCHANGED <<conVars, pc, listVars, batch, ranging, mapVars, before, crashed>>

\* Fault: the handler returns after the first test.
WalkEndFirst(k) ==
  /\ pc[k] = "walk"
  /\ walk[k].next > 1 \/ walk[k].next > walk[k].last
  /\ Goto(k, IF signal[k].type = "stop" THEN "finish" ELSE "gone")
  /\ UNCHANGED <<conVars, listVars, testVars, mapVars, walkVars, crashed>>

\* A stop is answered with Done, a listen with nothing.
WalkEnd(k) ==
  /\ pc[k] = "walk"
  /\ walk[k].next > walk[k].last
  /\ Goto(k, IF signal[k].type = "stop" THEN "finish" ELSE "gone")
  /\ walk' = [walk EXCEPT ![k] = [next |-> 1, last |-> 0]]
  /\ UNCHANGED <<conVars, listVars, testVars, mapVars, before, crashed>>

-----------------------------------------------------------------------------
RunStep(t) ==
  \/ NewTest(t) \/ FillSlot(t) \/ Fail(t) \/ JoinBegin(t) \/ JoinEnd(t)
  \/ Sleep(t) \/ Leave(t) \/ Generate(t) \/ RangeEnd(t) \/ MapRace(t)
  \/ \E k \in Clients : \/ WriteBegin(t, k) \/ WritePanics(t, k)
                        \/ WriteOK(t, k) \/ WriteFails(t, k)

WalkStep(k) ==
  \/ WalkStart(k) \/ WalkNil(k) \/ WalkSkip(k) \/ ListenBegin(k) \/ ListenEnd(k)
  \/ StopTest(k) \/ WalkEnd(k)

HandlerStep(k) ==
  /\ ~crashed
  /\ \/ signal[k].type = "run" /\ RunStep(k)
     \/ signal[k].type # "run" /\ WalkStep(k)
     \/ Finish(k)

ClientStep(k) == ~crashed /\ (Connect(k) \/ Stall(k) \/ Disconnect(k))

\* Nothing is left to happen.
Terminated ==
  /\ crashed \/ \A k \in Clients : pc[k] = "gone" /\ con[k] = "closed"
  /\ UNCHANGED vars

Next == (\E k \in Clients : HandlerStep(k) \/ ClientStep(k)) \/ Terminated

Spec == Init /\ [][Next]_vars

(***************************************************************************)
(* Every handler goroutine runs, and WriteJSON returns unless the client   *)
(* stalls: the connection of a client that is gone fails or takes the      *)
(* bytes.  Clients owe nothing.                                            *)
(***************************************************************************)
FairSpec == Spec /\ \A k \in Clients : WF_vars(HandlerStep(k))

-----------------------------------------------------------------------------
(* Properties *)

\* Every variable holds values of its Go type.
TypeOK ==
  /\ \A k \in Clients : signal[k] \in Signals[k]
  /\ con \in [Clients -> {"none", "open", "stalled", "closed"}]
  /\ got \in [Clients -> [stats : [Runs -> Nat], end : {"none", "failed", "done"}]]
  /\ pc \in [Clients -> {"idle", "start", "append", "fail", "join", "joining",
                         "check", "sleep", "range", "write", "finish", "walk",
                         "insert", "gone"}]
  /\ testLock \subseteq Runs
  /\ tests \in Seq(Runs)
  /\ cancelled \in [Runs -> BOOLEAN]
  /\ cons \in [Runs -> SUBSET Clients]
  /\ mapWriter \in [Runs -> SUBSET Clients]
  /\ batch \in [Runs -> 0..Duration]
  /\ ranging \in [Runs -> [start : SUBSET Clients, seen : SUBSET Clients]]
  /\ writing \in [Clients -> SUBSET Runs]
  /\ walk \in [Clients -> [next : Nat \ {0}, last : Nat]]
  /\ before \in [Clients -> SUBSET Runs]
  /\ crashed \in BOOLEAN

\* Every connection of a test when a batch went out, and still there, has that
\* batch once sendAndSaveData is through: no client that monitors one test has a
\* hole in what it was sent.  (One that monitors two may: WritePanics.)
NoBatchMissed ==
  \A t \in Runs : pc[t] = "check" =>
    \A k \in ranging[t].start \cap cons[t] :
      con[k] = "open" => got[k].stats[t] = batch[t]

\* A stop that has been answered has cancelled every matching test that was
\* registered when it was sent, although it walked the list without the lock
\* while other tests were appended.
StopEffective ==
  \A k \in Clients : signal[k].type = "stop" /\ pc[k] = "gone" =>
    \A t \in before[k] : Matches(k, t) => cancelled[t]

\* A listener whose connection lives stays subscribed to every matching test
\* registered when it asked: only a failed write removes a connection.
ListenerStays ==
  \A k \in Clients : signal[k].type = "listen" /\ pc[k] = "gone" /\ con[k] = "open" =>
    \A t \in before[k] : Matches(k, t) => k \in cons[t]

\* What the clients see is the abstract feed: batches of the tests they asked
\* for, only of those, never an older one after a newer, and nothing after the
\* Done.
Feed == INSTANCE LiveFeed WITH
  Tests <- Runs,
  Wants <- {w \in Clients \X Runs :
              \/ w[1] = w[2]
              \/ \E m \in Signals[w[1]], n \in Signals[w[2]] :
                   m.type = "listen" /\ m.id \in {NoID, n.id}},
  made  <- batch,
  last  <- [k \in Clients |-> got[k].stats],
  over  <- {k \in Clients : got[k].end # "none"}

ImplementsFeed == Feed!Spec

\* A client that asked for a run and stays gets its Done, whatever the others
\* do: only a crash of the server breaks this, and, as writes have no deadline,
\* a client of this very test that has stalled and stays connected for ever.
RunAnswered ==
  \A t \in Runs :
    signal[t].type = "run" /\ pc[t] = "start" ~>
      \/ got[t].end # "none" \/ con[t] = "closed" \/ crashed
      \/ [](\E k \in cons[t] \cup {t} : con[k] = "stalled")

(***************************************************************************)
(* README.md:144 says "Multiple clients can monitor the same test          *)
(* simultaneously": the server survives that.                              *)
(***************************************************************************)
NeverCrashes == ~crashed
=============================================================================

--------------------------- MODULE LiveServer_proofs ---------------------------
(***************************************************************************)
(* Proofs about LiveServer, for any clients, signals and duration, and     *)
(* with clients that leave or stall at any time.                           *)
(***************************************************************************)
EXTENDS LiveServer, TLAPS

-----------------------------------------------------------------------------
(* The inductive invariant *)

Labels == {"idle", "start", "append", "fail", "join", "joining", "check", "sleep", "range",
           "write", "finish", "walk", "insert", "gone"}
Connections == {"none", "open", "stalled", "closed"}

\* The labels that each kind of handler passes.
HandlerLabels ==
  \A k \in Clients :
    /\ signal[k].type = "run" =>
         pc[k] \in {"idle", "start", "append", "fail", "join", "joining", "check",
                    "sleep", "range", "write", "finish", "gone"}
    /\ signal[k].type = "listen" => pc[k] \in {"idle", "start", "walk", "insert", "gone"}
    /\ signal[k].type = "stop" => pc[k] \in {"idle", "start", "walk", "finish", "gone"}
    /\ con[k] = "none" => pc[k] = "idle"

\* What handlers know of the list while they walk it: the part they walk is
\* there, and so is the test they insert into.
WalkInList ==
  \A k \in Clients : pc[k] \in {"walk", "insert"} =>
    /\ walk[k].last <= Len(tests)
    /\ walk[k].next <= walk[k].last + 1
    /\ pc[k] = "insert" => /\ walk[k].next <= walk[k].last
                           /\ Matches(k, tests[walk[k].next])

\* A collector writes while it is in its loop, to one connection at a time, and
\* sleeps only before its last batch.
Collecting ==
  /\ \A k \in Clients : \A t \in writing[k] : pc[t] = "write" /\ signal[t].type = "run"
  /\ \A k, l \in Clients : writing[k] \cap writing[l] # {} => k = l
  /\ \A t \in Runs : pc[t] = "sleep" => batch[t] < Duration

TypeInv == TypeOK /\ HandlerLabels /\ WalkInList /\ Collecting

LEMMA RunInRuns ==
  ASSUME TypeOK, NEW k \in Clients, signal[k].type = "run"
  PROVE  k \in Runs
BY DEF TypeOK, Runs

LEMMA RunsAreClients == Runs \subseteq Clients
BY DEF Runs

LEMMA AdvanceType ==
  ASSUME walk \in [Clients -> [next : Nat \ {0}, last : Nat]],
         NEW k \in Clients, Advance(k)
  PROVE  walk' \in [Clients -> [next : Nat \ {0}, last : Nat]]
<1>1. walk[k] \in [next : Nat \ {0}, last : Nat]
  OBVIOUS
<1>2. walk[k].next + 1 \in Nat \ {0}
  BY <1>1
<1>3. [walk[k] EXCEPT !.next = @ + 1] \in [next : Nat \ {0}, last : Nat]
  BY <1>1, <1>2
<1> QED BY <1>3 DEF Advance

LEMMA InsertType ==
  ASSUME TypeOK, NEW k \in Clients, NEW t \in Runs, InsertEnd(k, t)
  PROVE  cons' \in [Runs -> SUBSET Clients] /\ mapWriter' \in [Runs -> SUBSET Clients]
BY DEF TypeOK, InsertEnd

\* An insertion begins at a label of the handler, or ends the process.
LEMMA InsertBeginType ==
  ASSUME TypeOK, NEW k \in Clients, NEW t \in Runs, NEW label \in {"joining", "insert"},
         InsertBegin(k, t, label)
  PROVE  TypeOK'
<1>1. CASE Crash
  BY <1>1 DEF Crash, TypeOK, conVars, listVars, testVars, mapVars, walkVars
<1>2. CASE ~Crash
  <2>1. /\ mapWriter' = [mapWriter EXCEPT ![t] = @ \cup {k}]
        /\ pc' = [pc EXCEPT ![k] = label]
        /\ UNCHANGED <<conVars, listVars, testVars, cons, walkVars, crashed>>
    BY <1>2 DEF InsertBegin, Goto
  <2>2. mapWriter' \in [Runs -> SUBSET Clients]
    BY <2>1 DEF TypeOK
  <2> QED BY <2>1, <2>2 DEF TypeOK, conVars, listVars, testVars, walkVars
<1> QED BY <1>1, <1>2

LEMMA InitType == Init => TypeInv
<1> SUFFICES ASSUME Init PROVE TypeInv
  OBVIOUS
<1> USE DEF Init
<1>1. TypeOK
  <2>1. \A k \in Clients : signal[k] \in Signals[k]
    OBVIOUS
  <2>2. /\ got \in [Clients -> [stats : [Runs -> Nat], end : {"none", "failed", "done"}]]
        /\ walk \in [Clients -> [next : Nat \ {0}, last : Nat]]
        /\ ranging \in [Runs -> [start : SUBSET Clients, seen : SUBSET Clients]]
    OBVIOUS
  <2>3. batch \in [Runs -> 0..Duration] /\ tests \in Seq(Runs)
    BY LiveServerAssumption
  <2> HIDE DEF Init
  <2>4. /\ con \in [Clients -> {"none", "open", "stalled", "closed"}]
        /\ pc \in [Clients -> {"idle", "start", "append", "fail", "join", "joining",
                                "check", "sleep", "range", "write", "finish", "walk",
                                "insert", "gone"}]
        /\ testLock \subseteq Runs
        /\ cancelled \in [Runs -> BOOLEAN]
    BY DEF Init
  <2>5. /\ cons \in [Runs -> SUBSET Clients]
        /\ mapWriter \in [Runs -> SUBSET Clients]
        /\ writing \in [Clients -> SUBSET Runs]
        /\ before \in [Clients -> SUBSET Runs]
        /\ crashed \in BOOLEAN
    BY DEF Init
  <2> QED BY <2>1, <2>2, <2>3, <2>4, <2>5 DEF TypeOK
<1>2. HandlerLabels /\ WalkInList /\ Collecting
  BY DEF HandlerLabels, WalkInList, Collecting, Runs
<1> QED BY <1>1, <1>2 DEF TypeInv

LEMMA SendEndType ==
  ASSUME TypeOK, NEW k \in Clients, NEW end \in {"failed", "done"}, SendEnd(k, end)
  PROVE  TypeOK'
<1>1. got' \in [Clients -> [stats : [Runs -> Nat], end : {"none", "failed", "done"}]]
  <2>1. got[k] \in [stats : [Runs -> Nat], end : {"none", "failed", "done"}]
    BY DEF TypeOK
  <2> DEFINE g == [got[k] EXCEPT !.end = IF con[k] = "open" THEN end ELSE @]
  <2>2. g \in [stats : [Runs -> Nat], end : {"none", "failed", "done"}]
    BY <2>1
  <2>3. got' = [got EXCEPT ![k] = g]
    BY DEF SendEnd, TypeOK
  <2> HIDE DEF g
  <2> QED BY <2>2, <2>3 DEF TypeOK
<1>2. /\ UNCHANGED <<signal, con, writing, listVars, testVars, mapVars, walkVars, crashed>>
      /\ pc' = [pc EXCEPT ![k] = "gone"]
  BY DEF SendEnd, Goto
<1> QED BY <1>1, <1>2 DEF TypeOK, listVars, testVars, mapVars, walkVars

LEMMA RunType ==
  ASSUME TypeInv, NEW t \in Clients, signal[t].type = "run", RunStep(t)
  PROVE  TypeOK'
<1> USE DEF TypeInv, TypeOK, conVars, listVars, testVars, mapVars, walkVars, Goto
<1>0. t \in Runs
  BY RunInRuns
<1>1. CASE NewTest(t)
  <2>1. UNCHANGED <<conVars, testVars, mapVars, walkVars, crashed>>
    BY <1>1 DEF NewTest
  <2>2. CASE Goto(t, "fail") /\ UNCHANGED listVars
    BY <2>1, <2>2
  <2>3. CASE Goto(t, "append") /\ testLock' = {t} /\ tests' = Append(tests, t)
    <3>1. tests' \in Seq(Runs)
      BY <1>0, <2>3
    <3> QED BY <1>0, <2>1, <2>3, <3>1
  <2> QED BY <1>1, <2>2, <2>3 DEF NewTest
<1>2. CASE FillSlot(t)
  BY <1>2 DEF FillSlot
<1>3. CASE Fail(t)
  <2>1. SendEnd(t, "failed")
    BY <1>3 DEF Fail
  <2> HIDE DEF TypeOK
  <2> QED BY <2>1, SendEndType
<1>4. CASE JoinBegin(t)
  BY <1>0, <1>4, InsertBeginType DEF JoinBegin
<1>5. CASE JoinEnd(t)
  BY <1>0, <1>5, InsertType DEF JoinEnd
<1>6. CASE Sleep(t)
  BY <1>6 DEF Sleep
<1>7. CASE Leave(t)
  BY <1>0, <1>7 DEF Leave
<1>8. CASE Generate(t)
  BY <1>0, <1>8, LiveServerAssumption DEF Generate, Collecting
<1>9. CASE RangeEnd(t)
  BY <1>9 DEF RangeEnd
<1>10. CASE MapRace(t)
  BY <1>10 DEF MapRace, Crash
<1>11. ASSUME NEW k \in Clients, WriteBegin(t, k) PROVE TypeOK'
  <2>1. ranging' \in [Runs -> [start : SUBSET Clients, seen : SUBSET Clients]]
    <3>1. ranging[t] \in [start : SUBSET Clients, seen : SUBSET Clients]
      BY <1>0
    <3>2. [ranging[t] EXCEPT !.seen = @ \cup {k}] \in [start : SUBSET Clients, seen : SUBSET Clients]
      BY <3>1
    <3>3. ranging' = [ranging EXCEPT ![t] = [ranging[t] EXCEPT !.seen = @ \cup {k}]]
      BY <1>0, <1>11 DEF WriteBegin
    <3> QED BY <1>0, <3>2, <3>3
  <2>2. writing' \in [Clients -> SUBSET Runs]
    BY <1>0, <1>11 DEF WriteBegin
  <2>3. /\ UNCHANGED <<signal, con, got, listVars, cancelled, batch, mapVars, walkVars, crashed>>
        /\ pc' = [pc EXCEPT ![t] = "write"]
    BY <1>11 DEF WriteBegin
  <2> QED BY <2>1, <2>2, <2>3
<1>12. ASSUME NEW k \in Clients, WritePanics(t, k) PROVE TypeOK'
  BY <1>12 DEF WritePanics
<1>13. ASSUME NEW k \in Clients, WriteOK(t, k) PROVE TypeOK'
  <2>1. got' \in [Clients -> [stats : [Runs -> Nat], end : {"none", "failed", "done"}]]
    <3>1. batch[t] \in Nat
      BY <1>0, LiveServerAssumption
    <3>2. [got[k] EXCEPT !.stats[t] = IF con[k] = "open" THEN batch[t] ELSE @]
            \in [stats : [Runs -> Nat], end : {"none", "failed", "done"}]
      <4>1. got[k] \in [stats : [Runs -> Nat], end : {"none", "failed", "done"}]
        OBVIOUS
      <4>2. [got[k].stats EXCEPT ![t] = IF con[k] = "open" THEN batch[t] ELSE @]
              \in [Runs -> Nat]
        BY <1>0, <3>1, <4>1
      <4> QED BY <4>1, <4>2
    <3> QED BY <1>13, <3>2 DEF WriteOK
  <2>2. writing' \in [Clients -> SUBSET Runs]
    BY <1>13 DEF WriteOK
  <2> QED BY <1>13, <2>1, <2>2 DEF WriteOK
<1>14. ASSUME NEW k \in Clients, WriteFails(t, k) PROVE TypeOK'
  BY <1>0, <1>14 DEF WriteFails
<1> QED
  BY <1>1, <1>2, <1>3, <1>4, <1>5, <1>6, <1>7, <1>8, <1>9, <1>10, <1>11, <1>12,
     <1>13, <1>14 DEF RunStep

LEMMA WalkType ==
  ASSUME TypeInv, NEW k \in Clients, signal[k].type # "run", WalkStep(k)
  PROVE  TypeOK'
<1> USE DEF TypeInv, TypeOK, conVars, listVars, testVars, mapVars, walkVars, Goto
<1>1. CASE WalkStart(k)
  BY <1>1 DEF WalkStart
<1>2. CASE WalkNil(k)
  BY <1>2 DEF WalkNil, Crash
<1>3. CASE WalkSkip(k)
  BY <1>3, AdvanceType DEF WalkSkip
<1>4. CASE ListenBegin(k)
  <2>1. PICK i \in DOMAIN tests : InsertBegin(k, tests[i], "insert")
    BY <1>4 DEF ListenBegin
  <2>2. tests[i] \in Runs
    OBVIOUS
  <2> QED BY <2>1, <2>2, InsertBeginType
<1>5. CASE ListenEnd(k)
  <2>1. tests[walk[k].next] \in Runs
    <3>1. walk[k].next <= Len(tests) /\ walk[k].next \in Nat \ {0} /\ walk[k].last \in Nat
      BY <1>5 DEF ListenEnd, WalkInList
    <3> QED BY <3>1
  <2>2. /\ cons' \in [Runs -> SUBSET Clients] /\ mapWriter' \in [Runs -> SUBSET Clients]
        /\ walk' \in [Clients -> [next : Nat \ {0}, last : Nat]]
    BY <1>5, <2>1, InsertType, AdvanceType DEF ListenEnd
  <2> QED BY <1>5, <2>2 DEF ListenEnd
<1>6. CASE StopTest(k)
  <2>1. cancelled' \in [Runs -> BOOLEAN]
    BY <1>6 DEF StopTest
  <2> QED BY <1>6, <2>1, AdvanceType DEF StopTest
<1>7. CASE WalkEnd(k)
  BY <1>7 DEF WalkEnd
<1> QED BY <1>1, <1>2, <1>3, <1>4, <1>5, <1>6, <1>7 DEF WalkStep

LEMMA ClientType ==
  ASSUME TypeInv, NEW k \in Clients, ClientStep(k)
  PROVE  TypeOK'
<1> USE DEF TypeInv, TypeOK, conVars, listVars, testVars, mapVars, walkVars, Goto
<1>1. CASE Connect(k)
  <2>1. Registered \subseteq Runs
    BY DEF Registered
  <2> QED BY <1>1, <2>1 DEF Connect
<1>2. CASE Stall(k)
  BY <1>2 DEF Stall
<1>3. CASE Disconnect(k)
  BY <1>3 DEF Disconnect
<1> QED BY <1>1, <1>2, <1>3 DEF ClientStep

-----------------------------------------------------------------------------
(* What a step may do, as far as the other handlers notice *)

RunLabels ==
  {"append", "fail", "join", "joining", "check", "sleep", "range", "write", "finish", "gone"}

\* The handler of a run moves on, registers its test, cancels it, joins it, or
\* drops a connection that is closed.
RunFrame(t) ==
  /\ UNCHANGED <<signal, con, walk, before>>
  /\ \/ pc' = pc
     \/ pc[t] # "idle" /\ \E label \in RunLabels : pc' = [pc EXCEPT ![t] = label]
  /\ tests' = tests \/ tests' = Append(tests, t)
  /\ \A u \in Runs : cancelled[u] => cancelled'[u]
  /\ \A u \in Runs : /\ \A k \in cons[u] : k \in cons'[u] \/ con[k] = "closed"
                     /\ cons'[u] \subseteq cons[u] \cup {t}
                     /\ u # t => cons'[u] \subseteq cons[u]

LEMMA RunFrames ==
  ASSUME TypeInv, NEW t \in Clients, signal[t].type = "run", RunStep(t)
  PROVE  RunFrame(t)
<1> USE DEF RunFrame, conVars, listVars, testVars, mapVars, walkVars, RunLabels
<1>0. /\ t \in Runs /\ cons \in [Runs -> SUBSET Clients]
      /\ cancelled \in [Runs -> BOOLEAN]
  BY RunInRuns DEF TypeInv, TypeOK
<1>1. CASE NewTest(t)
  BY <1>1 DEF NewTest, Goto
<1>2. CASE FillSlot(t)
  BY <1>2 DEF FillSlot, Goto
<1>3. CASE Fail(t)
  BY <1>3 DEF Fail, SendEnd, Goto
<1>4. CASE JoinBegin(t)
  BY <1>4 DEF JoinBegin, InsertBegin, Crash, Goto
<1>5. CASE JoinEnd(t)
  BY <1>0, <1>5 DEF JoinEnd, InsertEnd, Goto
<1>6. CASE Sleep(t)
  BY <1>6 DEF Sleep, Goto
<1>7. CASE Leave(t)
  BY <1>0, <1>7 DEF Leave, Goto
<1>8. CASE Generate(t)
  BY <1>8 DEF Generate, Goto
<1>9. CASE RangeEnd(t)
  BY <1>9 DEF RangeEnd, Goto
<1>10. CASE MapRace(t)
  BY <1>10 DEF MapRace, Crash
<1>11. ASSUME NEW k \in Clients, WriteBegin(t, k) PROVE RunFrame(t)
  BY <1>11 DEF WriteBegin, Goto
<1>12. ASSUME NEW k \in Clients, WritePanics(t, k) PROVE RunFrame(t)
  BY <1>12 DEF WritePanics, Goto
<1>13. ASSUME NEW k \in Clients, WriteOK(t, k) PROVE RunFrame(t)
  BY <1>13 DEF WriteOK, Goto, TypeInv, Collecting
<1>14. ASSUME NEW k \in Clients, WriteFails(t, k) PROVE RunFrame(t)
  BY <1>0, <1>14 DEF WriteFails, Goto, TypeInv, Collecting
<1> QED
  BY <1>1, <1>2, <1>3, <1>4, <1>5, <1>6, <1>7, <1>8, <1>9, <1>10, <1>11, <1>12,
     <1>13, <1>14 DEF RunStep

\* The handler of a listen or stop walks on; it leaves the list, the collectors
\* and what they have written alone.
WalkFrame(k) ==
  /\ UNCHANGED <<conVars, testLock, tests, batch, ranging, before>>
  /\ \/ pc' = pc
     \/ /\ pc[k] # "idle"
        /\ \E label \in {"walk", "gone"} \cup (IF signal[k].type = "stop" THEN {"finish"}
                                                                       ELSE {"insert"}) :
             pc' = [pc EXCEPT ![k] = label]
  /\ walk' = walk \/ walk' = [walk EXCEPT ![k] = walk'[k]]
  /\ \A u \in Runs : cancelled[u] => cancelled'[u]
  /\ \A u \in Runs : cons[u] \subseteq cons'[u] /\ cons'[u] \subseteq cons[u] \cup {k}

LEMMA WalkFrames ==
  ASSUME TypeInv, NEW k \in Clients, signal[k].type # "run", WalkStep(k)
  PROVE  WalkFrame(k)
<1> USE DEF WalkFrame, conVars, listVars, testVars, mapVars, walkVars
<1>0. /\ cons \in [Runs -> SUBSET Clients] /\ walk \in [Clients -> [next : Nat \ {0}, last : Nat]]
      /\ cancelled \in [Runs -> BOOLEAN] /\ tests \in Seq(Runs)
  BY DEF TypeInv, TypeOK
<1>1. CASE WalkStart(k)
  BY <1>0, <1>1 DEF WalkStart, Goto
<1>2. CASE WalkNil(k)
  BY <1>2 DEF WalkNil, Crash
<1>3. CASE WalkSkip(k)
  BY <1>0, <1>3 DEF WalkSkip, Advance
<1>4. CASE ListenBegin(k)
  <2>1. PICK i \in DOMAIN tests : InsertBegin(k, tests[i], "insert") /\ pc[k] = "walk"
    BY <1>4 DEF ListenBegin, At
  <2>2. signal[k].type = "listen"
    BY <1>4 DEF ListenBegin
  <2> QED BY <2>1, <2>2 DEF InsertBegin, Crash, Goto
<1>5. CASE ListenEnd(k)
  BY <1>0, <1>5 DEF ListenEnd, InsertEnd, Advance, Goto
<1>6. CASE StopTest(k)
  BY <1>0, <1>6 DEF StopTest, Advance
<1>7. CASE WalkEnd(k)
  BY <1>0, <1>7 DEF WalkEnd, Goto
<1> QED BY <1>1, <1>2, <1>3, <1>4, <1>5, <1>6, <1>7 DEF WalkStep

-----------------------------------------------------------------------------
(* Types, labels, walks and collectors are an invariant *)

LEMMA SignalKinds ==
  ASSUME TypeOK, NEW k \in Clients
  PROVE  signal[k].type \in {"run", "listen", "stop"}
BY LiveServerAssumption DEF TypeOK

LEMMA RunLabelsInv ==
  ASSUME TypeInv, NEW t \in Clients, signal[t].type = "run", RunStep(t)
  PROVE  HandlerLabels' /\ WalkInList'
<1>1. RunFrame(t) /\ pc \in [Clients -> Labels] /\ tests \in Seq(Runs) /\ t \in Runs
  BY RunFrames, RunInRuns DEF TypeInv, TypeOK, Labels
<1>2. HandlerLabels'
  BY <1>1 DEF RunFrame, RunLabels, TypeInv, HandlerLabels
<1>3. ASSUME NEW k \in Clients, pc'[k] \in {"walk", "insert"}
      PROVE  /\ walk'[k].last <= Len(tests')
             /\ walk'[k].next <= walk'[k].last + 1
             /\ pc'[k] = "insert" => /\ walk'[k].next <= walk'[k].last
                                     /\ Matches(k, tests[walk[k].next])'
  <2>1. k # t /\ pc'[k] = pc[k] /\ walk' = walk /\ signal' = signal
    BY <1>1, <1>3 DEF RunFrame, RunLabels, TypeInv, HandlerLabels
  <2>2. /\ walk[k].last <= Len(tests)
        /\ walk[k].next <= walk[k].last + 1
        /\ pc[k] = "insert" => /\ walk[k].next <= walk[k].last
                               /\ Matches(k, tests[walk[k].next])
    BY <1>3, <2>1 DEF TypeInv, WalkInList
  <2>3. walk[k].next \in Nat \ {0} /\ walk[k].last \in Nat
    BY DEF TypeInv, TypeOK
  <2>4. Len(tests') >= Len(tests) /\ \A i \in 1..Len(tests) : tests'[i] = tests[i]
    BY <1>1 DEF RunFrame
  <2>5. walk[k].last <= Len(tests') /\ walk[k].next <= walk[k].last + 1
    <3>1. Len(tests) \in Nat /\ Len(tests') \in Nat
      BY <1>1 DEF RunFrame
    <3> QED BY <2>2, <2>3, <2>4, <3>1
  <2>6. ASSUME pc[k] = "insert"
        PROVE  walk[k].next <= walk[k].last /\ Matches(k, tests[walk[k].next])'
    <3>1. walk[k].next \in 1..Len(tests)
      BY <1>1, <2>2, <2>3, <2>6
    <3>2. tests'[walk[k].next] = tests[walk[k].next]
      BY <2>4, <3>1
    <3> QED BY <2>1, <2>2, <2>6, <3>2 DEF Matches
  <2> QED BY <2>1, <2>5, <2>6
<1> QED BY <1>2, <1>3 DEF WalkInList

LEMMA RunCollecting ==
  ASSUME TypeInv, NEW t \in Clients, signal[t].type = "run", RunStep(t)
  PROVE  Collecting'
<1> USE DEF conVars, listVars, testVars, mapVars, walkVars, TypeInv, Collecting, Goto
<1>0. /\ t \in Runs /\ pc \in [Clients -> Labels] /\ Runs \subseteq Clients
      /\ writing \in [Clients -> SUBSET Runs] /\ batch \in [Runs -> 0..Duration]
  BY RunInRuns, RunsAreClients DEF TypeOK, Labels
<1>1. CASE NewTest(t)
  BY <1>0, <1>1 DEF NewTest
<1>2. CASE FillSlot(t)
  BY <1>0, <1>2 DEF FillSlot
<1>3. CASE Fail(t)
  BY <1>0, <1>3 DEF Fail, SendEnd
<1>4. CASE JoinBegin(t)
  BY <1>0, <1>4 DEF JoinBegin, InsertBegin, Crash
<1>5. CASE JoinEnd(t)
  BY <1>0, <1>5 DEF JoinEnd
<1>6. CASE Sleep(t)
  BY <1>0, <1>6 DEF Sleep
<1>7. CASE Leave(t)
  BY <1>0, <1>7 DEF Leave
<1>8. CASE Generate(t)
  BY <1>0, <1>8 DEF Generate
<1>9. CASE RangeEnd(t)
  BY <1>0, <1>9 DEF RangeEnd
<1>10. CASE MapRace(t)
  BY <1>10 DEF MapRace, Crash
<1>11. ASSUME NEW k \in Clients, WriteBegin(t, k) PROVE Collecting'
  BY <1>0, <1>11 DEF WriteBegin
<1>12. ASSUME NEW k \in Clients, WritePanics(t, k) PROVE Collecting'
  BY <1>0, <1>12 DEF WritePanics
<1>13. ASSUME NEW k \in Clients, WriteOK(t, k) PROVE Collecting'
  BY <1>0, <1>13 DEF WriteOK
<1>14. ASSUME NEW k \in Clients, WriteFails(t, k) PROVE Collecting'
  BY <1>0, <1>14 DEF WriteFails
<1> QED
  BY <1>1, <1>2, <1>3, <1>4, <1>5, <1>6, <1>7, <1>8, <1>9, <1>10, <1>11, <1>12,
     <1>13, <1>14 DEF RunStep

LEMMA WalkLabelsInv ==
  ASSUME TypeInv, NEW k \in Clients, signal[k].type # "run", WalkStep(k)
  PROVE  HandlerLabels' /\ WalkInList' /\ Collecting'
<1>1. /\ WalkFrame(k) /\ pc \in [Clients -> Labels]
      /\ walk \in [Clients -> [next : Nat \ {0}, last : Nat]] /\ tests \in Seq(Runs)
      /\ signal[k].type \in {"listen", "stop"}
  BY WalkFrames, SignalKinds DEF TypeInv, TypeOK, Labels
<1>2. HandlerLabels'
  BY <1>1 DEF WalkFrame, conVars, TypeInv, HandlerLabels
<1>3. Collecting'
  <2>1. UNCHANGED <<signal, writing, batch>> /\ \A t \in Clients : t # k => pc'[t] = pc[t]
    BY <1>1 DEF WalkFrame, conVars
  <2>2. pc'[k] # "sleep"
    BY <1>1 DEF WalkFrame, TypeInv, HandlerLabels
  <2>3. /\ \A l \in Clients : k \notin writing[l]
        /\ writing \in [Clients -> SUBSET Runs]
    BY <1>1 DEF TypeInv, TypeOK, Collecting
  <2> QED BY <2>1, <2>2, <2>3, RunsAreClients DEF TypeInv, Collecting
<1>4. ASSUME NEW l \in Clients, l # k, pc'[l] \in {"walk", "insert"}
      PROVE  /\ walk'[l].last <= Len(tests')
             /\ walk'[l].next <= walk'[l].last + 1
             /\ pc'[l] = "insert" => /\ walk'[l].next <= walk'[l].last
                                     /\ Matches(l, tests[walk[l].next])'
  BY <1>1, <1>4 DEF WalkFrame, conVars, TypeInv, WalkInList, Matches
<1>5. ASSUME pc'[k] \in {"walk", "insert"}
      PROVE  /\ walk'[k].last <= Len(tests')
             /\ walk'[k].next <= walk'[k].last + 1
             /\ pc'[k] = "insert" => /\ walk'[k].next <= walk'[k].last
                                     /\ Matches(k, tests[walk[k].next])'
  <2> USE DEF TypeInv, WalkInList, Matches, conVars, listVars, walkVars, Goto
  <2>0. walk[k].next \in Nat \ {0} /\ walk[k].last \in Nat
    BY <1>1
  <2>1. CASE WalkStart(k)
    BY <1>1, <1>5, <2>1 DEF WalkStart
  <2>2. CASE WalkNil(k)
    BY <1>1, <1>5, <2>2 DEF WalkNil, Crash
  <2>3. CASE WalkSkip(k)
    BY <1>1, <1>5, <2>0, <2>3 DEF WalkSkip, Advance, At
  <2>4. CASE ListenBegin(k)
    BY <1>1, <1>5, <2>0, <2>4 DEF ListenBegin, InsertBegin, Crash, At
  <2>5. CASE ListenEnd(k)
    BY <1>1, <1>5, <2>0, <2>5 DEF ListenEnd, Advance
  <2>6. CASE StopTest(k)
    BY <1>1, <1>5, <2>0, <2>6 DEF StopTest, Advance, At
  <2>7. CASE WalkEnd(k)
    BY <1>1, <1>5, <2>7 DEF WalkEnd
  <2> QED BY <2>1, <2>2, <2>3, <2>4, <2>5, <2>6, <2>7 DEF WalkStep
<1> QED BY <1>2, <1>3, <1>4, <1>5 DEF WalkInList

LEMMA FinishInv ==
  ASSUME TypeInv, NEW k \in Clients, Finish(k)
  PROVE  TypeInv'
<1> USE DEF TypeInv, Finish, SendEnd, Goto, listVars, testVars, mapVars, walkVars
<1>1. TypeOK'
  BY DEF TypeOK
<1>2. pc \in [Clients -> Labels] /\ signal[k].type \in {"run", "listen", "stop"}
  BY SignalKinds DEF TypeOK, Labels
<1>3. HandlerLabels'
  BY <1>2 DEF HandlerLabels
<1>4. WalkInList'
  BY <1>2 DEF WalkInList, Matches
<1>5. Collecting'
  BY <1>2, RunsAreClients DEF Collecting, TypeOK
<1> QED BY <1>1, <1>3, <1>4, <1>5

LEMMA ClientInv ==
  ASSUME TypeInv, NEW k \in Clients, ClientStep(k)
  PROVE  TypeInv'
<1>1. TypeOK'
  BY ClientType
<1>2. pc \in [Clients -> Labels] /\ con \in [Clients -> Connections]
  BY DEF TypeInv, TypeOK, Labels, Connections
<1>3. /\ UNCHANGED <<signal, writing, walk, tests, batch>>
      /\ \/ con[k] = "none" /\ pc' = [pc EXCEPT ![k] = "start"] /\ con' = [con EXCEPT ![k] = "open"]
         \/ con[k] # "none" /\ pc' = pc /\ \E c \in {"stalled", "closed"} : con' = [con EXCEPT ![k] = c]
  BY DEF ClientStep, Connect, Stall, Disconnect, Goto, conVars, listVars, testVars, walkVars
<1>4. HandlerLabels'
  BY <1>2, <1>3 DEF TypeInv, HandlerLabels
<1>5. WalkInList'
  BY <1>2, <1>3 DEF TypeInv, WalkInList, Matches
<1>6. Collecting'
  BY <1>2, <1>3, RunsAreClients DEF TypeInv, TypeOK, Collecting, HandlerLabels
<1> QED BY <1>1, <1>4, <1>5, <1>6 DEF TypeInv

LEMMA StutterInv == TypeInv /\ UNCHANGED vars => TypeInv'
BY DEF vars, conVars, listVars, testVars, mapVars, walkVars, TypeInv, TypeOK,
       HandlerLabels, WalkInList, Collecting, Matches

LEMMA StepType == TypeInv /\ [Next]_vars => TypeInv'
<1> SUFFICES ASSUME TypeInv, [Next]_vars PROVE TypeInv'
  OBVIOUS
<1>1. ASSUME NEW k \in Clients, signal[k].type = "run", RunStep(k) PROVE TypeInv'
  BY <1>1, RunType, RunLabelsInv, RunCollecting DEF TypeInv
<1>2. ASSUME NEW k \in Clients, signal[k].type # "run", WalkStep(k) PROVE TypeInv'
  BY <1>2, WalkType, WalkLabelsInv DEF TypeInv
<1> QED
  BY <1>1, <1>2, FinishInv, ClientInv, StutterInv DEF Next, HandlerStep, Terminated

LEMMA TypeInvariance == Spec => []TypeInv
BY InitType, StepType, PTL DEF Spec

-----------------------------------------------------------------------------
(* What a walk has reached *)

\* The effect of a listen or a stop on the test u.
Reached(k, u) ==
  /\ signal[k].type = "stop" => cancelled[u]
  /\ signal[k].type = "listen" /\ con[k] = "open" => k \in cons[u]

\* The tests that were registered are on the part of the list that is walked;
\* what has been passed is reached, and so is all of it at the end.
Reaching ==
  \A k \in Clients : signal[k].type # "run" =>
    /\ \A u \in before[k] : \E i \in DOMAIN tests :
         tests[i] = u /\ (pc[k] \in {"walk", "insert"} => i <= walk[k].last)
    /\ pc[k] \in {"walk", "insert"} =>
         \A i \in 1..(walk[k].next - 1) : Matches(k, tests[i]) => Reached(k, tests[i])
    /\ pc[k] \in {"finish", "gone"} =>
         \A u \in before[k] : Matches(k, u) => Reached(k, u)

LEMMA InitReaching == Init => Reaching
BY DEF Init, Reaching

\* The step of a run undoes nothing that a walk has reached.
LEMMA RunReaching ==
  ASSUME TypeInv, Reaching, NEW t \in Clients, signal[t].type = "run", RunStep(t)
  PROVE  Reaching'
<1>1. RunFrame(t) /\ pc \in [Clients -> Labels] /\ tests \in Seq(Runs) /\ t \in Runs
  BY RunFrames, RunInRuns DEF TypeInv, TypeOK, Labels
<1> SUFFICES ASSUME NEW k \in Clients, signal'[k].type # "run"
             PROVE  /\ \A u \in before'[k] : \E i \in DOMAIN tests' :
                         tests'[i] = u /\ (pc'[k] \in {"walk", "insert"} => i <= walk'[k].last)
                    /\ pc'[k] \in {"walk", "insert"} =>
                         \A i \in 1..(walk'[k].next - 1) :
                           Matches(k, tests[i])' => Reached(k, tests[i])'
                    /\ pc'[k] \in {"finish", "gone"} =>
                         \A u \in before'[k] : Matches(k, u)' => Reached(k, u)'
  BY DEF Reaching
<1>2. /\ k # t /\ pc'[k] = pc[k] /\ walk' = walk /\ before' = before /\ signal' = signal
      /\ con' = con
  BY <1>1 DEF RunFrame, RunLabels
<1>3. ASSUME NEW u \in Runs, Reached(k, u) PROVE Reached(k, u)'
  BY <1>1, <1>2, <1>3 DEF RunFrame, Reached
<1>4. /\ DOMAIN tests \subseteq DOMAIN tests'
      /\ \A i \in DOMAIN tests : tests'[i] = tests[i] /\ tests[i] \in Runs
  BY <1>1 DEF RunFrame
<1>5. pc[k] \in {"walk", "insert"} => \A i \in 1..(walk[k].next - 1) : i \in DOMAIN tests
  BY <1>1 DEF TypeInv, TypeOK, WalkInList
<1>6. before[k] \subseteq Runs
  BY DEF TypeInv, TypeOK
<1>7. \A u \in Runs : Matches(k, u)' <=> Matches(k, u)
  BY <1>2 DEF Matches
<1>8. \A u \in before[k] : \E i \in DOMAIN tests :
         tests[i] = u /\ (pc[k] \in {"walk", "insert"} => i <= walk[k].last)
  BY <1>2 DEF Reaching
<1>9. \A u \in before'[k] : \E i \in DOMAIN tests' :
         tests'[i] = u /\ (pc'[k] \in {"walk", "insert"} => i <= walk'[k].last)
  BY <1>2, <1>4, <1>8
<1>10. ASSUME pc'[k] \in {"walk", "insert"}, NEW i \in 1..(walk'[k].next - 1),
              Matches(k, tests[i])'
       PROVE  Reached(k, tests[i])'
  <2>1. i \in DOMAIN tests /\ tests'[i] = tests[i] /\ tests[i] \in Runs
    BY <1>2, <1>4, <1>5, <1>10
  <2>2. Matches(k, tests[i])
    BY <1>2, <1>10, <2>1 DEF Matches
  <2>3. Reached(k, tests[i])
    BY <1>2, <1>10, <2>2 DEF Reaching
  <2> QED BY <1>1, <1>2, <2>1, <2>3 DEF RunFrame, Reached
<1>11. ASSUME pc'[k] \in {"finish", "gone"}, NEW u \in before'[k], Matches(k, u)'
       PROVE  Reached(k, u)'
  BY <1>2, <1>3, <1>6, <1>7, <1>11 DEF Reaching
<1> QED BY <1>9, <1>10, <1>11

\* A walk reaches a test before it moves on, and undoes nothing either.
LEMMA WalkReaching ==
  ASSUME TypeInv, Reaching, NEW k \in Clients, signal[k].type # "run", WalkStep(k)
  PROVE  Reaching'
<1>1. /\ WalkFrame(k) /\ pc \in [Clients -> Labels] /\ tests \in Seq(Runs)
      /\ walk \in [Clients -> [next : Nat \ {0}, last : Nat]]
      /\ cancelled \in [Runs -> BOOLEAN] /\ cons \in [Runs -> SUBSET Clients]
      /\ before \in [Clients -> SUBSET Runs]
      /\ signal[k].type \in {"listen", "stop"}
  BY WalkFrames, SignalKinds DEF TypeInv, TypeOK, Labels
<1>2. /\ UNCHANGED <<signal, con, tests, before>>
      /\ \A u \in Runs : (cancelled[u] => cancelled'[u]) /\ cons[u] \subseteq cons'[u]
  BY <1>1 DEF WalkFrame, conVars
<1>3. ASSUME NEW l \in Clients, NEW u \in Runs, Reached(l, u) PROVE Reached(l, u)'
  BY <1>2, <1>3 DEF Reached
<1>4. \A l \in Clients, u \in Runs : Matches(l, u)' <=> Matches(l, u)
  BY <1>2 DEF Matches
<1> DEFINE Listed(l) == \A u \in before[l] : \E i \in DOMAIN tests :
                          tests[i] = u /\ (pc[l] \in {"walk", "insert"} => i <= walk[l].last)
           Passed(l) == pc[l] \in {"walk", "insert"} =>
                          \A i \in 1..(walk[l].next - 1) :
                             Matches(l, tests[i]) => Reached(l, tests[i])
           Over(l) == pc[l] \in {"finish", "gone"} =>
                          \A u \in before[l] : Matches(l, u) => Reached(l, u)
<1>5. ASSUME NEW l \in Clients, signal[l].type # "run"
      PROVE  Listed(l) /\ Passed(l) /\ Over(l)
  BY <1>5 DEF Reaching
<1>6. ASSUME NEW l \in Clients, l # k, signal[l].type # "run"
      PROVE  Listed(l)' /\ Passed(l)' /\ Over(l)'
  <2>1. pc'[l] = pc[l] /\ walk'[l] = walk[l]
    BY <1>1, <1>6 DEF WalkFrame
  <2>2. Listed(l)'
    BY <1>2, <1>5, <1>6, <2>1
  <2>3. Passed(l)'
    <3> SUFFICES ASSUME pc[l] \in {"walk", "insert"}, NEW i \in 1..(walk[l].next - 1),
                        Matches(l, tests[i])'
                 PROVE  Reached(l, tests[i])'
      BY <2>1
    <3>1. i \in DOMAIN tests /\ tests[i] \in Runs
      BY <1>1 DEF TypeInv, WalkInList
    <3>2. Reached(l, tests[i])
      BY <1>2, <1>5, <1>6, <3>1 DEF Matches
    <3> QED BY <1>2, <3>1, <3>2 DEF Reached
  <2>4. Over(l)'
    BY <1>1, <1>2, <1>3, <1>4, <1>5, <1>6, <2>1
  <2> QED BY <2>2, <2>3, <2>4
<1>7. /\ walk[k].next \in Nat \ {0} /\ walk[k].last \in Nat
      /\ pc[k] \in {"walk", "insert"} => /\ walk[k].last <= Len(tests)
                                         /\ walk[k].next <= walk[k].last + 1
  BY <1>1 DEF TypeInv, WalkInList
\* The walk of k goes on from next to next + 1, which it has reached.
<1>8. ASSUME pc[k] \in {"walk", "insert"}, pc'[k] \in {"walk", "insert"},
             walk'[k] = [walk[k] EXCEPT !.next = @ + 1], walk[k].next <= walk[k].last,
             NEW v \in Runs, v = tests[walk[k].next], Matches(k, v) => Reached(k, v)'
      PROVE  Listed(k)' /\ Passed(k)' /\ Over(k)'
  <2>1. walk'[k].next = walk[k].next + 1 /\ walk'[k].last = walk[k].last
    BY <1>1, <1>8
  <2>2. Listed(k)'
    BY <1>2, <1>5, <1>8, <2>1
  <2>3. Passed(k)'
    <3> SUFFICES ASSUME NEW i \in 1..walk[k].next, Matches(k, tests[i])'
                 PROVE  Reached(k, tests[i])'
      BY <1>7, <2>1
    <3>1. i \in DOMAIN tests /\ tests[i] \in Runs
      BY <1>1, <1>7, <1>8
    <3>2. Matches(k, tests[i])
      BY <1>2, <3>1 DEF Matches
    <3>3. CASE i = walk[k].next
      BY <1>2, <1>8, <3>2, <3>3 DEF Reached
    <3>4. CASE i # walk[k].next
      <4>1. i \in 1..(walk[k].next - 1)
        BY <1>7, <3>4
      <4>2. Reached(k, tests[i])
        BY <1>5, <1>8, <3>2, <4>1
      <4> QED BY <1>2, <3>1, <4>2 DEF Reached
    <3> QED BY <3>3, <3>4
  <2> QED BY <1>8, <2>2, <2>3
\* The walk of k stays where it is.
<1>9. ASSUME pc[k] \in {"walk", "insert"}, pc'[k] \in {"walk", "insert"}, walk'[k] = walk[k]
      PROVE  Listed(k)' /\ Passed(k)' /\ Over(k)'
  <2>1. Listed(k)' /\ Over(k)'
    BY <1>2, <1>5, <1>9
  <2>2. Passed(k)'
    <3> SUFFICES ASSUME NEW i \in 1..(walk[k].next - 1), Matches(k, tests[i])'
                 PROVE  Reached(k, tests[i])'
      BY <1>9
    <3>1. i \in DOMAIN tests /\ tests[i] \in Runs
      BY <1>1, <1>7, <1>9
    <3>2. Reached(k, tests[i])
      BY <1>2, <1>5, <1>9, <3>1 DEF Matches
    <3> QED BY <1>2, <3>1, <3>2 DEF Reached
  <2> QED BY <2>1, <2>2
<1>10. Listed(k)' /\ Passed(k)' /\ Over(k)'
  <2> USE DEF conVars, listVars, testVars, mapVars, walkVars, Goto
  <2>1. CASE WalkStart(k)
    <3>1. pc'[k] = "walk" /\ walk'[k].next = 1 /\ walk'[k].last = Len(tests)
      BY <1>1, <2>1 DEF WalkStart
    <3>2. Listed(k)'
      BY <1>1, <1>2, <1>5, <3>1
    <3> QED BY <3>1, <3>2
  <2>2. CASE WalkNil(k)
    <3>1. pc[k] = "walk" /\ pc' = pc /\ walk' = walk
      BY <2>2 DEF WalkNil, Crash, At
    <3> QED BY <1>9, <3>1
  <2>3. CASE WalkSkip(k)
    <3>1. pc' = pc /\ pc[k] = "walk" /\ walk[k].next <= walk[k].last
          /\ ~Matches(k, tests[walk[k].next])
      BY <2>3 DEF WalkSkip, At
    <3>2. walk'[k] = [walk[k] EXCEPT !.next = @ + 1]
      BY <1>1, <2>3 DEF WalkSkip, Advance
    <3>3. tests[walk[k].next] \in Runs
      BY <1>1, <1>7, <3>1
    <3> QED BY <1>8, <3>1, <3>2, <3>3
  <2>4. CASE ListenBegin(k)
    <3>1. pc[k] = "walk" /\ pc'[k] \in {"walk", "insert"} /\ walk' = walk
      BY <1>1, <2>4 DEF ListenBegin, InsertBegin, Crash, At
    <3> QED BY <1>9, <3>1
  <2>5. CASE ListenEnd(k)
    <3>1. pc[k] = "insert" /\ pc'[k] = "walk" /\ walk[k].next <= walk[k].last
      BY <1>1, <2>5 DEF ListenEnd, TypeInv, WalkInList
    <3>2. walk'[k] = [walk[k] EXCEPT !.next = @ + 1]
      BY <1>1, <2>5 DEF ListenEnd, Advance
    <3>3. tests[walk[k].next] \in Runs /\ signal[k].type = "listen"
      <4>1. tests[walk[k].next] \in Runs
        BY <1>1, <1>7, <3>1
      <4>2. signal[k].type = "listen"
        BY <1>1, <3>1 DEF TypeInv, HandlerLabels
      <4> QED BY <4>1, <4>2
    <3>4. k \in cons'[tests[walk[k].next]]
      BY <1>1, <2>5, <3>3 DEF ListenEnd, InsertEnd
    <3>5. ASSUME NEW v \in Runs, v = tests[walk[k].next] PROVE Reached(k, v)'
      BY <1>2, <3>3, <3>4, <3>5 DEF Reached
    <3> QED BY <1>8, <3>1, <3>2, <3>3, <3>5
  <2>6. CASE StopTest(k)
    <3>1. pc' = pc /\ pc[k] = "walk" /\ walk[k].next <= walk[k].last /\ signal[k].type = "stop"
      BY <2>6 DEF StopTest, At
    <3>2. walk'[k] = [walk[k] EXCEPT !.next = @ + 1]
      BY <1>1, <2>6 DEF StopTest, Advance
    <3>3. tests[walk[k].next] \in Runs
      BY <1>1, <1>7, <3>1
    <3>4. cancelled'[tests[walk[k].next]]
      BY <1>1, <2>6, <3>3 DEF StopTest, At
    <3>5. ASSUME NEW v \in Runs, v = tests[walk[k].next] PROVE Reached(k, v)'
      BY <1>2, <3>1, <3>4, <3>5 DEF Reached
    <3> QED BY <1>8, <3>1, <3>2, <3>3, <3>5
  <2>7. CASE WalkEnd(k)
    <3>1. pc[k] = "walk" /\ pc'[k] \in {"finish", "gone"} /\ walk[k].next > walk[k].last
      BY <1>1, <2>7 DEF WalkEnd
    <3>2. Listed(k)'
      BY <1>2, <1>5, <3>1
    <3>3. ASSUME NEW u \in before[k], Matches(k, u) PROVE Reached(k, u)'
      <4>1. PICK i \in DOMAIN tests : tests[i] = u /\ i <= walk[k].last
        BY <1>5, <3>1
      <4>2. i \in 1..(walk[k].next - 1) /\ u \in Runs
        BY <1>1, <1>7, <3>1, <4>1
      <4>3. Reached(k, u)
        BY <1>5, <3>1, <3>3, <4>1, <4>2
      <4> QED BY <1>3, <4>2, <4>3
    <3> QED BY <1>1, <1>2, <1>4, <3>1, <3>2, <3>3
  <2> QED BY <2>1, <2>2, <2>3, <2>4, <2>5, <2>6, <2>7 DEF WalkStep
<1> QED BY <1>2, <1>6, <1>10 DEF Reaching

LEMMA FinishReaching ==
  ASSUME TypeInv, Reaching, NEW k \in Clients, Finish(k)
  PROVE  Reaching'
<1>1. /\ UNCHANGED <<signal, con, walk, before, tests, cancelled, cons>>
      /\ pc[k] = "finish" /\ pc' = [pc EXCEPT ![k] = "gone"] /\ pc \in [Clients -> Labels]
  BY DEF Finish, SendEnd, Goto, listVars, testVars, mapVars, walkVars, TypeInv, TypeOK, Labels
<1> QED BY <1>1 DEF Reaching, Reached, Matches

LEMMA ClientReaching ==
  ASSUME TypeInv, Reaching, NEW k \in Clients, ClientStep(k)
  PROVE  Reaching'
<1>0. pc \in [Clients -> Labels] /\ con \in [Clients -> Connections] /\ tests \in Seq(Runs)
  BY DEF TypeInv, TypeOK, Labels, Connections
<1>1. CASE Connect(k)
  <2>1. /\ UNCHANGED <<signal, walk, tests, cancelled, cons>>
        /\ con[k] = "none" /\ con' = [con EXCEPT ![k] = "open"]
        /\ pc' = [pc EXCEPT ![k] = "start"]
        /\ before' = [before EXCEPT ![k] = IF signal[k].type = "run" THEN {} ELSE Registered]
    BY <1>1 DEF Connect, Goto, listVars, testVars, mapVars
  <2>2. \A u \in Registered : \E i \in DOMAIN tests : tests[i] = u
    BY DEF Registered
  <2>3. before \in [Clients -> SUBSET Runs]
    BY DEF TypeInv, TypeOK
  <2> QED BY <1>0, <2>1, <2>2, <2>3 DEF Reaching, Reached, Matches
<1>2. CASE Stall(k) \/ Disconnect(k)
  <2>1. /\ UNCHANGED <<signal, pc, walk, before, tests, cancelled, cons>>
        /\ \E c \in {"stalled", "closed"} : con' = [con EXCEPT ![k] = c]
    BY <1>2 DEF Stall, Disconnect, listVars, testVars, mapVars, walkVars
  <2> QED BY <1>0, <2>1 DEF Reaching, Reached, Matches
<1> QED BY <1>1, <1>2 DEF ClientStep

LEMMA StutterReaching == Reaching /\ UNCHANGED vars => Reaching'
BY DEF vars, conVars, listVars, testVars, mapVars, walkVars, Reaching, Reached, Matches

LEMMA StepReaching == TypeInv /\ Reaching /\ [Next]_vars => Reaching'
BY RunReaching, WalkReaching, FinishReaching, ClientReaching, StutterReaching
   DEF Next, HandlerStep, Terminated

LEMMA ReachingInvariance == Spec => []Reaching
BY InitReaching, StepReaching, TypeInvariance, PTL DEF Spec

-----------------------------------------------------------------------------
(* Who is sent what *)

\* k is the client of the test u, or listens to it.
Subscribed(k, u) == k = u \/ (signal[k].type = "listen" /\ Matches(k, u))

\* Only a run or a stop that is over has got an end, only subscribers are in
\* the map or written to, and nobody has a batch that was not made.
Feeding ==
  /\ \A k \in Clients : got[k].end # "none" => pc[k] = "gone" /\ signal[k].type # "listen"
  /\ \A u \in Runs : \A k \in cons[u] : Subscribed(k, u)
  /\ \A k \in Clients : \A u \in writing[k] : Subscribed(k, u)
  /\ \A k \in Clients, u \in Runs : got[k].stats[u] <= batch[u]

LEMMA InitFeeding == Init => Feeding
BY DEF Init, Feeding

\* What the step of a handler can change of the feed: a run makes a batch or
\* hands one over, a run or a stop ends, and only a collector begins to write,
\* to one of its connections.
FeedFrame(t) ==
  /\ \/ UNCHANGED <<batch, got>>
     \/ /\ signal[t].type = "run" /\ Generate(t)
     \/ /\ signal[t].type = "run" /\ \E k \in Clients : WriteOK(t, k)
     \/ /\ pc[t] \in {"fail", "finish"} /\ \E end \in {"failed", "done"} : SendEnd(t, end)
  /\ \A k \in Clients : \A u \in writing'[k] :
       u \in writing[k] \/ (signal[t].type = "run" /\ u = t /\ k \in cons[t])

LEMMA RunFeedFrame ==
  ASSUME TypeInv, NEW t \in Clients, signal[t].type = "run", RunStep(t)
  PROVE  FeedFrame(t)
<1> USE DEF FeedFrame, conVars, testVars
<1>0. t \in Runs /\ writing \in [Clients -> SUBSET Runs]
  BY RunInRuns DEF TypeInv, TypeOK
<1>1. CASE NewTest(t) \/ FillSlot(t) \/ JoinBegin(t) \/ JoinEnd(t) \/ MapRace(t)
  BY <1>1 DEF NewTest, FillSlot, JoinBegin, InsertBegin, JoinEnd, MapRace, Crash
<1>2. CASE Sleep(t) \/ Leave(t) \/ RangeEnd(t)
  BY <1>2 DEF Sleep, Leave, RangeEnd
<1>3. CASE Fail(t)
  BY <1>3 DEF Fail, SendEnd
<1>4. CASE Generate(t)
  BY <1>4 DEF Generate
<1>5. ASSUME NEW k \in Clients, WriteBegin(t, k) PROVE FeedFrame(t)
  BY <1>0, <1>5 DEF WriteBegin
<1>6. ASSUME NEW k \in Clients, WritePanics(t, k) PROVE FeedFrame(t)
  BY <1>6 DEF WritePanics
<1>7. ASSUME NEW k \in Clients, WriteOK(t, k) PROVE FeedFrame(t)
  <2>1. writing' = [writing EXCEPT ![k] = @ \ {t}]
    BY <1>7 DEF WriteOK
  <2>2. \A l \in Clients : writing'[l] \subseteq writing[l]
    BY <1>0, <2>1
  <2> QED BY <1>7, <2>2
<1>8. ASSUME NEW k \in Clients, WriteFails(t, k) PROVE FeedFrame(t)
  BY <1>0, <1>8 DEF WriteFails
<1> QED
  BY <1>1, <1>2, <1>3, <1>4, <1>5, <1>6, <1>7, <1>8 DEF RunStep

LEMMA HandlerFeedFrame ==
  ASSUME TypeInv, NEW k \in Clients, HandlerStep(k)
  PROVE  FeedFrame(k)
<1>1. CASE signal[k].type = "run" /\ RunStep(k)
  BY <1>1, RunFeedFrame
<1>2. CASE signal[k].type # "run" /\ WalkStep(k)
  BY <1>2, WalkFrames DEF WalkFrame, FeedFrame, conVars
<1>3. CASE Finish(k)
  BY <1>3 DEF Finish, SendEnd, FeedFrame
<1> QED BY <1>1, <1>2, <1>3 DEF HandlerStep

\* A subscription is for ever.
LEMMA HandlerSubscribes ==
  ASSUME TypeInv, Feeding, NEW k \in Clients, HandlerStep(k)
  PROVE  \A u \in Runs : \A l \in cons'[u] : Subscribed(l, u)'
<1>0. Runs \subseteq Clients /\ tests \in Seq(Runs)
      /\ cons \in [Runs -> SUBSET Clients] /\ mapWriter \in [Runs -> SUBSET Clients]
      /\ walk \in [Clients -> [next : Nat \ {0}, last : Nat]]
  BY RunsAreClients DEF TypeInv, TypeOK
<1>1. signal' = signal
  <2>1. ASSUME signal[k].type = "run", RunStep(k) PROVE signal' = signal
    BY <2>1, RunFrames DEF RunFrame
  <2>2. ASSUME signal[k].type # "run", WalkStep(k) PROVE signal' = signal
    BY <2>2, WalkFrames DEF WalkFrame, conVars
  <2> QED BY <2>1, <2>2 DEF HandlerStep, Finish, SendEnd
<1>2. SUFFICES \A u \in Runs : \A l \in cons'[u] : l \in cons[u] \/ Subscribed(l, u)
  BY <1>1 DEF Feeding, Subscribed, Matches
<1>3. CASE signal[k].type = "run" /\ RunStep(k)
  BY <1>3, RunFrames DEF RunFrame, Subscribed
<1>4. CASE signal[k].type # "run" /\ WalkStep(k)
  <2>1. CASE ListenEnd(k)
    <3>1. walk[k].next <= Len(tests) /\ Matches(k, tests[walk[k].next])
          /\ signal[k].type = "listen"
      <4>1. pc[k] = "insert" /\ signal[k].type \in {"listen", "stop"}
        BY <1>4, <2>1, SignalKinds DEF ListenEnd, TypeInv
      <4>2. signal[k].type = "listen"
        BY <4>1 DEF TypeInv, HandlerLabels
      <4>3. /\ walk[k].last <= Len(tests) /\ walk[k].next <= walk[k].last
            /\ Matches(k, tests[walk[k].next])
        BY <4>1 DEF TypeInv, WalkInList
      <4> QED BY <1>0, <4>2, <4>3
    <3>2. tests[walk[k].next] \in Runs
      BY <1>0, <3>1
    <3>3. cons' = [cons EXCEPT ![tests[walk[k].next]] = @ \cup {k}]
      BY <2>1 DEF ListenEnd, InsertEnd
    <3> QED BY <1>0, <3>1, <3>2, <3>3 DEF Subscribed
  <2>2. CASE ~ListenEnd(k)
    BY <1>4, <2>2 DEF WalkStep, WalkStart, WalkNil, Crash, WalkSkip, ListenBegin,
       InsertBegin, StopTest, WalkEnd, mapVars
  <2> QED BY <2>1, <2>2
<1>5. CASE Finish(k)
  BY <1>5 DEF Finish, SendEnd, mapVars
<1> QED BY <1>3, <1>4, <1>5 DEF HandlerStep

LEMMA HandlerFeeding ==
  ASSUME TypeInv, Feeding, NEW k \in Clients, HandlerStep(k)
  PROVE  Feeding'
<1>0. /\ Runs \subseteq Clients /\ pc \in [Clients -> Labels]
      /\ got \in [Clients -> [stats : [Runs -> Nat], end : {"none", "failed", "done"}]]
      /\ batch \in [Runs -> Nat] /\ writing \in [Clients -> SUBSET Runs]
  BY RunsAreClients, LiveServerAssumption DEF TypeInv, TypeOK, Labels
<1>1. /\ FeedFrame(k) /\ signal' = signal
      /\ \A l \in Clients : l # k => pc'[l] = pc[l]
  <2>1. ASSUME signal[k].type = "run", RunStep(k)
        PROVE  signal' = signal /\ \A l \in Clients : l # k => pc'[l] = pc[l]
    BY <1>0, <2>1, RunFrames DEF RunFrame
  <2>2. ASSUME signal[k].type # "run", WalkStep(k)
        PROVE  signal' = signal /\ \A l \in Clients : l # k => pc'[l] = pc[l]
    BY <1>0, <2>2, WalkFrames DEF WalkFrame, conVars
  <2>3. ASSUME Finish(k)
        PROVE  signal' = signal /\ \A l \in Clients : l # k => pc'[l] = pc[l]
    BY <1>0, <2>3 DEF Finish, SendEnd, Goto
  <2> QED BY <2>1, <2>2, <2>3, HandlerFeedFrame DEF HandlerStep
\* A handler that has not ended is not gone, and one that is gone takes no step.
<1>2. pc[k] # "gone"
  BY DEF HandlerStep, RunStep, WalkStep, NewTest, FillSlot, Fail, JoinBegin, JoinEnd, Sleep,
     Leave, Generate, RangeEnd, MapRace, WriteBegin, WritePanics, WriteOK, WriteFails,
     WalkStart, WalkNil, WalkSkip, ListenBegin, ListenEnd, StopTest, WalkEnd, Finish, At,
     TypeInv, Collecting
<1>3. \A u \in Runs : \A l \in cons'[u] : Subscribed(l, u)'
  BY HandlerSubscribes
<1>4. \A l \in Clients : \A u \in writing'[l] : Subscribed(l, u)'
  <2>1. \A l \in Clients : \A u \in writing'[l] : Subscribed(l, u)
    BY <1>1, RunInRuns DEF FeedFrame, Feeding, TypeInv
  <2> QED BY <1>1, <2>1 DEF Subscribed, Matches
<1>5. ASSUME NEW l \in Clients, got'[l].end # "none"
      PROVE  pc'[l] = "gone" /\ signal'[l].type # "listen"
  <2>1. CASE got'[l].end = got[l].end
    BY <1>1, <1>2, <1>5, <2>1 DEF Feeding
  <2>2. CASE got'[l].end # got[l].end
    <3>1. PICK end \in {"failed", "done"} : SendEnd(k, end) /\ pc[k] \in {"fail", "finish"}
      <4>1. ~Generate(k) /\ ~UNCHANGED <<batch, got>>
        BY <2>2 DEF Generate, conVars
      <4>2. ASSUME NEW j \in Clients, WriteOK(k, j) PROVE FALSE
        BY <1>0, <2>2, <4>2 DEF WriteOK
      <4> QED BY <1>1, <4>1, <4>2 DEF FeedFrame
    <3>2. l = k
      BY <1>0, <2>2, <3>1 DEF SendEnd
    <3> QED BY <1>0, <1>1, <3>1, <3>2 DEF SendEnd, Goto, TypeInv, HandlerLabels
  <2> QED BY <2>1, <2>2
<1>6. ASSUME NEW l \in Clients, NEW u \in Runs PROVE got'[l].stats[u] <= batch'[u]
  <2>0. got[l].stats[u] <= batch[u] /\ got[l].stats[u] \in Nat /\ batch[u] \in Nat
    BY <1>0 DEF Feeding
  <2>1. CASE UNCHANGED <<batch, got>>
    BY <2>0, <2>1
  <2>2. CASE Generate(k)
    BY <1>0, <2>0, <2>2 DEF Generate, conVars
  <2>3. ASSUME NEW j \in Clients, WriteOK(k, j) PROVE got'[l].stats[u] <= batch'[u]
    BY <1>0, <2>0, <2>3 DEF WriteOK, testVars
  <2>4. ASSUME NEW end \in {"failed", "done"}, SendEnd(k, end)
        PROVE  got'[l].stats[u] <= batch'[u]
    BY <1>0, <2>0, <2>4 DEF SendEnd, testVars
  <2> QED BY <1>1, <2>1, <2>2, <2>3, <2>4 DEF FeedFrame
<1> QED BY <1>3, <1>4, <1>5, <1>6 DEF Feeding

LEMMA ClientFeeding ==
  ASSUME TypeInv, Feeding, NEW k \in Clients, ClientStep(k)
  PROVE  Feeding'
<1>0. pc \in [Clients -> Labels]
  BY DEF TypeInv, TypeOK, Labels
<1>1. /\ UNCHANGED <<signal, got, writing, cons, batch>>
      /\ \A l \in Clients : pc[l] = "gone" => pc'[l] = "gone"
  BY <1>0 DEF ClientStep, Connect, Stall, Disconnect, Goto, testVars, mapVars, TypeInv,
     HandlerLabels
<1> QED BY <1>1 DEF Feeding, Subscribed, Matches

LEMMA StepFeeding == TypeInv /\ Feeding /\ [Next]_vars => Feeding'
<1>1. Feeding /\ UNCHANGED vars => Feeding'
  BY DEF vars, conVars, testVars, mapVars, Feeding, Subscribed, Matches
<1> QED BY <1>1, HandlerFeeding, ClientFeeding DEF Next, Terminated

LEMMA FeedingInvariance == Spec => []Feeding
BY InitFeeding, StepFeeding, TypeInvariance, PTL DEF Spec

-----------------------------------------------------------------------------
(* Every step of the server is a step of the feed, or none *)

Last == [k \in Clients |-> got[k].stats]
Over == {k \in Clients : got[k].end # "none"}
FeedVars == <<batch, Last, Over>>

LEMMA InitFeed == Init => Feed!Init
BY DEF Init, Feed!Init

LEMMA HandlerFeeds ==
  ASSUME TypeInv, Feeding, NEW k \in Clients, HandlerStep(k)
  PROVE  Feed!Next \/ UNCHANGED FeedVars
<1>0. /\ Runs \subseteq Clients
      /\ got \in [Clients -> [stats : [Runs -> Nat], end : {"none", "failed", "done"}]]
      /\ batch \in [Runs -> Nat] /\ writing \in [Clients -> SUBSET Runs]
  BY RunsAreClients, LiveServerAssumption DEF TypeInv, TypeOK
<1>1. CASE UNCHANGED <<batch, got>>
  BY <1>1 DEF FeedVars, Last, Over
<1>2. CASE signal[k].type = "run" /\ Generate(k)
  <2>1. k \in Runs /\ got' = got /\ batch' = [batch EXCEPT ![k] = @ + 1]
    BY <1>2, RunInRuns DEF Generate, conVars, TypeInv
  <2>2. Feed!Make(k)
    BY <2>1 DEF Feed!Make
  <2> QED BY <2>1, <2>2 DEF Feed!Next
<1>3. ASSUME NEW l \in Clients, signal[k].type = "run", WriteOK(k, l)
      PROVE  Feed!Next \/ UNCHANGED FeedVars
  <2>1. /\ k \in Runs /\ k \in writing[l] /\ pc[k] = "write" /\ Subscribed(l, k)
        /\ batch' = batch
        /\ got' = [got EXCEPT ![l].stats[k] = IF con[l] = "open" THEN batch[k] ELSE @]
    BY <1>3, RunInRuns DEF WriteOK, testVars, TypeInv, Collecting, Feeding
  <2>2. CASE con[l] # "open" \/ got[l].stats[k] = batch[k]
    <3>1. got'[l] = got[l]
      BY <1>0, <2>1, <2>2
    <3>2. got' = got
      BY <1>0, <2>1, <3>1
    <3> QED BY <1>1, <2>1, <3>2
  <2>3. CASE con[l] = "open" /\ got[l].stats[k] # batch[k]
    <3>1. got[l].stats[k] < batch[k]
      <4>1. got[l].stats[k] \in Nat /\ batch[k] \in Nat
        BY <1>0, <2>1
      <4>2. got[l].stats[k] <= batch[k]
        BY <2>1 DEF Feeding
      <4> QED BY <2>3, <4>1, <4>2
    <3>2. got[l].end = "none"
      BY <2>1 DEF Feeding, Subscribed
    <3>3. /\ \A j \in Clients : j # l => got'[j] = got[j]
          /\ got'[l].end = got[l].end
          /\ got'[l].stats = [got[l].stats EXCEPT ![k] = batch[k]]
      <4>1. /\ got' = [got EXCEPT ![l] = got'[l]]
            /\ got'[l] = [got[l] EXCEPT !.stats = [got[l].stats EXCEPT ![k] = batch[k]]]
        BY <1>0, <2>1, <2>3
      <4>2. got[l] \in [stats : [Runs -> Nat], end : {"none", "failed", "done"}]
        BY <1>0
      <4> QED BY <1>0, <4>1, <4>2
    <3>4. Last' = [Last EXCEPT ![l][k] = batch[k]] /\ Over' = Over
      BY <3>3 DEF Last, Over
    <3>5. \/ l = k
          \/ \E m \in Signals[l], n \in Signals[k] : m.type = "listen" /\ m.id \in {NoID, n.id}
      BY <1>0, <2>1 DEF Subscribed, Matches, TypeInv, TypeOK
    <3>6. Feed!Receive(l, k)
      BY <1>0, <2>1, <3>1, <3>2, <3>3, <3>4, <3>5 DEF Feed!Receive, Last, Over
    <3> QED BY <2>1, <3>6 DEF Feed!Next
  <2> QED BY <2>2, <2>3
<1>4. ASSUME NEW end \in {"failed", "done"}, SendEnd(k, end), pc[k] \in {"fail", "finish"}
      PROVE  Feed!Next \/ UNCHANGED FeedVars
  <2>1. /\ batch' = batch /\ got[k].end = "none"
        /\ got' = [got EXCEPT ![k].end = IF con[k] = "open" THEN end ELSE @]
    BY <1>0, <1>4 DEF SendEnd, testVars, Feeding
  <2>2. Last' = Last
    BY <1>0, <2>1 DEF Last
  <2>3. CASE con[k] = "open"
    <3>1. Over' = Over \cup {k} /\ k \notin Over
      BY <1>0, <2>1, <2>3 DEF Over
    <3>2. Feed!End(k)
      BY <2>1, <2>2, <3>1 DEF Feed!End, Last, Over
    <3> QED BY <3>2 DEF Feed!Next
  <2>4. CASE con[k] # "open"
    <3>1. Over' = Over
      BY <1>0, <2>1, <2>4 DEF Over
    <3> QED BY <2>1, <2>2, <3>1 DEF FeedVars
  <2> QED BY <2>3, <2>4
<1> QED BY <1>1, <1>2, <1>3, <1>4, HandlerFeedFrame DEF FeedFrame

LEMMA StepFeeds ==
  TypeInv /\ Feeding /\ [Next]_vars => [Feed!Next]_(Feed!vars)
<1>1. ASSUME NEW k \in Clients, ClientStep(k) PROVE UNCHANGED <<got, batch>>
  BY <1>1 DEF ClientStep, Connect, Stall, Disconnect, testVars
<1>2. ASSUME UNCHANGED vars PROVE UNCHANGED <<got, batch>>
  BY <1>2 DEF vars, conVars, testVars
<1>3. ASSUME UNCHANGED <<got, batch>> PROVE UNCHANGED FeedVars
  BY <1>3 DEF FeedVars, Last, Over
<1>4. UNCHANGED FeedVars => UNCHANGED Feed!vars
  BY DEF FeedVars, Last, Over, Feed!vars
<1> QED BY <1>1, <1>2, <1>3, <1>4, HandlerFeeds DEF Next, Terminated

-----------------------------------------------------------------------------
(* No batch is missed where no client may be subscribed to two tests *)

MaySubscribe(k, t) ==
  k = t \/ \E m \in Signals[k], n \in Signals[t] : m.type = "listen" /\ m.id \in {NoID, n.id}
OneTestEach ==
  \A k \in Clients : \A t, u \in Runs : MaySubscribe(k, t) /\ MaySubscribe(k, u) => t = u

Delivered(t, k) == con[k] = "open" => got[k].stats[t] = batch[t]

\* A collector has no batch under way until it has made one; a connection that
\* has left it meanwhile is closed; those it has seen have the batch or are
\* being written to, and after the range all of them have it.
Sending(t) ==
  /\ pc[t] \in {"idle", "start", "append", "fail", "join", "joining"} => ranging[t].start = {}
  /\ \A k \in ranging[t].start \ cons[t] : con[k] = "closed"
  /\ pc[t] \in {"range", "write"} =>
       \A k \in ranging[t].start \cap ranging[t].seen : t \in writing[k] \/ Delivered(t, k)
  /\ pc[t] = "check" => \A k \in ranging[t].start : Delivered(t, k)

Delivering ==
  \A t \in Runs : /\ \A k \in cons[t] \cup ranging[t].start : con[k] # "none"
                  /\ Sending(t)

LEMMA InitDelivering == Init => Delivering
BY DEF Init, Delivering, Sending

\* Nobody else writes to the connections of a collector in its range.
LEMMA NoOtherWriter ==
  ASSUME OneTestEach, TypeInv, Feeding, NEW t \in Runs, NEW k \in cons[t], pc[t] = "range"
  PROVE  writing[k] = {}
<1>0. k \in Clients /\ writing \in [Clients -> SUBSET Runs] /\ Runs \subseteq Clients
      /\ \A l \in Clients : signal[l] \in Signals[l]
  BY RunsAreClients DEF TypeInv, TypeOK
<1>1. ASSUME NEW u \in Runs, Subscribed(k, u) PROVE MaySubscribe(k, u)
  BY <1>0, <1>1 DEF Subscribed, Matches, MaySubscribe
<1>2. Subscribed(k, t)
  BY DEF Feeding
<1>3. ASSUME NEW u \in writing[k] PROVE FALSE
  <2>1. u \in Runs /\ Subscribed(k, u) /\ pc[u] = "write"
    BY <1>0, <1>3 DEF Feeding, TypeInv, Collecting
  <2>2. u = t
    BY <1>0, <1>1, <1>2, <2>1 DEF OneTestEach
  <2> QED BY <2>1, <2>2
<1> QED BY <1>0, <1>3

\* What the step of a handler leaves of another collector.
OthersFrame(h) ==
  /\ con' = con
  /\ \A t \in Runs : /\ cons'[t] \subseteq cons[t] \cup {h}
                     /\ ranging'[t].start \subseteq ranging[t].start \cup cons[t]
  /\ \A t \in Runs \ {h} :
       /\ pc'[t] = pc[t] /\ ranging'[t] = ranging[t] /\ batch'[t] = batch[t]
       /\ cons[t] \subseteq cons'[t]
       /\ \A k \in Clients : (t \in writing'[k] <=> t \in writing[k])
                             /\ got'[k].stats[t] = got[k].stats[t]

LEMMA RunOthers ==
  ASSUME TypeInv, NEW h \in Runs, signal[h].type = "run", RunStep(h)
  PROVE  OthersFrame(h)
<1> USE DEF OthersFrame, conVars, listVars, testVars, mapVars, walkVars
<1>0. /\ Runs \subseteq Clients /\ pc \in [Clients -> Labels]
      /\ got \in [Clients -> [stats : [Runs -> Nat], end : {"none", "failed", "done"}]]
      /\ batch \in [Runs -> 0..Duration] /\ writing \in [Clients -> SUBSET Runs]
      /\ ranging \in [Runs -> [start : SUBSET Clients, seen : SUBSET Clients]]
      /\ cons \in [Runs -> SUBSET Clients]
  BY RunsAreClients DEF TypeInv, TypeOK, Labels
<1>1. CASE NewTest(h) \/ FillSlot(h) \/ JoinBegin(h) \/ MapRace(h)
  BY <1>0, <1>1 DEF NewTest, FillSlot, JoinBegin, InsertBegin, MapRace, Crash, Goto
<1>2. CASE JoinEnd(h)
  BY <1>0, <1>2 DEF JoinEnd, InsertEnd, Goto
<1>3. CASE Sleep(h) \/ RangeEnd(h)
  BY <1>0, <1>3 DEF Sleep, RangeEnd, Goto
<1>10. CASE Leave(h)
  <2>1. /\ UNCHANGED <<con, got, writing, batch, cons>> /\ pc' = [pc EXCEPT ![h] = "finish"]
        /\ ranging' = [ranging EXCEPT ![h] = [start |-> {}, seen |-> {}]]
    BY <1>10 DEF Leave, Goto
  <2> QED BY <1>0, <2>1
<1>4. CASE Fail(h)
  BY <1>0, <1>4 DEF Fail, SendEnd, Goto
<1>5. CASE Generate(h)
  BY <1>0, <1>5 DEF Generate, Goto
<1>6. ASSUME NEW k \in Clients, WriteBegin(h, k) PROVE OthersFrame(h)
  BY <1>0, <1>6 DEF WriteBegin, Goto
<1>7. ASSUME NEW k \in Clients, WritePanics(h, k) PROVE OthersFrame(h)
  BY <1>0, <1>7 DEF WritePanics, Goto
<1>8. ASSUME NEW k \in Clients, WriteOK(h, k) PROVE OthersFrame(h)
  BY <1>0, <1>8 DEF WriteOK, Goto
<1>9. ASSUME NEW k \in Clients, WriteFails(h, k) PROVE OthersFrame(h)
  BY <1>0, <1>9 DEF WriteFails, Goto
<1> QED
  BY <1>1, <1>2, <1>3, <1>4, <1>5, <1>6, <1>7, <1>8, <1>9, <1>10 DEF RunStep

LEMMA HandlerOthers ==
  ASSUME TypeInv, NEW h \in Clients, HandlerStep(h)
  PROVE  OthersFrame(h)
<1>0. /\ Runs \subseteq Clients /\ pc \in [Clients -> Labels]
      /\ got \in [Clients -> [stats : [Runs -> Nat], end : {"none", "failed", "done"}]]
  BY RunsAreClients DEF TypeInv, TypeOK, Labels
<1>1. CASE signal[h].type = "run" /\ RunStep(h)
  BY <1>1, RunOthers, RunInRuns DEF TypeInv
<1>2. CASE signal[h].type # "run" /\ WalkStep(h)
  BY <1>0, <1>2, WalkFrames DEF WalkFrame, OthersFrame, conVars
<1>3. CASE Finish(h)
  BY <1>0, <1>3 DEF Finish, SendEnd, Goto, OthersFrame, testVars, mapVars
<1> QED BY <1>1, <1>2, <1>3 DEF HandlerStep

\* The step of a collector on its own batch.
LEMMA RunSending ==
  ASSUME OneTestEach, TypeInv, TypeInv', Feeding, NEW t \in Runs, signal[t].type = "run",
         Sending(t), RunStep(t)
  PROVE  Sending(t)'
<1> USE DEF Sending, Delivered, conVars, listVars, testVars, mapVars, walkVars
<1>0. /\ Runs \subseteq Clients /\ pc \in [Clients -> Labels]
      /\ got \in [Clients -> [stats : [Runs -> Nat], end : {"none", "failed", "done"}]]
      /\ batch \in [Runs -> 0..Duration] /\ writing \in [Clients -> SUBSET Runs]
      /\ ranging \in [Runs -> [start : SUBSET Clients, seen : SUBSET Clients]]
      /\ cons \in [Runs -> SUBSET Clients]
  BY RunsAreClients DEF TypeInv, TypeOK, Labels
<1>1. CASE NewTest(t) \/ FillSlot(t) \/ JoinBegin(t) \/ MapRace(t)
  BY <1>0, <1>1 DEF NewTest, FillSlot, JoinBegin, InsertBegin, MapRace, Crash, Goto
<1>2. CASE JoinEnd(t)
  BY <1>0, <1>2 DEF JoinEnd, InsertEnd, Goto
<1>3. CASE Sleep(t) \/ Leave(t)
  BY <1>0, <1>3 DEF Sleep, Leave, Goto
<1>4. CASE Fail(t)
  BY <1>0, <1>4 DEF Fail, SendEnd, Goto
<1>5. CASE Generate(t)
  BY <1>0, <1>5 DEF Generate, Goto
<1>6. CASE RangeEnd(t)
  <2>1. /\ pc[t] = "range" /\ pc'[t] = "check" /\ UNCHANGED <<con, got, batch, ranging, cons>>
        /\ ranging[t].start \cap cons[t] \subseteq ranging[t].seen
    BY <1>0, <1>6 DEF RangeEnd, Goto
  <2>2. \A k \in Clients : t \notin writing[k]
    BY <2>1 DEF TypeInv, Collecting
  <2>3. \A k \in ranging[t].start : Delivered(t, k)
    BY <1>0, <2>1, <2>2
  <2> QED BY <2>1, <2>3
<1>7. ASSUME NEW k \in Clients, WriteBegin(t, k) PROVE Sending(t)'
  <2>1. /\ pc[t] = "range" /\ pc'[t] = "write" /\ UNCHANGED <<con, got, batch, cons>>
        /\ ranging'[t].start = ranging[t].start
        /\ ranging'[t].seen = ranging[t].seen \cup {k}
        /\ t \in writing'[k] /\ \A l \in Clients : writing[l] \subseteq writing'[l]
    BY <1>0, <1>7 DEF WriteBegin, Goto
  <2> QED BY <1>0, <2>1
<1>8. ASSUME NEW k \in Clients, WritePanics(t, k) PROVE Sending(t)'
  BY <1>8, NoOtherWriter DEF WritePanics
<1>9. ASSUME NEW k \in Clients, WriteOK(t, k) PROVE Sending(t)'
  <2>1. /\ pc[t] = "write" /\ pc'[t] = "range" /\ UNCHANGED <<con, batch, cons, ranging>>
        /\ \A l \in Clients \ {k} : writing'[l] = writing[l] /\ got'[l] = got[l]
        /\ con[k] = "open" => got'[k].stats[t] = batch[t]
    BY <1>0, <1>9 DEF WriteOK, Goto, TypeInv, Collecting
  <2> QED BY <1>0, <2>1
<1>10. ASSUME NEW k \in Clients, WriteFails(t, k) PROVE Sending(t)'
  <2>1. /\ pc[t] = "write" /\ pc'[t] = "range" /\ UNCHANGED <<con, got, batch, ranging>>
        /\ \A l \in Clients \ {k} : writing'[l] = writing[l]
        /\ con[k] = "closed" /\ cons'[t] = cons[t] \ {k}
    BY <1>0, <1>10 DEF WriteFails, Goto, TypeInv, Collecting
  <2> QED BY <1>0, <2>1
<1> QED
  BY <1>1, <1>2, <1>3, <1>4, <1>5, <1>6, <1>7, <1>8, <1>9, <1>10 DEF RunStep

\* A handler that does not run its test leaves what was sent of it alone.
LEMMA OwnSending ==
  ASSUME OneTestEach, TypeInv, TypeInv', Feeding, NEW t \in Runs, Sending(t), HandlerStep(t)
  PROVE  Sending(t)'
<1>0. /\ Runs \subseteq Clients /\ pc \in [Clients -> Labels]
      /\ got \in [Clients -> [stats : [Runs -> Nat], end : {"none", "failed", "done"}]]
  BY RunsAreClients DEF TypeInv, TypeOK, Labels
<1>1. CASE signal[t].type = "run" /\ RunStep(t)
  BY <1>1, RunSending
<1>2. CASE signal[t].type # "run" /\ WalkStep(t)
  <2>1. /\ UNCHANGED <<con, got, writing, batch, ranging>> /\ cons[t] \subseteq cons'[t]
        /\ pc'[t] = pc[t] \/ pc'[t] \in {"walk", "gone", "finish", "insert"}
    BY <1>0, <1>2, WalkFrames DEF WalkFrame, conVars
  <2> QED BY <2>1 DEF Sending, Delivered
<1>3. CASE Finish(t)
  <2>1. pc'[t] = "gone" /\ UNCHANGED <<con, ranging, cons>>
    BY <1>0, <1>3 DEF Finish, SendEnd, Goto, testVars, mapVars
  <2> QED BY <2>1 DEF Sending
<1> QED BY <1>1, <1>2, <1>3 DEF HandlerStep

LEMMA HandlerDelivering ==
  ASSUME OneTestEach, TypeInv, TypeInv', Feeding, Delivering, NEW h \in Clients, HandlerStep(h)
  PROVE  Delivering'
<1>1. OthersFrame(h) /\ Runs \subseteq Clients
      /\ ranging \in [Runs -> [start : SUBSET Clients, seen : SUBSET Clients]]
  BY HandlerOthers, RunsAreClients DEF TypeInv, TypeOK
<1>2. con[h] # "none"
  <2>1. pc[h] # "idle"
    BY DEF HandlerStep, RunStep, WalkStep, NewTest, FillSlot, Fail, JoinBegin, JoinEnd, Sleep,
       Leave, Generate, RangeEnd, MapRace, WriteBegin, WritePanics, WriteOK, WriteFails,
       WalkStart, WalkNil, WalkSkip, ListenBegin, ListenEnd, StopTest, WalkEnd, Finish, At,
       TypeInv, Collecting
  <2> QED BY <2>1 DEF TypeInv, HandlerLabels
<1> SUFFICES ASSUME NEW t \in Runs
             PROVE  /\ \A k \in cons'[t] \cup ranging'[t].start : con'[k] # "none"
                    /\ Sending(t)'
  BY DEF Delivering
<1>3. \A k \in cons'[t] \cup ranging'[t].start : con'[k] # "none"
  BY <1>1, <1>2 DEF OthersFrame, Delivering
<1>4. CASE t = h
  BY <1>3, <1>4, OwnSending DEF Delivering
<1>5. CASE t # h
  <2>1. /\ con' = con /\ pc'[t] = pc[t] /\ ranging'[t] = ranging[t] /\ batch'[t] = batch[t]
        /\ cons[t] \subseteq cons'[t]
        /\ \A k \in Clients : (t \in writing'[k] <=> t \in writing[k])
                              /\ got'[k].stats[t] = got[k].stats[t]
    BY <1>1, <1>5 DEF OthersFrame
  <2>2. Sending(t)'
    BY <1>1, <2>1 DEF Delivering, Sending, Delivered
  <2> QED BY <1>3, <2>2
<1> QED BY <1>4, <1>5

LEMMA ClientDelivering ==
  ASSUME TypeInv, Delivering, NEW k \in Clients, ClientStep(k)
  PROVE  Delivering'
<1>0. /\ Runs \subseteq Clients /\ pc \in [Clients -> Labels] /\ con \in [Clients -> Connections]
      /\ ranging \in [Runs -> [start : SUBSET Clients, seen : SUBSET Clients]]
  BY RunsAreClients DEF TypeInv, TypeOK, Labels, Connections
<1>1. /\ UNCHANGED <<got, writing, batch, ranging, cons>>
      /\ \A l \in Clients : con'[l] = con[l] \/ con[l] = "none" \/ con'[l] \in {"stalled", "closed"}
      /\ \A l \in Clients : con[l] = "closed" => con'[l] = "closed"
      /\ \A l \in Clients : con[l] # "none" => con'[l] # "none"
      /\ \A l \in Clients : pc'[l] = pc[l] \/ (pc[l] = "idle" /\ pc'[l] = "start")
  BY <1>0 DEF ClientStep, Connect, Stall, Disconnect, Goto, conVars, testVars, mapVars,
     TypeInv, HandlerLabels
<1> SUFFICES ASSUME NEW t \in Runs
             PROVE  /\ \A l \in cons'[t] \cup ranging'[t].start : con'[l] # "none"
                    /\ Sending(t)'
  BY DEF Delivering
<1>2. /\ cons'[t] = cons[t] /\ ranging'[t] = ranging[t] /\ ranging[t].start \subseteq Clients
      /\ cons[t] \subseteq Clients
      /\ \A l \in cons[t] \cup ranging[t].start : con[l] # "none"
  BY <1>0, <1>1 DEF Delivering, TypeInv, TypeOK
<1>3. \A l \in ranging[t].start : Delivered(t, l) => Delivered(t, l)'
  BY <1>0, <1>1, <1>2 DEF Delivered
<1>4. pc'[t] = pc[t] \/ (pc[t] = "idle" /\ pc'[t] = "start")
  BY <1>0, <1>1
<1>5. Sending(t)'
  BY <1>1, <1>2, <1>3, <1>4 DEF Delivering, Sending
<1> QED BY <1>1, <1>2, <1>5

LEMMA StepDelivering ==
  ASSUME OneTestEach, TypeInv, TypeInv', Feeding, Delivering, [Next]_vars
  PROVE  Delivering'
<1>1. ASSUME UNCHANGED vars PROVE Delivering'
  BY <1>1 DEF vars, conVars, testVars, mapVars, Delivering, Sending, Delivered
<1> QED BY <1>1, HandlerDelivering, ClientDelivering DEF Next, Terminated

LEMMA DeliveringInvariance ==
  ASSUME OneTestEach
  PROVE  Spec => []Delivering
<1>1. TypeInv /\ TypeInv' /\ Feeding /\ Delivering /\ [Next]_vars => Delivering'
  BY StepDelivering
<1> QED BY <1>1, InitDelivering, TypeInvariance, FeedingInvariance, PTL DEF Spec

-----------------------------------------------------------------------------
(* What is promised to clients *)

\* Every variable keeps the type it has in the Go program, however many
\* clients connect, leave or stall (server.go:57-83, 143-214).
THEOREM LiveTypeCorrect == Spec => []TypeOK
BY TypeInvariance, PTL DEF TypeInv

\* stopAllTests walks the list without testLock, while newTest appends; yet
\* what was registered when the stop was sent is cancelled once it is answered
\* (server.go:330-341, 364-407): appends never move what a walk has still to reach.
THEOREM StopsTakeEffect == Spec => []StopEffective
<1>1. Reaching => StopEffective
  BY DEF Reaching, Reached, StopEffective
<1> QED BY <1>1, ReachingInvariance, PTL

\* Once listenToLiveTests has returned, its client is in the map of every
\* matching test that was registered when it asked, for as long as the
\* connection lives (server.go:517-530): only a failed write takes it out.
THEOREM ListenersAreKept == Spec => []ListenerStays
<1>1. Reaching => ListenerStays
  BY DEF Reaching, Reached, ListenerStays
<1> QED BY <1>1, ReachingInvariance, PTL

\* What the server sends its clients implements the abstract feed: the initial
\* states of LiveServer map to its initial state, and every step, a panic or a
\* lost connection too, to a step of the feed or to none (server.go:476-606).
THEOREM FeedIsImplemented == Spec => ImplementsFeed
<1>1. Spec => [][Feed!Next]_(Feed!vars)
  BY StepFeeds, TypeInvariance, FeedingInvariance, PTL DEF Spec
<1> QED BY <1>1, InitFeed, PTL DEF Spec, ImplementsFeed, Feed!Spec

\* Where no client can be subscribed to two tests, every connection of a test
\* has each batch once sendAndSaveData is through (server.go:590-606): its range
\* misses nobody, and no other collector is there to cut it short.  With two
\* subscriptions a recovered panic does that, so the hypothesis is needed.
THEOREM BatchesAreDelivered ==
  ASSUME OneTestEach
  PROVE  Spec => []NoBatchMissed
<1>1. Delivering => NoBatchMissed
  BY DEF Delivering, Sending, Delivered, NoBatchMissed
<1> QED BY <1>1, DeliveringInvariance, PTL
=============================================================================

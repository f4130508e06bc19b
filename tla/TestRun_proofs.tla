---------------------------- MODULE TestRun_proofs ----------------------------
(***************************************************************************)
(* Proofs about TestRun, for every set of hosts, concurrency, duration and *)
(* payload size, and with no bound on requests and bytes but the constants'*)
(***************************************************************************)
EXTENDS TestRun, TLAPS

-----------------------------------------------------------------------------
(* Lemmas about the operators *)

\* Recording a sample keeps the figures within the range of an int64.
LEMMA RecordType ==
  ASSUME NEW l \in [Fields -> 0..MaxInt64], NEW v \in 0..MaxInt64,
         NEW high \in Highs, NEW low \in Lows
  PROVE  Record(l, high, low, v) \in [Fields -> 0..MaxInt64]
BY DEF Record, Fields

LEMMA NoSampleType == NoSample \in [Fields -> 0..MaxInt64]
BY TestRunAssumption DEF NoSample, Fields, Highs, Lows

\* Recording a sample keeps a type-correct error state.
LEMMA AddErrorType ==
  ASSUME NEW k \in ErrorKinds, errors \in [ErrorKinds -> Nat],
         errMap \subseteq ErrorKinds, AddError(k)
  PROVE  errors' \in [ErrorKinds -> Nat] /\ errMap' \subseteq ErrorKinds
BY DEF AddError

-----------------------------------------------------------------------------
(* Type correctness *)

LEMMA InitType == Init => TypeOK
<1> SUFFICES ASSUME Init PROVE TypeOK
  OBVIOUS
<1>1. NoPoint \in [tx : Nat, lat : [Fields -> 0..MaxInt64], unread : SUBSET Fields]
  BY NoSampleType DEF NoPoint
<1>2. dp \in [Hosts -> [tx : Nat, lat : [Fields -> 0..MaxInt64], unread : SUBSET Fields]]
  BY <1>1 DEF Init
<1>3. lat \in [Hosts -> [Fields -> 0..MaxInt64]]
  BY NoSampleType DEF Init
<1>4. left \in [Hosts -> [Cids -> 0..PayloadSize]] /\ elapsed \in 0..Duration
  BY TestRunAssumption DEF Init
<1> QED
  BY <1>2, <1>3, <1>4 DEF Init, TypeOK

LEMMA SlotType ==
  ASSUME TypeOK, NEW h \in Hosts, NEW c \in Cids, SlotStep(h, c)
  PROVE  TypeOK'
<1> USE DEF TypeOK, poolVars, bodyVars, statVars, errVars, colVars
<1>1. CASE CheckCtx(h, c)
  <2>1. errors' \in [ErrorKinds -> Nat] /\ errMap' \subseteq ErrorKinds
    BY <1>1, AddErrorType DEF CheckCtx, ErrorKinds
  <2> QED BY <1>1, <2>1 DEF CheckCtx
<1>2. CASE NewRequestFails(h, c)
  <2>1. errors' \in [ErrorKinds -> Nat] /\ errMap' \subseteq ErrorKinds
    BY <1>2, AddErrorType DEF NewRequestFails, ErrorKinds
  <2> QED BY <1>2, <2>1 DEF NewRequestFails
<1>3. CASE Send(h, c)
  BY <1>3, TestRunAssumption DEF Send
<1>4. CASE DoCancelled(h, c)
  <2>1. errors' \in [ErrorKinds -> Nat] /\ errMap' \subseteq ErrorKinds
    BY <1>4, AddErrorType DEF DoCancelled, ErrorKinds
  <2> QED BY <1>4, <2>1 DEF DoCancelled
<1>5. CASE DoFails(h, c)
  <2>1. errors' \in [ErrorKinds -> Nat] /\ errMap' \subseteq ErrorKinds
    BY <1>5, AddErrorType DEF DoFails, ErrorKinds
  <2> QED BY <1>5, <2>1 DEF DoFails
<1>6. CASE DoOK(h, c)
  <2>1. lat' \in [Hosts -> [Fields -> 0..MaxInt64]]
    <3>1. PICK v \in Latencies :
            lat' = [lat EXCEPT ![h] = Record(@, "RMSH", "RMSL", v)]
      BY <1>6 DEF DoOK
    <3>2. v \in 0..MaxInt64 /\ lat[h] \in [Fields -> 0..MaxInt64]
      BY TestRunAssumption
    <3>3. "RMSH" \in Highs /\ "RMSL" \in Lows
      BY DEF Highs, Lows
    <3>4. Record(lat[h], "RMSH", "RMSL", v) \in [Fields -> 0..MaxInt64]
      BY <3>2, <3>3, RecordType
    <3> QED BY <3>1, <3>4
  <2> QED BY <1>6, <2>1 DEF DoOK
<1>7. CASE PutBack(h, c)
  BY <1>7 DEF PutBack
<1> QED
  BY <1>1, <1>2, <1>3, <1>4, <1>5, <1>6, <1>7 DEF SlotStep

LEMMA BodyType ==
  ASSUME TypeOK, NEW h \in Hosts, NEW c \in Cids, BodyStep(h, c)
  PROVE  TypeOK'
<1> USE DEF TypeOK, poolVars, bodyVars, statVars, errVars, colVars
<1>1. CASE ReadLocked(h, c)
  <2>1. lat' \in [Hosts -> [Fields -> 0..MaxInt64]]
    <3>1. PICK v \in Latencies :
            lat' = [lat EXCEPT ![h] = IF ttfb[h][c] THEN @
                                      ELSE Record(@, "TTFBH", "TTFBL", v)]
      BY <1>1 DEF ReadLocked
    <3>2. v \in 0..MaxInt64 /\ lat[h] \in [Fields -> 0..MaxInt64]
      BY TestRunAssumption
    <3>3. "TTFBH" \in Highs /\ "TTFBL" \in Lows
      BY DEF Highs, Lows
    <3>4. Record(lat[h], "TTFBH", "TTFBL", v) \in [Fields -> 0..MaxInt64]
      BY <3>2, <3>3, RecordType
    <3> QED BY <3>1, <3>4
  <2> QED BY <1>1, <2>1 DEF ReadLocked
<1>2. CASE ReadCopy(h, c)
  BY <1>2, TestRunAssumption DEF ReadCopy
<1>3. CASE BodyDropped(h, c)
  BY <1>3 DEF BodyDropped
<1> QED
  BY <1>1, <1>2, <1>3 DEF BodyStep

LEMMA ReaderType ==
  ASSUME TypeOK, NEW h \in Hosts, ReaderStep(h)
  PROVE  TypeOK'
<1> USE DEF TypeOK, poolVars, bodyVars, statVars, errVars, colVars
<1>1. CASE ReaderReturns(h)
  BY <1>1 DEF ReaderReturns
<1>2. ASSUME NEW c \in Cids, Dispatch(h, c) PROVE TypeOK'
  BY <1>2 DEF Dispatch
<1> QED
  BY <1>1, <1>2 DEF ReaderStep

LEMMA CollectorType ==
  ASSUME TypeOK, CollectorStep
  PROVE  TypeOK'
<1> USE DEF TypeOK, poolVars, bodyVars, statVars, errVars, colVars
<1> DEFINE Points == [tx : Nat, lat : [Fields -> 0..MaxInt64], unread : SUBSET Fields]
<1>0. NoPoint \in Points
  BY NoSampleType DEF NoPoint
<1>1. CASE End
  BY <1>1 DEF End
<1>2. CASE Wake
  BY <1>2, TestRunAssumption DEF Wake
<1>3. CASE SendAndSave
  BY <1>3 DEF SendAndSave
<1>4. ASSUME NEW h \in Hosts, Skip(h) PROVE TypeOK'
  BY <1>4 DEF Skip
<1>5. ASSUME NEW h \in Hosts, Swap(h) PROVE TypeOK'
  <2>1. [NoPoint EXCEPT !.tx = TX[h], !.unread = Fields] \in Points
    BY NoSampleType DEF NoPoint
  <2> QED BY <1>5, <2>1 DEF Swap
<1>6. ASSUME NEW h \in Hosts, Reset(h) PROVE TypeOK'
  BY <1>0, <1>6, NoSampleType DEF Reset
<1>7. ASSUME NEW h \in Hosts, NEW f \in Fields, ReadField(h, f) PROVE TypeOK'
  <2> DEFINE l == [dp[h].lat EXCEPT ![f] = lat[h][f]]
             d == [dp[h] EXCEPT !.lat = l, !.unread = @ \ {f}]
  <2>1. dp' = [dp EXCEPT ![h] = d]
    BY <1>7 DEF ReadField
  <2>2. l \in [Fields -> 0..MaxInt64] /\ dp[h] \in Points
    OBVIOUS
  <2>3. d \in Points
    <3> HIDE DEF l
    <3> QED BY <2>2
  <2> QED BY <1>7, <2>1, <2>3 DEF ReadField
<1> QED
  BY <1>1, <1>2, <1>3, <1>4, <1>5, <1>6, <1>7 DEF CollectorStep

LEMMA NextType == TypeOK /\ [Next]_vars => TypeOK'
<1> SUFFICES ASSUME TypeOK, [Next]_vars PROVE TypeOK'
  OBVIOUS
<1>1. CASE Stop
  BY <1>1 DEF TypeOK, Stop, poolVars, bodyVars, statVars, errVars, colVars
<1>2. CASE UNCHANGED vars
  BY <1>2 DEF TypeOK, vars, poolVars, bodyVars, statVars, errVars, colVars
<1> QED
  BY <1>1, <1>2, SlotType, BodyType, ReaderType, CollectorType DEF Next, Finished

\* Every variable keeps its type in every run of a test.
THEOREM TypeCorrect == Spec => []TypeOK
BY InitType, NextType, PTL DEF Spec

-----------------------------------------------------------------------------
(* Tokens *)

LEMMA TokensStep == TypeOK /\ TokensConserved /\ [Next]_vars => TokensConserved'
<1> SUFFICES ASSUME TypeOK, TokensConserved, [Next]_vars PROVE TokensConserved'
  OBVIOUS
<1> USE DEF TypeOK, TokensConserved, poolVars
<1>1. ASSUME NEW h \in Hosts, NEW c \in Cids, SlotStep(h, c) PROVE TokensConserved'
  <2>1. CASE CheckCtx(h, c)
    BY <2>1 DEF CheckCtx
  <2>2. CASE NewRequestFails(h, c)
    BY <2>2 DEF NewRequestFails
  <2>3. CASE Send(h, c)
    BY <2>3 DEF Send
  <2>4. CASE DoCancelled(h, c) \/ DoFails(h, c) \/ DoOK(h, c)
    <3>1. /\ pc[h][c] = "doing"
          /\ pc' = [pc EXCEPT ![h][c] = "return"]
          /\ UNCHANGED tokens
      BY <2>4 DEF DoCancelled, DoFails, DoOK
    <3> QED BY <3>1
  <2>5. CASE PutBack(h, c)
    BY <2>5 DEF PutBack
  <2> QED
    BY <1>1, <2>1, <2>2, <2>3, <2>4, <2>5 DEF SlotStep
<1>2. ASSUME NEW h \in Hosts, NEW c \in Cids, BodyStep(h, c) PROVE TokensConserved'
  BY <1>2 DEF BodyStep, ReadLocked, ReadCopy, BodyDropped
<1>3. ASSUME NEW h \in Hosts, ReaderStep(h) PROVE TokensConserved'
  <2>1. CASE ReaderReturns(h)
    BY <2>1 DEF ReaderReturns
  <2>2. ASSUME NEW c \in Cids, Dispatch(h, c) PROVE TokensConserved'
    BY <2>2 DEF Dispatch
  <2> QED
    BY <1>3, <2>1, <2>2 DEF ReaderStep
<1>4. CASE CollectorStep
  BY <1>4 DEF CollectorStep, End, Wake, SendAndSave, Skip, Swap, Reset, ReadField
<1>5. CASE Stop \/ UNCHANGED vars
  BY <1>5 DEF Stop, vars
<1> QED
  BY <1>1, <1>2, <1>3, <1>4, <1>5 DEF Next, Finished

\* No token is lost or duplicated, whichever way a request ends.
THEOREM TokensAreConserved == Spec => []TokensConserved
<1>1. Init => TokensConserved
  BY DEF Init, TokensConserved
<1> QED
  BY <1>1, TypeCorrect, TokensStep, PTL DEF Spec

-----------------------------------------------------------------------------
(* Bytes *)

\* No data point is open outside the scan, nor for a host not being built.
ScanIdle ==
  /\ colPc # "scan" => \A h \in Hosts : scan[h] = "done"
  /\ \A h \in Hosts : scan[h] # "build" => dp[h].tx = 0

BytesInv == BytesConserved /\ ScanIdle

LEMMA BytesStep == TypeOK /\ BytesInv /\ [Next]_vars => BytesInv'
<1> SUFFICES ASSUME TypeOK, BytesInv, [Next]_vars PROVE BytesInv'
  OBVIOUS
<1> USE DEF TypeOK, BytesInv, BytesConserved, ScanIdle, colVars
<1>1. ASSUME NEW h \in Hosts, NEW c \in Cids, SlotStep(h, c) PROVE BytesInv'
  BY <1>1 DEF SlotStep, CheckCtx, NewRequestFails, Send, DoCancelled, DoFails,
              DoOK, PutBack
<1>2. ASSUME NEW h \in Hosts, NEW c \in Cids, BodyStep(h, c) PROVE BytesInv'
  <2>1. CASE ReadLocked(h, c) \/ BodyDropped(h, c)
    BY <2>1 DEF ReadLocked, BodyDropped
  <2>2. CASE ReadCopy(h, c)
    BY <2>2, TestRunAssumption DEF ReadCopy
  <2> QED
    BY <1>2, <2>1, <2>2 DEF BodyStep
<1>3. ASSUME NEW h \in Hosts, ReaderStep(h) PROVE BytesInv'
  BY <1>3 DEF ReaderStep, ReaderReturns, Dispatch
<1>4. CASE CollectorStep
  <2>1. CASE End
    BY <2>1 DEF End
  <2>2. CASE Wake
    BY <2>2 DEF Wake
  <2>3. CASE SendAndSave
    BY <2>3 DEF SendAndSave
  <2>4. ASSUME NEW h \in Hosts, Skip(h) PROVE BytesInv'
    BY <2>4 DEF Skip, AtReader
  <2>5. ASSUME NEW h \in Hosts, Swap(h) PROVE BytesInv'
    BY <2>5 DEF Swap, AtReader, NoPoint
  <2>6. ASSUME NEW h \in Hosts, Reset(h) PROVE BytesInv'
    BY <2>6 DEF Reset, NoPoint
  <2>7. ASSUME NEW h \in Hosts, NEW f \in Fields, ReadField(h, f) PROVE BytesInv'
    <3>1. \A g \in Hosts : dp'[g].tx = dp[g].tx
      BY <2>7 DEF ReadField
    <3> QED BY <2>7, <3>1 DEF ReadField
  <2> QED
    BY <1>4, <2>1, <2>2, <2>3, <2>4, <2>5, <2>6, <2>7 DEF CollectorStep
<1>5. CASE Stop \/ UNCHANGED vars
  BY <1>5 DEF Stop, vars
<1> QED
  BY <1>1, <1>2, <1>3, <1>4, <1>5 DEF Next, Finished

\* Every byte put on the wire is in exactly one of the four places.
THEOREM BytesAreConserved == Spec => []BytesConserved
<1>1. Init => BytesInv
  BY DEF Init, BytesInv, BytesConserved, ScanIdle, NoPoint
<1>2. BytesInv => BytesConserved
  BY DEF BytesInv
<1> QED
  BY <1>1, <1>2, TypeCorrect, BytesStep, PTL DEF Spec

-----------------------------------------------------------------------------
(* Requests sent after a cancellation *)

\* Nothing is late before the cancellation, and a token that was late cannot
\* be cleared again: sendRequestToHost checks the context first.
OverrunInv ==
  \A h \in Hosts, c \in Cids :
    /\ late[h][c] <= 1
    /\ late[h][c] > 0 => cancelled /\ pc[h][c] # "building"

LEMMA OverrunStep == TypeOK /\ OverrunInv /\ [Next]_vars => OverrunInv'
<1> SUFFICES ASSUME TypeOK, OverrunInv, [Next]_vars PROVE OverrunInv'
  OBVIOUS
<1> USE DEF TypeOK, OverrunInv, poolVars
<1>1. ASSUME NEW h \in Hosts, NEW c \in Cids, SlotStep(h, c) PROVE OverrunInv'
  <2>1. CASE CheckCtx(h, c)
    BY <2>1 DEF CheckCtx
  <2>2. CASE NewRequestFails(h, c)
    BY <2>2 DEF NewRequestFails
  <2>3. CASE Send(h, c)
    BY <2>3 DEF Send
  <2>4. CASE DoCancelled(h, c) \/ DoFails(h, c) \/ DoOK(h, c)
    <3>1. pc' = [pc EXCEPT ![h][c] = "return"] /\ UNCHANGED <<late, cancelled>>
      BY <2>4 DEF DoCancelled, DoFails, DoOK
    <3> QED BY <3>1
  <2>5. CASE PutBack(h, c)
    BY <2>5 DEF PutBack
  <2> QED
    BY <1>1, <2>1, <2>2, <2>3, <2>4, <2>5 DEF SlotStep
<1>2. ASSUME NEW h \in Hosts, NEW c \in Cids, BodyStep(h, c) PROVE OverrunInv'
  BY <1>2 DEF BodyStep, ReadLocked, ReadCopy, BodyDropped
<1>3. ASSUME NEW h \in Hosts, ReaderStep(h) PROVE OverrunInv'
  <2>1. CASE ReaderReturns(h)
    BY <2>1 DEF ReaderReturns
  <2>2. ASSUME NEW c \in Cids, Dispatch(h, c) PROVE OverrunInv'
    BY <2>2 DEF Dispatch
  <2> QED
    BY <1>3, <2>1, <2>2 DEF ReaderStep
<1>4. CASE CollectorStep
  BY <1>4 DEF CollectorStep, End, Wake, SendAndSave, Skip, Swap, Reset, ReadField
<1>5. CASE Stop \/ UNCHANGED vars
  BY <1>5 DEF Stop, vars
<1> QED
  BY <1>1, <1>2, <1>3, <1>4, <1>5 DEF Next, Finished

LEMMA OverrunInvariant == Spec => []OverrunInv
<1>1. Init => OverrunInv
  BY DEF Init, OverrunInv
<1> QED
  BY <1>1, TypeCorrect, OverrunStep, PTL DEF Spec

\* After a Stop a reader sends at most one more request per token.
THEOREM OverrunIsBounded == Spec => []BoundedOverrun
<1>1. OverrunInv => BoundedOverrun
  BY DEF OverrunInv, BoundedOverrun
<1> QED
  BY <1>1, OverrunInvariant, PTL

-----------------------------------------------------------------------------
(* The readers implement the pool of workers *)

LEMMA PoolStep ==
  ASSUME TypeOK, TokensConserved, OverrunInv, [Next]_vars
  PROVE  [Pool!Next]_(Pool!vars)
<1> USE DEF TypeOK, poolVars, Pool!vars
<1>1. ASSUME NEW h \in Hosts, NEW c \in Cids, SlotStep(h, c)
      PROVE  [Pool!Next]_(Pool!vars)
  <2> DEFINE w == <<h, c>>
  <2>0. w \in Hosts \X Cids
    OBVIOUS
  <2>1. CASE CheckCtx(h, c)
    <3>1. CASE cancelled
      BY <2>1, <3>1 DEF CheckCtx
    <3>2. CASE ~cancelled
      <4>1. Pool!Clear(w)
        BY <2>1, <3>2 DEF CheckCtx, Pool!Clear
      <4> QED BY <2>0, <4>1 DEF Pool!Next
    <3> QED BY <3>1, <3>2
  <2>2. CASE NewRequestFails(h, c)
    <3>1. Pool!GiveUp(w)
      BY <2>2 DEF NewRequestFails, Pool!GiveUp
    <3> QED BY <2>0, <3>1 DEF Pool!Next
  <2>3. CASE Send(h, c)
    <3>1. Pool!Send(w)
      BY <2>3 DEF Send, Pool!Send
    <3> QED BY <2>0, <3>1 DEF Pool!Next
  <2>4. CASE DoCancelled(h, c) \/ DoFails(h, c) \/ DoOK(h, c)
    <3>1. /\ pc[h][c] = "doing"
          /\ pc' = [pc EXCEPT ![h][c] = "return"]
          /\ UNCHANGED <<late, cancelled>>
      BY <2>4 DEF DoCancelled, DoFails, DoOK
    <3> QED BY <3>1
  <2>5. CASE PutBack(h, c)
    <3>1. Pool!Return(w)
      BY <2>5 DEF PutBack, Pool!Return
    <3> QED BY <2>0, <3>1 DEF Pool!Next
  <2> QED
    BY <1>1, <2>1, <2>2, <2>3, <2>4, <2>5 DEF SlotStep
<1>2. ASSUME NEW h \in Hosts, NEW c \in Cids, BodyStep(h, c)
      PROVE  UNCHANGED <<pc, cancelled, late>>
  BY <1>2 DEF BodyStep, ReadLocked, ReadCopy, BodyDropped
<1>3. ASSUME NEW h \in Hosts, ReaderStep(h) PROVE [Pool!Next]_(Pool!vars)
  <2>1. CASE ReaderReturns(h)
    BY <2>1 DEF ReaderReturns
  <2>2. ASSUME NEW c \in Cids, Dispatch(h, c) PROVE Pool!Leave(<<h, c>>)
    BY <2>2 DEF Dispatch, Pool!Leave, TokensConserved
  <2> QED
    BY <1>3, <2>1, <2>2 DEF ReaderStep, Pool!Next
<1>4. CASE CollectorStep
  <2>1. UNCHANGED <<pc, late>> /\ (cancelled' = cancelled \/ cancelled' = TRUE)
    BY <1>4 DEF CollectorStep, End, Wake, SendAndSave, Skip, Swap, Reset, ReadField
  <2> QED
    BY <2>1 DEF Pool!Next, Pool!Close
<1>5. CASE Stop
  BY <1>5 DEF Stop, Pool!Next, Pool!Close
<1>6. CASE UNCHANGED vars
  BY <1>6 DEF vars
<1> QED
  BY <1>1, <1>2, <1>3, <1>4, <1>5, <1>6 DEF Next, Finished

\* The readers of a test, taken together, are the abstract pool: bounded, and
\* closed to new requests from the cancellation on.
THEOREM PoolIsImplemented == Spec => ImplementsPool
<1>1. Init => Pool!Init
  BY DEF Init, Pool!Init
<1>2. TypeOK /\ TokensConserved /\ OverrunInv /\ [Next]_vars => [Pool!Next]_(Pool!vars)
  BY PoolStep
<1> QED
  BY <1>1, <1>2, TypeCorrect, TokensAreConserved, OverrunInvariant, PTL
  DEF Spec, ImplementsPool, Pool!Spec

-----------------------------------------------------------------------------
(* The figures *)

\* Recording a sample pairs the two figures of its kind.
LEMMA RecordPairs ==
  ASSUME NEW l \in [Fields -> 0..MaxInt64], NEW v \in Latencies,
         NEW high \in Highs, NEW low \in Lows, Paired(l, high, low)
  PROVE  Paired(Record(l, high, low, v), high, low)
BY TestRunAssumption DEF Record, Paired, Unset, Fields, Highs, Lows

\* It only widens the figures.
LEMMA RecordWidens ==
  ASSUME NEW l \in [Fields -> 0..MaxInt64], NEW v \in Latencies,
         NEW high \in Highs, NEW low \in Lows
  PROVE  \A f \in Fields : IF f \in Highs THEN Record(l, high, low, v)[f] >= l[f]
                                          ELSE Record(l, high, low, v)[f] <= l[f]
BY TestRunAssumption DEF Record, Fields, Highs, Lows

StatsInv == StatsPaired /\ SampleFlagged /\ PointWithinStats

\* What the two places that record a sample have in common.
LEMMA SampleStep ==
  ASSUME TypeOK, StatsInv, NEW h \in Hosts, NEW v \in Latencies,
         NEW high \in Highs, NEW low \in Lows,
         <<high, low>> \in {<<"TTFBH", "TTFBL">>, <<"RMSH", "RMSL">>},
         \/ lat' = [lat EXCEPT ![h] = Record(@, high, low, v)]
         \/ lat' = lat,
         hasStats' = [hasStats EXCEPT ![h] = TRUE],
         UNCHANGED <<scan, dp>>
  PROVE  StatsInv'
<1> USE DEF TypeOK, StatsInv
<1>1. CASE lat' = lat
  BY <1>1 DEF StatsPaired, SampleFlagged, PointWithinStats
<1>2. CASE lat' = [lat EXCEPT ![h] = Record(@, high, low, v)]
  <2> DEFINE l == Record(lat[h], high, low, v)
  <2>1. lat[h] \in [Fields -> 0..MaxInt64] /\ v \in 0..MaxInt64
    BY TestRunAssumption
  <2>2. l \in [Fields -> 0..MaxInt64]
    BY <2>1, RecordType
  <2>3. Paired(l, "TTFBH", "TTFBL") /\ Paired(l, "RMSH", "RMSL")
    <3>1. Paired(lat[h], "TTFBH", "TTFBL") /\ Paired(lat[h], "RMSH", "RMSL")
      BY DEF StatsPaired
    <3>2. Paired(l, high, low)
      BY <2>1, <3>1, RecordPairs
    <3>3. \A f \in Fields \ {high, low} : l[f] = lat[h][f]
      BY <2>1 DEF Record
    <3> QED
      BY <3>1, <3>2, <3>3 DEF Paired, Unset, Fields, Highs, Lows
  <2>4. \A f \in Fields : IF f \in Highs THEN l[f] >= lat[h][f] ELSE l[f] <= lat[h][f]
    BY <2>1, RecordWidens
  <2> HIDE DEF l
  <2>5. lat' = [lat EXCEPT ![h] = l]
    BY <1>2 DEF l
  <2>6. StatsPaired'
    BY <2>3, <2>5 DEF StatsPaired
  <2>7. SampleFlagged'
    BY <2>5 DEF SampleFlagged
  <2>8. PointWithinStats'
    <3> SUFFICES ASSUME NEW g \in Hosts, scan[g] = "build",
                        NEW f \in Fields \ dp[g].unread
                 PROVE  IF f \in Highs THEN dp[g].lat[f] <= lat'[g][f]
                                       ELSE dp[g].lat[f] >= lat'[g][f]
      BY DEF PointWithinStats
    <3>1. IF f \in Highs THEN dp[g].lat[f] <= lat[g][f] ELSE dp[g].lat[f] >= lat[g][f]
      BY DEF PointWithinStats
    <3>2. /\ dp[g].lat[f] \in 0..MaxInt64 /\ lat[g][f] \in 0..MaxInt64
          /\ lat'[g][f] \in 0..MaxInt64
      BY <2>2, <2>5
    <3>3. IF f \in Highs THEN lat[g][f] <= lat'[g][f] ELSE lat[g][f] >= lat'[g][f]
      BY <2>4, <2>5, <3>2, TestRunAssumption
    <3> QED
      BY <3>1, <3>2, <3>3, TestRunAssumption
  <2> QED
    BY <2>6, <2>7, <2>8
<1> QED
  BY <1>1, <1>2

LEMMA StatsStep == TypeOK /\ StatsInv /\ [Next]_vars => StatsInv'
<1> SUFFICES ASSUME TypeOK, StatsInv, [Next]_vars PROVE StatsInv'
  OBVIOUS
<1> USE DEF TypeOK, statVars, colVars
<1> DEFINE Same == UNCHANGED <<lat, hasStats, scan, dp>>
<1>0. Same => StatsInv'
  BY DEF StatsInv, StatsPaired, SampleFlagged, PointWithinStats
<1>1. ASSUME NEW h \in Hosts, NEW c \in Cids, SlotStep(h, c) PROVE StatsInv'
  <2>1. CASE DoOK(h, c)
    <3>1. PICK v \in Latencies :
            lat' = [lat EXCEPT ![h] = Record(@, "RMSH", "RMSL", v)]
      BY <2>1 DEF DoOK
    <3>2. "RMSH" \in Highs /\ "RMSL" \in Lows
      BY DEF Highs, Lows
    <3>3. hasStats' = [hasStats EXCEPT ![h] = TRUE] /\ UNCHANGED <<scan, dp>>
      BY <2>1 DEF DoOK
    <3> QED
      BY <3>1, <3>2, <3>3, SampleStep
  <2>2. CASE ~DoOK(h, c)
    <3>1. Same
      BY <1>1, <2>2 DEF SlotStep, CheckCtx, NewRequestFails, Send, DoCancelled,
                        DoFails, PutBack
    <3> QED BY <1>0, <3>1
  <2> QED BY <2>1, <2>2
<1>2. ASSUME NEW h \in Hosts, NEW c \in Cids, BodyStep(h, c) PROVE StatsInv'
  <2>1. CASE ReadLocked(h, c)
    <3>1. PICK v \in Latencies :
            lat' = [lat EXCEPT ![h] = IF ttfb[h][c] THEN @
                                      ELSE Record(@, "TTFBH", "TTFBL", v)]
      BY <2>1 DEF ReadLocked
    <3>2. \/ lat' = lat
          \/ lat' = [lat EXCEPT ![h] = Record(@, "TTFBH", "TTFBL", v)]
      BY <3>1
    <3>3. "TTFBH" \in Highs /\ "TTFBL" \in Lows
      BY DEF Highs, Lows
    <3>4. hasStats' = [hasStats EXCEPT ![h] = TRUE] /\ UNCHANGED <<scan, dp>>
      BY <2>1 DEF ReadLocked
    <3> QED
      BY <3>2, <3>3, <3>4, SampleStep
  <2>2. CASE ReadCopy(h, c) \/ BodyDropped(h, c)
    BY <1>0, <2>2 DEF ReadCopy, BodyDropped
  <2> QED
    BY <1>2, <2>1, <2>2 DEF BodyStep
<1>3. ASSUME NEW h \in Hosts, ReaderStep(h) PROVE StatsInv'
  BY <1>0, <1>3 DEF ReaderStep, ReaderReturns, Dispatch
<1>4. CASE CollectorStep
  <2>1. CASE End \/ SendAndSave
    BY <1>0, <2>1 DEF End, SendAndSave, StatsInv, StatsPaired, SampleFlagged,
                      PointWithinStats
  <2>2. CASE Wake
    BY <2>2 DEF Wake, StatsInv, StatsPaired, SampleFlagged, PointWithinStats
  <2>3. ASSUME NEW h \in Hosts, Skip(h) PROVE StatsInv'
    BY <2>3 DEF Skip, StatsInv, StatsPaired, SampleFlagged, PointWithinStats
  <2>4. ASSUME NEW h \in Hosts, Swap(h) PROVE StatsInv'
    BY <2>4 DEF Swap, NoPoint, StatsInv, StatsPaired, SampleFlagged, PointWithinStats
  <2>5. ASSUME NEW h \in Hosts, Reset(h) PROVE StatsInv'
    <3>1. lat' = [lat EXCEPT ![h] = NoSample]
      BY <2>5 DEF Reset
    <3>2. Paired(NoSample, "TTFBH", "TTFBL") /\ Paired(NoSample, "RMSH", "RMSL")
      BY DEF Paired, Unset, NoSample, Fields, Highs, Lows
    <3>3. StatsPaired'
      BY <3>1, <3>2 DEF StatsInv, StatsPaired
    <3>4. SampleFlagged'
      BY <2>5, <3>1 DEF Reset, StatsInv, SampleFlagged
    <3>5. PointWithinStats'
      BY <2>5, <3>1 DEF Reset, StatsInv, PointWithinStats
    <3> QED BY <3>3, <3>4, <3>5 DEF StatsInv
  <2>6. ASSUME NEW h \in Hosts, NEW f \in Fields, ReadField(h, f) PROVE StatsInv'
    <3>1. /\ UNCHANGED <<lat, hasStats, scan>>
          /\ \A g \in Hosts \ {h} : dp'[g] = dp[g]
          /\ dp'[h].unread = dp[h].unread \ {f}
          /\ dp'[h].lat = [dp[h].lat EXCEPT ![f] = lat[h][f]]
      BY <2>6 DEF ReadField
    <3>2. PointWithinStats'
      <4> SUFFICES ASSUME NEW g \in Hosts, scan[g] = "build",
                          NEW e \in Fields \ dp'[g].unread
                   PROVE  IF e \in Highs THEN dp'[g].lat[e] <= lat[g][e]
                                         ELSE dp'[g].lat[e] >= lat[g][e]
        BY <3>1 DEF PointWithinStats
      <4>1. CASE g = h /\ e = f
        <5>1. dp'[g].lat[e] = lat[g][e] /\ lat[g][e] \in 0..MaxInt64
          BY <3>1, <4>1
        <5> QED BY <5>1, TestRunAssumption
      <4>2. CASE ~(g = h /\ e = f)
        <5>1. dp'[g].lat[e] = dp[g].lat[e] /\ e \notin dp[g].unread
          BY <3>1, <4>2
        <5> QED BY <5>1 DEF StatsInv, PointWithinStats
      <4> QED BY <4>1, <4>2
    <3> QED BY <3>1, <3>2 DEF StatsInv, StatsPaired, SampleFlagged
  <2> QED
    BY <1>4, <2>1, <2>2, <2>3, <2>4, <2>5, <2>6 DEF CollectorStep
<1>5. CASE Stop \/ UNCHANGED vars
  BY <1>0, <1>5 DEF Stop, vars
<1> QED
  BY <1>1, <1>2, <1>3, <1>4, <1>5 DEF Next, Finished

LEMMA StatsInvariant == Spec => []StatsInv
<1>1. Init => StatsInv
  BY DEF Init, StatsInv, StatsPaired, SampleFlagged, PointWithinStats, Paired,
         Unset, NoSample, Fields, Highs, Lows
<1> QED
  BY <1>1, TypeCorrect, StatsStep, PTL DEF Spec

\* The locked updates and the locked reset keep the figures in pairs.
THEOREM FiguresArePaired == Spec => []StatsPaired
BY StatsInvariant, PTL DEF StatsInv

\* A recorded sample always flags its reader for the next scan.
THEOREM SamplesAreFlagged == Spec => []SampleFlagged
BY StatsInvariant, PTL DEF StatsInv

\* A data point never claims more than the reader measured.
THEOREM PointsAreWithin == Spec => []PointWithinStats
BY StatsInvariant, PTL DEF StatsInv

-----------------------------------------------------------------------------
(* Errors *)

\* AddError keeps the list and its index in step.
LEMMA AddErrorOnce ==
  ASSUME OneErrorPerKind, errors \in [ErrorKinds -> Nat], NEW k \in ErrorKinds,
         AddError(k)
  PROVE  OneErrorPerKind'
BY DEF OneErrorPerKind, AddError

LEMMA ErrorsStep == TypeOK /\ OneErrorPerKind /\ [Next]_vars => OneErrorPerKind'
<1> SUFFICES ASSUME TypeOK, OneErrorPerKind, [Next]_vars PROVE OneErrorPerKind'
  OBVIOUS
<1>0. errors \in [ErrorKinds -> Nat]
  BY DEF TypeOK
<1>1. UNCHANGED errVars => OneErrorPerKind'
  BY DEF errVars, OneErrorPerKind
<1>2. (\E k \in ErrorKinds : AddError(k)) => OneErrorPerKind'
  BY <1>0, AddErrorOnce
<1>3. ASSUME NEW h \in Hosts, NEW c \in Cids, SlotStep(h, c)
      PROVE  UNCHANGED errVars \/ \E k \in ErrorKinds : AddError(k)
  BY <1>3 DEF SlotStep, CheckCtx, NewRequestFails, Send, DoCancelled, DoFails,
              DoOK, PutBack, ErrorKinds
<1>4. ASSUME NEW h \in Hosts, NEW c \in Cids, BodyStep(h, c) PROVE UNCHANGED errVars
  BY <1>4 DEF BodyStep, ReadLocked, ReadCopy, BodyDropped
<1>5. ASSUME NEW h \in Hosts, ReaderStep(h) PROVE UNCHANGED errVars
  BY <1>5 DEF ReaderStep, ReaderReturns, Dispatch
<1>6. CASE SendAndSave
  BY <1>6 DEF SendAndSave, OneErrorPerKind
<1>7. CASE CollectorStep /\ ~SendAndSave
  BY <1>1, <1>7 DEF CollectorStep, End, Wake, Skip, Swap, Reset, ReadField
<1>8. CASE Stop \/ UNCHANGED vars
  BY <1>1, <1>8 DEF Stop, vars
<1> QED
  BY <1>1, <1>2, <1>3, <1>4, <1>5, <1>6, <1>7, <1>8 DEF Next, Finished

\* An error kind is never muted and never repeated within one flush.
THEOREM ErrorsAreOnce == Spec => []OneErrorPerKind
<1>1. Init => OneErrorPerKind
  BY DEF Init, OneErrorPerKind
<1> QED
  BY <1>1, TypeCorrect, ErrorsStep, PTL DEF Spec
=============================================================================

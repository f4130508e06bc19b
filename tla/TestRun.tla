------------------------------- MODULE TestRun -------------------------------
(***************************************************************************)
(* One performance test on one hperf server (server/server.go), from the   *)
(* moment createAndRunTest has started the performance readers.            *)
(*                                                                         *)
(* Three kinds of goroutines share the test:                               *)
(*   - startPerformanceReader, one per remote host: takes a concurrency    *)
(*     token and spawns a request goroutine, until the test is cancelled;  *)
(*   - sendRequestToHost, one per token taken: sends one HTTP request whose *)
(*     body is an asyncReader, times it and puts the token back;           *)
(*   - createAndRunTest itself, the collector: once a second it turns the  *)
(*     counters of every reader into a data point (generateDataPoints) and *)
(*     ships points and errors (sendAndSaveData).                          *)
(*                                                                         *)
(* The counters TX and TXCount are atomics.  The latency figures are       *)
(* written under netPerfReader.m, but generateDataPoints reads them, and   *)
(* hasStats, without it: every such read is a step of its own here.        *)
(***************************************************************************)
EXTENDS Integers

CONSTANTS
  Hosts,        \* the remote hosts, one netPerfReader each
  Concurrency,  \* Config.Concurrency: tokens per reader
  Duration,     \* Config.Duration, in seconds
  PayloadSize,  \* Config.PayloadSize, in units of the smallest Read
  TestTypes,    \* the test types explored: "request", "stream", "unknown"
  Latencies,    \* the durations a measurement may return, in microseconds
  Failures,     \* the kinds of request failure the network produces
  MaxInt64,     \* math.MaxInt64, the "no sample yet" value of a low figure
  MaxRequests,  \* bound: no request is dispatched beyond this many per host
  MaxBytes      \* bound: no Read starts beyond this many units per host

ErrorKinds == {"unknown-signal", "network-new-request", "network-error",
               "invalid-status-code"}

ASSUME TestRunAssumption ==
  /\ Concurrency \in Nat
  /\ Duration \in Nat
  /\ PayloadSize \in Nat \ {0}
  /\ MaxInt64 \in Nat
  /\ Latencies \subseteq 0..(MaxInt64 - 1)
  /\ TestTypes \subseteq {"request", "stream", "unknown"}
  /\ Failures \subseteq ErrorKinds

VARIABLES
  testType,   \* t.Config.TestType, fixed when the test starts
  cancelled,  \* t.ctx.Err() # nil
  readerPc,   \* readerPc[h]: startPerformanceReader for h
  tokens,     \* tokens[h]: the ids in the channel r.concurrency
  pc,         \* pc[h][c]: the sendRequestToHost goroutine holding token c
  body,       \* body[h][c]: the asyncReader of that request
  left,       \* left[h][c]: units of the payload it has not copied yet
  ttfb,       \* ttfb[h][c]: asyncReader.ttfbRegistered
  TX,         \* TX[h]: bytes copied since the last data point (atomic)
  TXCount,    \* TXCount[h]: requests sent (atomic)
  hasStats,   \* hasStats[h]
  lat,        \* lat[h]: TTFBH, TTFBL, RMSH and RMSL of the reader
  errors,     \* errors[k]: entries of kind k in t.errors
  errMap,     \* the keys of t.errMap
  colPc,      \* the collector goroutine, createAndRunTest
  elapsed,    \* seconds since start
  scan,       \* scan[h]: progress of the loop of generateDataPoints
  dp,         \* dp[h]: the data point being built for h
  DPS,        \* DPS[h]: bytes in the data points of h waiting in t.DPS
  copied,     \* history: bytes ever copied into requests to h
  sent,       \* history: bytes in data points handed to the clients
  late        \* history: requests token c sent after the cancellation

poolVars   == <<readerPc, tokens, pc>>
bodyVars   == <<body, left, ttfb>>
statVars   == <<hasStats, lat>>
errVars    == <<errors, errMap>>
colVars    == <<colPc, elapsed, scan, dp, DPS, sent>>
vars == <<testType, cancelled, poolVars, bodyVars, TX, TXCount, statVars,
          errVars, colVars, copied, late>>

Cids == 1..Concurrency
Highs == {"TTFBH", "RMSH"}
Lows  == {"TTFBL", "RMSL"}
Fields == Highs \cup Lows

(***************************************************************************)
(* The figures of a reader before any sample: newPerformanceReader-        *)
(* ForASingleHost leaves the highs at zero and sets the lows to MaxInt64,  *)
(* and generateDataPoints puts them back to that.                          *)
(***************************************************************************)
NoSample == [f \in Fields |-> IF f \in Highs THEN 0 ELSE MaxInt64]
NoPoint  == [tx |-> 0, lat |-> NoSample, unread |-> {}]

Init ==
  /\ testType \in TestTypes
  /\ cancelled = FALSE
  /\ readerPc = [h \in Hosts |-> "select"]
  /\ tokens = [h \in Hosts |-> Cids]
  /\ pc = [h \in Hosts |-> [c \in Cids |-> "idle"]]
  /\ body = [h \in Hosts |-> [c \in Cids |-> "closed"]]
  /\ left = [h \in Hosts |-> [c \in Cids |-> 0]]
  /\ ttfb = [h \in Hosts |-> [c \in Cids |-> FALSE]]
  /\ TX = [h \in Hosts |-> 0]
  /\ TXCount = [h \in Hosts |-> 0]
  /\ hasStats = [h \in Hosts |-> FALSE]
  /\ lat = [h \in Hosts |-> NoSample]
  /\ errors = [k \in ErrorKinds |-> 0]
  /\ errMap = {}
  /\ colPc = "check"
  /\ elapsed = 0
  /\ scan = [h \in Hosts |-> "done"]
  /\ dp = [h \in Hosts |-> NoPoint]
  /\ DPS = [h \in Hosts |-> 0]
  /\ copied = [h \in Hosts |-> 0]
  /\ sent = [h \in Hosts |-> 0]
  /\ late = [h \in Hosts |-> [c \in Cids |-> 0]]

-----------------------------------------------------------------------------
(* Shared operations *)

\* Fault: the key is not remembered.
AddErrorUnkeyed(k) ==
  /\ errMap' = errMap
  /\ errors' = IF k \in errMap THEN errors ELSE [errors EXCEPT ![k] = @ + 1]

(***************************************************************************)
(* AddError under t.M: an error of a kind already waiting is dropped.      *)
(***************************************************************************)
AddError(k) ==
  /\ errMap' = errMap \cup {k}
  /\ errors' = IF k \in errMap THEN errors ELSE [errors EXCEPT ![k] = @ + 1]

\* Fault: a sample that raises the high is not compared with the low.
RecordElse(l, high, low, v) ==
  IF v > l[high] THEN [l EXCEPT ![high] = v]
                 ELSE [l EXCEPT ![low] = IF v < @ THEN v ELSE @]

\* Fault: the last sample replaces the figures.
RecordLast(l, high, low, v) == [l EXCEPT ![high] = v, ![low] = v]

(***************************************************************************)
(* A latency sample v under r.m: raise the high, lower the low.            *)
(***************************************************************************)
Record(l, high, low, v) ==
  [l EXCEPT ![high] = IF v > @ THEN v ELSE @,
            ![low]  = IF v < @ THEN v ELSE @]

-----------------------------------------------------------------------------
(* startPerformanceReader: the two cases of its select *)

Dispatch(h, c) ==
  /\ readerPc[h] = "select"
  /\ c \in tokens[h]
  /\ TXCount[h] < MaxRequests
  /\ tokens' = [tokens EXCEPT ![h] = @ \ {c}]
  /\ pc' = [pc EXCEPT ![h][c] = "spawned"]
  /\ UNCHANGED <<testType, cancelled, readerPc, bodyVars, TX, TXCount,
                 statVars, errVars, colVars, copied, late>>

ReaderReturns(h) ==
  /\ readerPc[h] = "select"
  /\ cancelled
  /\ readerPc' = [readerPc EXCEPT ![h] = "returned"]
  /\ UNCHANGED <<testType, cancelled, tokens, pc, bodyVars, TX, TXCount,
                 statVars, errVars, colVars, copied, late>>

-----------------------------------------------------------------------------
(* sendRequestToHost *)

\* Fault: the context is not checked after the delay.
CheckCtxSkipped(h, c) ==
  /\ pc[h][c] = "spawned"
  /\ pc' = [pc EXCEPT ![h][c] = "building"]
  /\ IF testType = "unknown" THEN AddError("unknown-signal") ELSE UNCHANGED errVars
  /\ UNCHANGED <<testType, cancelled, readerPc, tokens, bodyVars, TX, TXCount,
                 statVars, colVars, copied, late>>

\* After the request delay: give up if the test is over, else choose a route.
CheckCtx(h, c) ==
  /\ pc[h][c] = "spawned"
  /\ pc' = [pc EXCEPT ![h][c] = IF cancelled THEN "return" ELSE "building"]
  /\ IF ~cancelled /\ testType = "unknown"
       THEN AddError("unknown-signal")
       ELSE UNCHANGED errVars
  /\ UNCHANGED <<testType, cancelled, readerPc, tokens, bodyVars, TX, TXCount,
                 statVars, colVars, copied, late>>

NewRequestFails(h, c) ==
  /\ pc[h][c] = "building"
  /\ "network-new-request" \in Failures
  /\ pc' = [pc EXCEPT ![h][c] = "return"]
  /\ AddError("network-new-request")
  /\ UNCHANGED <<testType, cancelled, readerPc, tokens, bodyVars, TX, TXCount,
                 statVars, colVars, copied, late>>

(***************************************************************************)
(* TXCount.Add(1), then client.Do starts.  An unknown test has no body.    *)
(* The transport may hold a body for a while after client.Do has failed;   *)
(* here a token's next request waits for that, so that one body per token  *)
(* is enough (two bodies at once are two tokens at work).                  *)
(***************************************************************************)
Send(h, c) ==
  /\ pc[h][c] = "building"
  /\ body[h][c] = "closed"
  /\ pc' = [pc EXCEPT ![h][c] = "doing"]
  /\ TXCount' = [TXCount EXCEPT ![h] = @ + 1]
  /\ body' = [body EXCEPT ![h][c] =
                IF testType = "unknown" THEN "closed" ELSE "open"]
  /\ left' = [left EXCEPT ![h][c] = PayloadSize]
  /\ ttfb' = [ttfb EXCEPT ![h][c] = FALSE]
  /\ late' = [late EXCEPT ![h][c] = IF cancelled THEN @ + 1 ELSE @]
  /\ UNCHANGED <<testType, cancelled, readerPc, tokens, TX, statVars, errVars,
                 colVars, copied>>

\* io.EOF: the test is over, or the payload of a request test is used up.
AtEOF(h, c) == cancelled \/ (testType # "stream" /\ left[h][c] = 0)

(***************************************************************************)
(* asyncReader.Read, called by the HTTP transport for as long as it holds  *)
(* the body.  The section under r.m and the checks that follow it, which   *)
(* read only the context and a.i, are one step; the copy is another.       *)
(***************************************************************************)
ReadLocked(h, c) ==
  /\ body[h][c] = "open"
  /\ copied[h] < MaxBytes \/ AtEOF(h, c)
  /\ \E v \in Latencies :
       lat' = [lat EXCEPT ![h] = IF ttfb[h][c] THEN @
                                 ELSE Record(@, "TTFBH", "TTFBL", v)]
  /\ ttfb' = [ttfb EXCEPT ![h][c] = TRUE]
  /\ hasStats' = [hasStats EXCEPT ![h] = TRUE]
  /\ body' = [body EXCEPT ![h][c] = IF AtEOF(h, c) THEN "closed" ELSE "copying"]
  /\ UNCHANGED <<testType, cancelled, poolVars, left, TX, TXCount, errVars,
                 colVars, copied, late>>

\* A copy of n units, as many as the transport's buffer takes.  A stream
\* never runs out.
ReadCopy(h, c) ==
  /\ body[h][c] = "copying"
  /\ \E n \in 1..PayloadSize :
       /\ testType = "stream" \/ n <= left[h][c]
       /\ left' = [left EXCEPT ![h][c] = IF testType = "stream" THEN @ ELSE @ - n]
       /\ TX' = [TX EXCEPT ![h] = @ + n]
       /\ copied' = [copied EXCEPT ![h] = @ + n]
  /\ body' = [body EXCEPT ![h][c] = "open"]
  /\ UNCHANGED <<testType, cancelled, poolVars, ttfb, TXCount, statVars,
                 errVars, colVars, late>>

\* The transport drops the body of a request that has failed.
BodyDropped(h, c) ==
  /\ body[h][c] = "open"
  /\ pc[h][c] # "doing"
  /\ body' = [body EXCEPT ![h][c] = "closed"]
  /\ UNCHANGED <<testType, cancelled, poolVars, left, ttfb, TX, TXCount,
                 statVars, errVars, colVars, copied, late>>

\* client.Do gives up on a cancelled context.  Depending on where the
\* transport was, its error is context.Canceled, which is not recorded, or
\* the cause given to test.cancel, which errors.Is does not recognise.
DoCancelled(h, c) ==
  /\ pc[h][c] = "doing"
  /\ cancelled
  /\ UNCHANGED errVars \/ AddError("network-error")
  /\ pc' = [pc EXCEPT ![h][c] = "return"]
  /\ UNCHANGED <<testType, cancelled, readerPc, tokens, bodyVars, TX, TXCount,
                 statVars, colVars, copied, late>>

\* client.Do returns another error, or a status other than 200: always the
\* latter for an unknown test, whose route the peer does not have.
DoFails(h, c) ==
  /\ pc[h][c] = "doing"
  /\ \E k \in {"network-error", "invalid-status-code"} :
       /\ k \in Failures \/ (testType = "unknown" /\ k = "invalid-status-code")
       /\ AddError(k)
  /\ pc' = [pc EXCEPT ![h][c] = "return"]
  /\ UNCHANGED <<testType, cancelled, readerPc, tokens, bodyVars, TX, TXCount,
                 statVars, colVars, copied, late>>

\* A 200, which the peer sends when it has read the whole body: the round
\* trip is recorded under r.m.
DoOK(h, c) ==
  /\ pc[h][c] = "doing"
  /\ testType # "unknown"
  /\ body[h][c] = "closed"
  /\ \E v \in Latencies :
       lat' = [lat EXCEPT ![h] = Record(@, "RMSH", "RMSL", v)]
  /\ hasStats' = [hasStats EXCEPT ![h] = TRUE]
  /\ pc' = [pc EXCEPT ![h][c] = "return"]
  /\ UNCHANGED <<testType, cancelled, readerPc, tokens, bodyVars, TX, TXCount,
                 errVars, colVars, copied, late>>

\* Fault: the goroutine ends without putting its token back.
PutBackLost(h, c) ==
  /\ pc[h][c] = "return"
  /\ pc' = [pc EXCEPT ![h][c] = "idle"]
  /\ UNCHANGED <<testType, cancelled, readerPc, tokens, bodyVars, TX, TXCount,
                 statVars, errVars, colVars, copied, late>>

\* The deferred r.concurrency <- cid, on every way out.
PutBack(h, c) ==
  /\ pc[h][c] = "return"
  /\ tokens' = [tokens EXCEPT ![h] = @ \cup {c}]
  /\ pc' = [pc EXCEPT ![h][c] = "idle"]
  /\ UNCHANGED <<testType, cancelled, readerPc, bodyVars, TX, TXCount,
                 statVars, errVars, colVars, copied, late>>

-----------------------------------------------------------------------------
(* stopAllTests, on behalf of some client, at any moment *)

Stop ==
  /\ ~cancelled
  /\ cancelled' = TRUE
  /\ UNCHANGED <<testType, poolVars, bodyVars, TX, TXCount, statVars, errVars,
                 colVars, copied, late>>

-----------------------------------------------------------------------------
(* The collector: the loop of createAndRunTest *)

\* Fault: the test ends without cancelling its context.
EndUncancelled ==
  /\ colPc = "check"
  /\ cancelled \/ elapsed >= Duration
  /\ colPc' = "ended"
  /\ UNCHANGED <<testType, cancelled, poolVars, bodyVars, TX, TXCount, statVars,
                 errVars, elapsed, scan, dp, DPS, sent, copied, late>>

\* Leave the loop; the deferred test.cancel runs before SendDone.
End ==
  /\ colPc = "check"
  /\ cancelled \/ elapsed >= Duration
  /\ cancelled' = TRUE
  /\ colPc' = "ended"
  /\ UNCHANGED <<testType, poolVars, bodyVars, TX, TXCount, statVars, errVars,
                 elapsed, scan, dp, DPS, sent, copied, late>>

\* Fault: the duration is not looked at.
WakeForever ==
  /\ colPc = "check"
  /\ ~cancelled
  /\ elapsed' = elapsed + 1
  /\ scan' = [h \in Hosts |-> "todo"]
  /\ colPc' = "scan"
  /\ UNCHANGED <<testType, cancelled, poolVars, bodyVars, TX, TXCount, statVars,
                 errVars, dp, DPS, sent, copied, late>>

\* Sleep for a second, then enter generateDataPoints.
Wake ==
  /\ colPc = "check"
  /\ ~cancelled /\ elapsed < Duration
  /\ elapsed' = elapsed + 1
  /\ scan' = [h \in Hosts |-> "todo"]
  /\ colPc' = "scan"
  /\ UNCHANGED <<testType, cancelled, poolVars, bodyVars, TX, TXCount, statVars,
                 errVars, dp, DPS, sent, copied, late>>

\* The readers are scanned one at a time.
AtReader(h) ==
  /\ colPc = "scan"
  /\ scan[h] = "todo"
  /\ \A g \in Hosts : scan[g] # "build"

\* if !rv.hasStats { continue }: read without r.m.
Skip(h) ==
  /\ AtReader(h)
  /\ ~hasStats[h]
  /\ scan' = [scan EXCEPT ![h] = "done"]
  /\ UNCHANGED <<testType, cancelled, poolVars, bodyVars, TX, TXCount, statVars,
                 errVars, colPc, elapsed, dp, DPS, sent, copied, late>>

\* Fault: TX is loaded and left as it is.
SwapLoads(h) ==
  /\ AtReader(h)
  /\ hasStats[h]
  /\ dp' = [dp EXCEPT ![h] = [NoPoint EXCEPT !.tx = TX[h], !.unread = Fields]]
  /\ scan' = [scan EXCEPT ![h] = "build"]
  /\ UNCHANGED <<testType, cancelled, poolVars, bodyVars, TX, TXCount, statVars,
                 errVars, colPc, elapsed, DPS, sent, copied, late>>

\* hasStats was seen set: TX.Swap(0) opens the data point.
Swap(h) ==
  /\ AtReader(h)
  /\ hasStats[h]
  /\ dp' = [dp EXCEPT ![h] = [NoPoint EXCEPT !.tx = TX[h], !.unread = Fields]]
  /\ TX' = [TX EXCEPT ![h] = 0]
  /\ scan' = [scan EXCEPT ![h] = "build"]
  /\ UNCHANGED <<testType, cancelled, poolVars, bodyVars, TXCount, statVars,
                 errVars, colPc, elapsed, DPS, sent, copied, late>>

\* One figure of the composite literal, read without r.m; the language
\* leaves the order of such reads open.
ReadField(h, f) ==
  /\ scan[h] = "build"
  /\ f \in dp[h].unread
  /\ dp' = [dp EXCEPT ![h].lat[f] = lat[h][f], ![h].unread = @ \ {f}]
  /\ UNCHANGED <<testType, cancelled, poolVars, bodyVars, TX, TXCount, statVars,
                 errVars, colPc, elapsed, scan, DPS, sent, copied, late>>

\* Fault: the flag is cleared and the figures are kept.
ResetFlagOnly(h) ==
  /\ scan[h] = "build"
  /\ dp[h].unread = {}
  /\ hasStats' = [hasStats EXCEPT ![h] = FALSE]
  /\ DPS' = [DPS EXCEPT ![h] = @ + dp[h].tx]
  /\ dp' = [dp EXCEPT ![h] = NoPoint]
  /\ scan' = [scan EXCEPT ![h] = "done"]
  /\ UNCHANGED <<testType, cancelled, poolVars, bodyVars, TX, TXCount, lat, errVars,
                 colPc, elapsed, sent, copied, late>>

\* The figures are put back under r.m and the data point joins t.DPS.
Reset(h) ==
  /\ scan[h] = "build"
  /\ dp[h].unread = {}
  /\ hasStats' = [hasStats EXCEPT ![h] = FALSE]
  /\ lat' = [lat EXCEPT ![h] = NoSample]
  /\ DPS' = [DPS EXCEPT ![h] = @ + dp[h].tx]
  /\ dp' = [dp EXCEPT ![h] = NoPoint]
  /\ scan' = [scan EXCEPT ![h] = "done"]
  /\ UNCHANGED <<testType, cancelled, poolVars, bodyVars, TX, TXCount, errVars,
                 colPc, elapsed, sent, copied, late>>

\* sendAndSaveData: hand out t.DPS, and under t.M the errors, and empty both.
SendAndSave ==
  /\ colPc = "scan"
  /\ \A h \in Hosts : scan[h] = "done"
  /\ sent' = [h \in Hosts |-> sent[h] + DPS[h]]
  /\ DPS' = [h \in Hosts |-> 0]
  /\ errors' = [k \in ErrorKinds |-> 0]
  /\ errMap' = {}
  /\ colPc' = "check"
  /\ UNCHANGED <<testType, cancelled, poolVars, bodyVars, TX, TXCount, statVars,
                 elapsed, scan, dp, copied, late>>

-----------------------------------------------------------------------------
ReaderStep(h) == ReaderReturns(h) \/ \E c \in Cids : Dispatch(h, c)

SlotStep(h, c) ==
  \/ CheckCtx(h, c) \/ NewRequestFails(h, c) \/ Send(h, c)
  \/ DoCancelled(h, c) \/ DoFails(h, c) \/ DoOK(h, c)
  \/ PutBack(h, c)

BodyStep(h, c) == ReadLocked(h, c) \/ ReadCopy(h, c) \/ BodyDropped(h, c)

CollectorStep ==
  \/ End \/ Wake \/ SendAndSave
  \/ \E h \in Hosts : Skip(h) \/ Swap(h) \/ Reset(h)
  \/ \E h \in Hosts, f \in Fields : ReadField(h, f)

\* The test is over and every goroutine it started is gone.
Quiet ==
  /\ colPc = "ended"
  /\ \A h \in Hosts :
       /\ readerPc[h] = "returned"
       /\ \A c \in Cids : pc[h][c] = "idle" /\ body[h][c] = "closed"

Finished == Quiet /\ UNCHANGED vars

Next ==
  \/ Stop
  \/ CollectorStep
  \/ \E h \in Hosts : ReaderStep(h)
  \/ \E h \in Hosts, c \in Cids : SlotStep(h, c) \/ BodyStep(h, c)
  \/ Finished

Spec == Init /\ [][Next]_vars

(***************************************************************************)
(* The Go scheduler runs every goroutine that can run.  The network owes   *)
(* nothing: no fairness is assumed of DoOK and DoFails, of the transport's *)
(* calls of Read, of new requests, or of Stop.                             *)
(***************************************************************************)
Fairness ==
  /\ WF_vars(CollectorStep)
  /\ \A h \in Hosts :
       /\ WF_vars(ReaderReturns(h))
       /\ \A c \in Cids :
            /\ WF_vars(CheckCtx(h, c) \/ NewRequestFails(h, c) \/ Send(h, c))
            /\ WF_vars(DoCancelled(h, c))
            /\ WF_vars(PutBack(h, c))
            /\ WF_vars(ReadCopy(h, c))
            /\ WF_vars(BodyDropped(h, c))

FairSpec == Spec /\ Fairness

-----------------------------------------------------------------------------
(* Properties *)

\* Every variable holds values of its Go type.
TypeOK ==
  /\ testType \in TestTypes
  /\ cancelled \in BOOLEAN
  /\ readerPc \in [Hosts -> {"select", "returned"}]
  /\ tokens \in [Hosts -> SUBSET Cids]
  /\ pc \in [Hosts -> [Cids -> {"idle", "spawned", "building", "doing", "return"}]]
  /\ body \in [Hosts -> [Cids -> {"closed", "open", "copying"}]]
  /\ left \in [Hosts -> [Cids -> 0..PayloadSize]]
  /\ ttfb \in [Hosts -> [Cids -> BOOLEAN]]
  /\ TX \in [Hosts -> Nat]
  /\ TXCount \in [Hosts -> Nat]
  /\ hasStats \in [Hosts -> BOOLEAN]
  /\ lat \in [Hosts -> [Fields -> 0..MaxInt64]]
  /\ errors \in [ErrorKinds -> Nat]
  /\ errMap \subseteq ErrorKinds
  /\ colPc \in {"check", "scan", "ended"}
  /\ elapsed \in 0..Duration
  /\ scan \in [Hosts -> {"todo", "build", "done"}]
  /\ dp \in [Hosts -> [tx : Nat, lat : [Fields -> 0..MaxInt64],
                       unread : SUBSET Fields]]
  /\ DPS \in [Hosts -> Nat]
  /\ copied \in [Hosts -> Nat]
  /\ sent \in [Hosts -> Nat]
  /\ late \in [Hosts -> [Cids -> Nat]]

\* A concurrency token is in the channel exactly when no goroutine holds it:
\* whichever way sendRequestToHost is left, no token is lost or put back
\* twice, so a reader has at most Concurrency requests out and
\* the send in the deferred function never blocks.
TokensConserved ==
  \A h \in Hosts, c \in Cids : c \in tokens[h] <=> pc[h][c] = "idle"

\* Every byte copied into a request is counted once: in TX, in the data point
\* being built, in a data point waiting in t.DPS, or in one handed out.  The
\* swap of generateDataPoints neither loses nor doubles concurrent copies.
BytesConserved ==
  \A h \in Hosts : copied[h] = sent[h] + DPS[h] + dp[h].tx + TX[h]

\* A request sent after the cancellation is one whose goroutine had passed the
\* context check before it, so a token sends at most one: stopping a test
\* overruns by at most Concurrency requests per host.
BoundedOverrun == \A h \in Hosts, c \in Cids : late[h][c] <= 1

\* A sample recorded and not yet cleared is flagged in hasStats, so that the
\* next generateDataPoints does not skip the reader.
SampleFlagged == \A h \in Hosts : lat[h] # NoSample => hasStats[h]

\* Outside r.m the figures of one kind are either both unset or ordered:
\* the concurrent updates and resets never leave the one without the other.
Unset(l, high, low) == l[high] = 0 /\ l[low] = MaxInt64
Paired(l, high, low) == Unset(l, high, low) \/ l[low] <= l[high]
StatsPaired ==
  \A h \in Hosts : /\ Paired(lat[h], "TTFBH", "TTFBL")
                   /\ Paired(lat[h], "RMSH", "RMSL")

\* While a data point is built the reader's figures only widen: whatever was
\* read without r.m is within what the reader holds when it is cleared.
PointWithinStats ==
  \A h \in Hosts : scan[h] = "build" =>
    \A f \in Fields \ dp[h].unread :
      IF f \in Highs THEN dp[h].lat[f] <= lat[h][f]
                     ELSE dp[h].lat[f] >= lat[h][f]

\* Between two flushes an error kind is reported at most once, and exactly
\* when its key is in errMap: clearing the one without the other would mute
\* the kind for the rest of the test or let a failing peer flood the clients.
OneErrorPerKind ==
  \A k \in ErrorKinds : errors[k] = IF k \in errMap THEN 1 ELSE 0

\* A test ends, by its duration or by a Stop, and leaves no goroutine behind:
\* every reader returns, every request gives its token back, every body closes.
Quiesces == <>[]Quiet

\* The readers together are a pool of workers, one per host and token: an
\* action of the test is one of the pool's or leaves the pool alone.
Pool == INSTANCE WorkerPool WITH
  Workers <- Hosts \X Cids,
  closed  <- cancelled,
  out     <- {w \in Hosts \X Cids : pc[w[1]][w[2]] # "idle"},
  cleared <- {w \in Hosts \X Cids : pc[w[1]][w[2]] = "building"},
  overrun <- {w \in Hosts \X Cids : late[w[1]][w[2]] > 0}

ImplementsPool == Pool!Spec
=============================================================================

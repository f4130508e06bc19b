-------------------------------- MODULE Report --------------------------------
(***************************************************************************)
(* From data points to what the user sees (client/client.go and shared/).  *)
(* The servers' readers make data points; goroutines of the client append  *)
(* them to responseDPS and responseERR in whatever order they run.  Then   *)
(*   - "latency" prints a row a second over all the points it holds, and   *)
(*     at the end the percentiles of the points;                           *)
(*   - "download" sorts the points and writes them to a file, which        *)
(*     "analyze" reads, filters by host, and turns into percentiles, and   *)
(*     "csv" turns into a table;                                           *)
(*   - "list" merges what the servers say of the tests they have saved,    *)
(*     and prints it, the newest first.                                    *)
(*                                                                         *)
(* The appends hold responseLock, the merges testLock.  The rows, the      *)
(* sorts and the writes hold neither: the last goroutines may run          *)
(* meanwhile, which for the map testList may be fatal.                     *)
(***************************************************************************)
EXTENDS Integers, Sequences, FiniteSets, SequencesExt

CONSTANTS
  Commands,  \* the commands explored: "latency", "download", "list"
  Hosts,     \* the addresses of the servers
  Readers,   \* the netPerfReaders of all servers: the pairs <<DP.Local, DP.Remote>>
  Figures,   \* what a data point may hold of each column: [column -> [high, low]]
  Columns,   \* among "RMS", "TTFB", "TX", "Mem", "CPU"; the first two are times
  Sizes,     \* the bytes a data point may hold
  SortBy,    \* Config.Sort: the column whose high the percentiles are about
  Micro,     \* Config.Micro: times are shown in microseconds
  NoFilter,  \* the empty Config.HostFilter
  Matching,  \* Matching[f]: the hosts whose address contains the filter f
  Listings,  \* what a server may say of its tests: functions from IDs to times
  Early,     \* Early[p]: the numbers of points of which p percent is a whole
             \* number, but the result in floating point is just below it
  MaxInt64,  \* math.MaxInt64
  MaxPoints  \* bound: data points and errors made

ASSUME ReportAssumption ==
  /\ Figures \subseteq [Columns -> [high : 0..MaxInt64, low : 0..MaxInt64]]
  /\ SortBy \in Columns
  /\ Micro \in BOOLEAN
  /\ Commands \subseteq {"latency", "download", "list"}
  /\ Readers \subseteq Hosts \X Hosts
  /\ Sizes \subseteq Nat
  /\ Matching \in [Hosts -> SUBSET Hosts] /\ \A h \in Hosts : h \in Matching[h]
  /\ \A l \in Listings : l \in [DOMAIN l -> Nat] /\ IsFiniteSet(DOMAIN l)
  /\ Early \in [{50, 90} -> SUBSET {n \in Nat : n > 57}]
  /\ \A p \in {50, 90} : \A n \in Early[p] : (n * p) % 100 = 0
  /\ MaxInt64 \in Nat

VARIABLES
  command,   \* "latency", "download" or "list"
  phase,     \* "collect", "write" and "analyze" (download), "print" (list),
             \* "done", "csv", "failed", "crashed"
  clock,     \* the time at which points are created
  made,      \* history: bytes in the points that were made
  flying,    \* points, errors and listings on their way, each in a goroutine of its own
  DPS,       \* responseDPS
  ERR,       \* responseERR
  row,       \* the last row of printOnTick
  file,      \* the lines of the downloaded file
  picked,    \* the filter, and the points analyzed, as analyzeLatencyTest sorts them
  readErrs,  \* the errors AnalyzeTest has found
  csv,       \* the rows of the CSV file
  punctual,  \* history: nothing was flying when download or list sorted
  answers,   \* history: <<host, listing>> of the servers that have answered
  testList,  \* testList: from IDs to times
  keys,      \* its IDs, as ListTests has sorted them
  printed    \* the lines of ListTests: <<ID, time>>

serverVars == <<clock, made>>
fileVars   == <<file, picked, readErrs, csv>>
endVars    == <<fileVars, punctual>>
listVars   == <<answers, testList, keys, printed>>
vars == <<command, phase, serverVars, flying, DPS, ERR, row, endVars, listVars>>

Times == {"RMS", "TTFB"}

\* Fault: the lows are not set to the highest number there is.
NoRowZero ==
  [high |-> [c \in Columns |-> 0], low |-> [c \in Columns |-> 0],
   total |-> 0, errors |-> 0, points |-> 0]

NoRow ==
  [high |-> [c \in Columns |-> 0], low |-> [c \in Columns |-> MaxInt64],
   total |-> 0, errors |-> 0, points |-> 0]

Init ==
  /\ command \in Commands
  /\ phase = "collect"
  /\ clock = 0
  /\ made = 0
  /\ flying = {}
  /\ DPS = <<>>
  /\ ERR = <<>>
  /\ row = NoRow
  /\ file = <<>>
  /\ picked = [filter |-> NoFilter, points |-> <<>>]
  /\ readErrs = <<>>
  /\ csv = <<>>
  /\ punctual = FALSE
  /\ answers = {}
  /\ testList = <<>>
  /\ keys = <<>>
  /\ printed = <<>>

-----------------------------------------------------------------------------
(* The servers, and the goroutines that collect *)

\* A reader's data point, with the bytes since its last point.
\* What is made once the command has stopped waiting is not looked at.
MakePoint(r) ==
  /\ command # "list" /\ phase = "collect" /\ clock < MaxPoints
  /\ clock' = clock + 1
  /\ \E n \in Sizes, f \in Figures :
       /\ made' = made + n
       /\ flying' = flying \cup
            {<<"0", [reader |-> r, created |-> clock, bytes |-> n, figures |-> f]>>}
  /\ UNCHANGED <<command, phase, DPS, ERR, row, endVars, listVars>>

MakeError ==
  /\ command # "list" /\ phase = "collect" /\ clock < MaxPoints
  /\ clock' = clock + 1
  /\ flying' = flying \cup {<<"1", [created |-> clock]>>}
  /\ UNCHANGED <<command, phase, made, DPS, ERR, row, endVars, listVars>>

\* Fault: errors are taken for points.
CollectAsPoint(m) ==
  /\ m \in flying /\ m[1] # "list"
  /\ flying' = flying \ {m}
  /\ DPS' = Append(DPS, m[2])
  /\ UNCHANGED <<command, phase, serverVars, ERR, row, endVars, listVars>>

\* collectDataPointv2 and receiveJSONDataPoint, under responseLock.
Collect(m) ==
  /\ m \in flying /\ m[1] # "list"
  /\ flying' = flying \ {m}
  /\ IF m[1] = "0" THEN DPS' = Append(DPS, m[2]) /\ UNCHANGED ERR
                   ELSE ERR' = Append(ERR, m[2]) /\ UNCHANGED DPS
  /\ UNCHANGED <<command, phase, serverVars, row, endVars, listVars>>

-----------------------------------------------------------------------------
(* printOnTick *)

Larger(x, y)  == IF x < y THEN y ELSE x
Smaller(x, y) == IF x > y THEN y ELSE x

\* A time is shown in milliseconds unless Config.Micro says otherwise.
Shown(c, v) == IF c \in Times /\ ~Micro THEN v \div 1000 ELSE v

Widen(acc, p) ==
  [high   |-> [c \in Columns |-> Larger(acc.high[c], p.figures[c].high)],
   low    |-> [c \in Columns |-> Smaller(acc.low[c], p.figures[c].low)],
   total  |-> acc.total + p.bytes,
   errors |-> acc.errors,
   points |-> acc.points + 1]

RowOf(dps, errs) ==
  LET sum == FoldLeft(Widen, NoRow, dps) IN
  [high   |-> [c \in Columns |-> Shown(c, sum.high[c])],
   low    |-> [c \in Columns |-> Shown(c, sum.low[c])],
   total  |-> sum.total,
   errors |-> Len(errs),
   points |-> sum.points]

\* Fault: a row adds to the last one.
TickAdds ==
  /\ command = "latency" /\ phase = "collect"
  /\ DPS # <<>>
  /\ row' = [RowOf(DPS, ERR) EXCEPT !.total = @ + row.total]
  /\ UNCHANGED <<command, phase, serverVars, flying, DPS, ERR, endVars, listVars>>

Tick ==
  /\ command = "latency" /\ phase = "collect"
  /\ DPS # <<>>
  /\ row' = RowOf(DPS, ERR)
  /\ UNCHANGED <<command, phase, serverVars, flying, DPS, ERR, endVars, listVars>>

-----------------------------------------------------------------------------
(* DownloadTest *)

\* What slices.SortFunc may return: it is not stable, and its comparison does
\* not tell equal elements from greater ones.  key[x] is what x is sorted by.
Sorted(s, key) ==
  {t \in {[i \in DOMAIN s |-> s[p[i]]] : p \in Bijection(DOMAIN s, DOMAIN s)} :
     \A i \in 1..(Len(t) - 1) : key[t[i]] <= key[t[i + 1]]}

\* Fault: the comparison is the wrong way round.
CreatedBackwards(s) == [x \in ToSet(s) |-> 0 - x.created]

Created(s) == [x \in ToSet(s) |-> x.created]

\* keepAliveLoop has ended, for whatever reason: sort what is there.
SortAll ==
  /\ command = "download" /\ phase = "collect"
  /\ DPS' \in Sorted(DPS, Created(DPS))
  /\ ERR' \in Sorted(ERR, Created(ERR))
  /\ punctual' = (flying = {})
  /\ phase' = "write"
  /\ UNCHANGED <<command, serverVars, flying, row, fileVars, listVars>>

\* A line of the file: the prefix, and the JSON of the point or error, which
\* begins with a brace.
Line(prefix, x) == <<prefix, "brace", x>>

\* All points, then all errors; they may be more than were sorted.
WriteFile ==
  /\ phase = "write"
  /\ file' = [i \in DOMAIN DPS |-> Line("0", DPS[i])] \o
             [i \in DOMAIN ERR |-> Line("1", ERR[i])]
  /\ phase' = "analyze"
  /\ UNCHANGED <<command, serverVars, flying, DPS, ERR, row, picked, readErrs, csv, punctual, listVars>>

-----------------------------------------------------------------------------
(* AnalyzeTest and AnalyzeLatencyTest *)

\* The prefix of an error is looked for behind the first byte of the line.
IsErrorLine(line) == Head(Tail(line)) = "1"
IsPointLine(line) == ~IsErrorLine(line) /\ Head(line) = "0"

\* What is appended by a loop over s that leaves out the places not in P.
Pick(s, P) == FlattenSeq([i \in DOMAIN s |-> IF i \in P THEN <<s[i]>> ELSE <<>>])

\* json.Unmarshal of the lines.
Parsed(lines) == [i \in DOMAIN lines |-> lines[i][3]]

ReadPoints(lines) == Pick(Parsed(lines), {i \in DOMAIN lines : IsPointLine(lines[i])})
ReadErrors(lines) == Pick(Parsed(lines), {i \in DOMAIN lines : IsErrorLine(lines[i])})

High(p)  == p.figures[SortBy].high
Highs(s) == [p \in ToSet(s) |-> High(p)]

\* Fault: only the remote address is looked at.
HostFilterRemote(f, p) == f = NoFilter \/ p.reader[2] \in Matching[f]

\* strings.Contains on either address.
HostFilter(f, p) ==
  f = NoFilter \/ \E i \in 1..2 : p.reader[i] \in Matching[f]

\* The command that shows live data analyzes what it has collected.
AnalyzeLive ==
  /\ command = "latency" /\ phase = "collect"
  /\ DPS' \in Sorted(DPS, Highs(DPS))
  /\ picked' = [picked EXCEPT !.points = DPS']
  /\ phase' = "done"
  /\ UNCHANGED <<command, serverVars, flying, ERR, row, file, readErrs, csv, punctual, listVars>>

\* The analyze command reads the file, with or without a filter.
AnalyzeFile ==
  /\ phase = "analyze"
  /\ \E f \in Hosts \cup {NoFilter} :
       LET all == ReadPoints(file)
           dps == Pick(all, {i \in DOMAIN all : HostFilter(f, all[i])})
       IN \E s \in Sorted(dps, Highs(dps)) : picked' = [filter |-> f, points |-> s]
  /\ readErrs' = ReadErrors(file)
  /\ phase' = "done"
  /\ UNCHANGED <<command, serverVars, flying, DPS, ERR, row, file, csv, punctual, listVars>>

\* The csv command, which asks for nothing but the prefix of a point.
MakeCSV ==
  /\ phase = "analyze"
  /\ csv' = Pick(Parsed(file), {i \in DOMAIN file : Head(file[i]) = "0"})
  /\ phase' = "csv"
  /\ UNCHANGED <<command, serverVars, flying, DPS, ERR, row, file, picked, readErrs,
                 punctual, listVars>>

-----------------------------------------------------------------------------
(* ListTests *)

\* A server answers the signal, once: one entry for each ID.
AnswerList(h) ==
  /\ command = "list" /\ phase = "collect"
  /\ \A a \in answers : a[1] # h
  /\ \E l \in Listings :
       /\ answers' = answers \cup {<<h, l>>}
       /\ flying' = flying \cup {<<"list", h, l>>}
  /\ UNCHANGED <<command, phase, serverVars, DPS, ERR, row, endVars, testList, keys, printed>>

\* Fault: an entry replaces the one that is there.
ParseTestListLast(m) ==
  /\ m \in flying /\ m[1] = "list"
  /\ flying' = flying \ {m}
  /\ testList' = m[3] @@ testList
  /\ UNCHANGED <<command, phase, serverVars, DPS, ERR, row, endVars, answers, keys, printed>>

\* parseTestList: an entry that is there stays.
ParseTestList(m) ==
  /\ m \in flying /\ m[1] = "list"
  /\ flying' = flying \ {m}
  /\ testList' = [id \in DOMAIN testList \cup DOMAIN m[3] |->
                    IF id \in DOMAIN testList THEN testList[id] ELSE m[3][id]]
  /\ UNCHANGED <<command, phase, serverVars, DPS, ERR, row, endVars, answers, keys, printed>>

\* keepAliveLoop has ended without an error: take the IDs, and sort them.
ListSort ==
  /\ command = "list" /\ phase = "collect"
  /\ keys' \in Sorted(SetToSeq(DOMAIN testList), [id \in DOMAIN testList |-> 0 - testList[id]])
  /\ punctual' = (flying = {})
  /\ phase' = "print"
  /\ UNCHANGED <<command, serverVars, flying, DPS, ERR, row, fileVars, answers, testList, printed>>

ListPrint ==
  /\ phase = "print"
  /\ printed' = [i \in DOMAIN keys |-> <<keys[i], testList[keys[i]]>>]
  /\ phase' = "done"
  /\ UNCHANGED <<command, serverVars, flying, DPS, ERR, row, endVars, answers, testList, keys>>

\* keepAliveLoop reports that time is up, or an interrupt: nothing is printed.
ListFails ==
  /\ command = "list" /\ phase = "collect"
  /\ phase' = "failed"
  /\ UNCHANGED <<command, serverVars, flying, DPS, ERR, row, endVars, listVars>>

\* ListTests reads testList without testLock while parseTestList adds to it:
\* the Go runtime may end the client.
ListRace ==
  /\ command = "list" /\ phase \in {"collect", "print"}
  /\ \E m \in flying : ~(DOMAIN m[3] \subseteq DOMAIN testList)
  /\ phase' = "crashed"
  /\ UNCHANGED <<command, serverVars, flying, DPS, ERR, row, endVars, listVars>>

-----------------------------------------------------------------------------
(* analyzeLatencyTest *)

Percentiles == {10, 50, 90, 99}

\* Fault: every percentile is rounded up.
CutUp(p, n) == (n * p + 99) \div 100

\* The index at which a percentile starts: rounded up for P10, down for the
\* others, of which P50 and P90 may start one point early.  (P99 is a whole
\* number only if n / 100 is one, and dividing by 10 is undone by multiplying.)
Cut(p, n) ==
  IF p = 10 THEN (n * p + 99) \div 100
  ELSE (n * p) \div 100 - (IF p # 99 /\ n \in Early[p] THEN 1 ELSE 0)

\* UpdatePSStats
NoStats == [count |-> 0, sum |-> 0, low |-> MaxInt64, avg |-> 0, high |-> 0]

\* Fault: the average is over the points seen before this one.
UpdateBefore(b, p) ==
  [count |-> b.count + 1,
   sum   |-> b.sum + High(p),
   low   |-> Smaller(b.low, High(p)),
   avg   |-> (b.sum + High(p)) \div Larger(b.count, 1),
   high  |-> Larger(b.high, High(p))]

Update(b, p) ==
  [count |-> b.count + 1,
   sum   |-> b.sum + High(p),
   low   |-> Smaller(b.low, High(p)),
   avg   |-> (b.sum + High(p)) \div (b.count + 1),
   high  |-> Larger(b.high, High(p))]

Stats(p, s) == FoldLeft(Update, NoStats, SubSeq(s, Cut(p, Len(s)) + 1, Len(s)))

-----------------------------------------------------------------------------
Finished ==
  /\ phase \in {"done", "csv", "failed", "crashed"} /\ flying = {}
  /\ UNCHANGED vars

Next ==
  \/ \E r \in Readers : MakePoint(r)
  \/ MakeError
  \/ \E m \in flying : Collect(m)
  \/ Tick \/ SortAll \/ WriteFile \/ AnalyzeLive \/ AnalyzeFile \/ MakeCSV
  \/ \E h \in Hosts : AnswerList(h)
  \/ \E m \in flying : ParseTestList(m)
  \/ ListSort \/ ListPrint \/ ListFails \/ ListRace
  \/ Finished

Spec == Init /\ [][Next]_vars

-----------------------------------------------------------------------------
(* Properties *)

Points == [reader : Readers, created : Nat, bytes : Nat, figures : Figures]
Errors == [created : Nat]

\* Every variable holds values of its Go type.
TypeOK ==
  /\ command \in Commands
  /\ phase \in {"collect", "write", "analyze", "print", "done", "csv", "failed", "crashed"}
  /\ clock \in Nat /\ made \in Nat
  /\ DPS \in Seq(Points)
  /\ ERR \in Seq(Errors)
  /\ picked.points \in Seq(Points)
  /\ readErrs \in Seq(Errors)
  /\ csv \in Seq(Points)
  /\ testList \in [DOMAIN testList -> Nat]
  /\ keys \in Seq(DOMAIN testList)
  /\ punctual \in BOOLEAN

\* The bytes in a sequence of points.
Bytes(s) == FoldLeft(LAMBDA acc, p : acc + p.bytes, 0, s)

\* Every figure of a row bounds the points the row covers and is the figure of
\* one of them, in the unit that is shown.
RowIsExact ==
  phase = "collect" /\ row.points > 0 =>
    LET seen == {DPS[i].figures : i \in 1..row.points} IN
    \A c \in Columns :
      /\ \A f \in seen : /\ row.high[c] >= Shown(c, f[c].high)
                         /\ row.low[c] <= Shown(c, f[c].low)
      /\ \E f \in seen : row.high[c] = Shown(c, f[c].high)
      /\ \E f \in seen : row.low[c] = Shown(c, f[c].low)

\* The bytes of a row are bytes that the servers counted, none twice, and all
\* of them once every point has been collected and shown.
BytesReported ==
  /\ row.total <= made
  /\ flying = {} /\ row.points > 0 /\ row.points = Len(DPS) => row.total = made

\* A file that was written when nothing was on its way holds everything the
\* servers sent, the points and the errors each in the order of creation; and
\* the CSV made of it has every byte in it.
FileComplete ==
  phase \in {"analyze", "done", "csv"} /\ command = "download" /\ punctual =>
    LET dps == ReadPoints(file)
        n   == Len(dps)
    IN /\ Bytes(dps) = made
       /\ phase = "csv" => Bytes(csv) = made
       /\ Len(file) = clock
       /\ \A i, j \in DOMAIN file :
            i < j /\ (i <= n <=> j <= n) => file[i][3].created < file[j][3].created

\* P99 is the worst 1%, rounded up: no point outside it is slower than one
\* inside, and it is never empty.  P50 and P90 are never empty either.
TailIsWorst ==
  LET s == picked.points
      n == Len(s)
  IN n > 0 =>
       /\ Stats(99, s).count = (n + 99) \div 100
       /\ \A p \in {50, 90, 99} : Stats(p, s).count > 0
       /\ \A p \in Percentiles :
            \A i \in 1..Cut(p, n) : Stats(p, s).count > 0 => High(s[i]) <= Stats(p, s).low

\* A higher percentile is over fewer points and never looks better, and the
\* figures of one percentile are ordered.
PercentilesNested ==
  LET s == picked.points IN
  \A p, q \in Percentiles :
    LET wide == Stats(p, s)
        tail == Stats(q, s)
    IN p < q /\ wide.count > 0 /\ tail.count > 0 =>
         /\ wide.count >= tail.count
         /\ wide.low <= tail.low /\ wide.avg <= tail.avg /\ wide.high = tail.high
         /\ wide.low <= wide.avg /\ wide.avg <= wide.high

\* The analysis of a file loses no point and adds none: what it sorts are the
\* points of the file that the filter lets through, each as often.
AnalysisComplete ==
  phase = "done" /\ command = "download" =>
    LET f == picked.filter
        Near(p) == \/ f = NoFilter
                   \/ {p.reader[1], p.reader[2]} \cap Matching[f] # {}
        lines   == {i \in DOMAIN file : Head(file[i]) = "0" /\ Near(file[i][3])}
    IN /\ Len(picked.points) = Cardinality(lines)
       /\ {picked.points[i] : i \in DOMAIN picked.points} = {file[i][3] : i \in lines}

\* Servers that took part in a test all have it, with times of their own, and
\* their answers are merged while the list may already be sorted.  Still no ID
\* is printed twice, the newest comes first, every line is what some server
\* said, and none is missing when nothing was on its way.
ListMerged ==
  phase = "done" /\ command = "list" =>
    /\ \A i, j \in DOMAIN printed :
         i < j => /\ printed[i][1] # printed[j][1]
                  /\ printed[i][2] >= printed[j][2]
    /\ \A i \in DOMAIN printed : \E a \in answers :
         printed[i][1] \in DOMAIN a[2] /\ a[2][printed[i][1]] = printed[i][2]
    /\ punctual => \A a \in answers :
         DOMAIN a[2] \subseteq {printed[i][1] : i \in DOMAIN printed}

(***************************************************************************)
(* What the documentation says and the code does not keep.                 *)
(***************************************************************************)

\* README.md:163, "Detailed analysis with all data points and errors".
ErrorsAnalyzed ==
  phase = "done" /\ command = "download" =>
    Len(readErrs) = Cardinality({i \in DOMAIN file : Head(file[i]) = "1"})
=============================================================================

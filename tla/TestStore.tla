------------------------------- MODULE TestStore -------------------------------
(***************************************************************************)
(* The files in which an hperf server keeps the data of saved tests        *)
(* (server/file.go, and newTest and sendAndSaveData in server/server.go):  *)
(* a directory of files named <ID>.<index>, written by the running tests,  *)
(* and removed, listed and streamed by handlers that know nothing of them. *)
(*                                                                         *)
(* Only newTest holds a lock.  Every call on the file system is a step; an *)
(* open file outlives its name, so names lead to inodes.  A batch of data  *)
(* points is one line, whose newline is written separately.                *)
(***************************************************************************)
EXTENDS Integers, Sequences, FiniteSets

CONSTANTS
  Tests,       \* the saved tests, Config.Save = true
  Requests,    \* the delete, list and download signals
  Kind,        \* Kind[r]: "delete", "list" or "get"
  IDs,         \* the test IDs
  ID,          \* ID[x]: the TestID of test or request x
  NoID,        \* the empty TestID, with which a delete removes everything
  Extends,     \* Extends[i]: the IDs that begin with the ID i, i included
  Duration,    \* the batches of a full test
  MaxRequests  \* bound: the requests that are sent

MaxIndex == Duration + 1
Names == [id : IDs, index : 1..MaxIndex]
None == <<>>

\* An inode is named after the os.Create that made it: the test, and its index.
Inodes == Tests \X (1..MaxIndex)

ASSUME TestStoreAssumption ==
  /\ Tests \cap Requests = {}
  /\ Kind \in [Requests -> {"delete", "list", "get"}]
  /\ \A t \in Tests : ID[t] \in IDs
  /\ \A r \in Requests : ID[r] \in IDs \cup {NoID}
  /\ Extends \in [IDs -> SUBSET IDs] /\ \A i \in IDs : i \in Extends[i]
  /\ Duration \in Nat /\ MaxRequests \in Nat

VARIABLES
  dir,      \* basePath exists
  disk,     \* disk[n]: the inode with the name n, or None
  lines,    \* lines[i]: the lines of inode i
  torn,     \* torn[i]: the line of inode i without its newline yet, if any
  testLock, \* the holder of testLock, a set of at most one
  pc,       \* pc[t]: where createAndRunTest is
  index,    \* index[t]: t.DataFileIndex
  file,     \* file[t]: the inode of t.DataFile, or None for nil
  batch,    \* batch[t]: batches generated
  found,    \* found[x]: the matches of Glob that x has yet to visit
  rpc,      \* rpc[r]: where the handler of r is
  input,    \* input[r]: the file a download is in, and the lines it has read
  reply,    \* reply[r]: the lines or names sent to the client
  failed,   \* failed[r]: SendError was called
  spoiled,  \* history: tests whose data somebody meant to remove
  sure      \* history: what was on disk when r started: the names, and the
            \* tests that were complete

diskVars == <<dir, disk, lines, torn>>
testVars == <<testLock, pc, index, file, batch>>
reqVars  == <<rpc, input, reply, failed, sure>>
vars == <<diskVars, testVars, reqVars, found, spoiled>>

Exists(n) == disk[n] # None

Init ==
  /\ dir = TRUE
  /\ disk = [n \in Names |-> None]
  /\ lines = [i \in Inodes |-> <<>>]
  /\ torn = [i \in Inodes |-> <<>>]
  /\ testLock = {}
  /\ pc = [t \in Tests |-> "idle"]
  /\ index = [t \in Tests |-> 0]
  /\ file = [t \in Tests |-> None]
  /\ batch = [t \in Tests |-> 0]
  /\ found = [x \in Tests \cup Requests |-> {}]
  /\ rpc = [r \in Requests |-> "idle"]
  /\ input = [r \in Requests |-> [inode |-> None, read |-> 0]]
  /\ reply = [r \in Requests |-> <<>>]
  /\ failed = [r \in Requests |-> FALSE]
  /\ spoiled = {}
  /\ sure = [r \in Requests |-> [names |-> {}, tests |-> {}]]

Goto(t, label) == pc' = [pc EXCEPT ![t] = label]
RGoto(r, label) == rpc' = [rpc EXCEPT ![r] = label]
Visit(x, n) == n \in found[x] /\ found' = [found EXCEPT ![x] = @ \ {n}]
Unlink(n) == disk' = [disk EXCEPT ![n] = None]

Line(t, b) == [test |-> t, batch |-> b]

-----------------------------------------------------------------------------
(* newTest: resetTestFiles, then newTestFile, under testLock *)

\* Fault: newTest leaves the old files alone.
StartKeeps(t) ==
  /\ pc[t] = "idle"
  /\ testLock = {}
  /\ testLock' = {t}
  /\ Goto(t, "reset")
  /\ UNCHANGED <<diskVars, index, file, batch, reqVars, found, spoiled>>

\* Glob(ID + "*") finds the files of every ID that begins with ID.
Start(t) ==
  /\ pc[t] = "idle"
  /\ testLock = {}
  /\ testLock' = {t}
  /\ found' = [found EXCEPT ![t] = {n \in Names : Exists(n) /\ n.id \in Extends[ID[t]]}]
  /\ Goto(t, "reset")
  /\ UNCHANGED <<diskVars, index, file, batch, reqVars, spoiled>>

\* Remove one match; a file that is gone is an error, which ends the loop.
Reset(t, n) ==
  /\ pc[t] = "reset"
  /\ n \in found[t]
  /\ Unlink(n)
  /\ found' = [found EXCEPT ![t] = IF Exists(n) THEN @ \ {n} ELSE {}]
  /\ spoiled' = spoiled \cup (IF n.id = ID[t] THEN {u \in Tests : ID[u] = n.id /\ u # t}
                                              ELSE {})
  /\ UNCHANGED <<dir, lines, torn, testVars, reqVars>>

\* Fault: newTestFile relies on the directory RunServer has made.
MkdirNot(t) ==
  /\ \/ pc[t] = "reset" /\ found[t] = {}
     \/ pc[t] = "save" /\ file[t] = None
  /\ index' = [index EXCEPT ![t] = @ + 1]
  /\ Goto(t, "create")
  /\ UNCHANGED <<diskVars, testLock, file, batch, reqVars, found, spoiled>>

\* newTestFile makes sure of the directory and takes the next index.
Mkdir(t) ==
  /\ \/ pc[t] = "reset" /\ found[t] = {}
     \/ pc[t] = "save" /\ file[t] = None
  /\ dir' = TRUE
  /\ index' = [index EXCEPT ![t] = @ + 1]
  /\ Goto(t, "create")
  /\ UNCHANGED <<disk, lines, torn, testLock, file, batch, reqVars, found, spoiled>>

\* os.Create truncates a file that exists, or makes an inode that nobody has
\* used, and fails without the directory.
\* newTest ignores the failure; sendAndSaveData goes on to its writes.
Create(t) ==
  /\ pc[t] = "create"
  /\ LET n == [id |-> ID[t], index |-> index[t]]
         i == IF Exists(n) THEN disk[n] ELSE <<t, index[t]>>
     IN IF dir
          THEN /\ disk' = [disk EXCEPT ![n] = i]
               /\ file' = [file EXCEPT ![t] = i]
               /\ lines' = [lines EXCEPT ![i] = <<>>]
               /\ torn' = [torn EXCEPT ![i] = <<>>]
          ELSE UNCHANGED <<disk, file, lines, torn>>
  /\ testLock' = testLock \ {t}
  /\ Goto(t, IF t \in testLock THEN "run" ELSE "write")
  /\ UNCHANGED <<dir, index, batch, reqVars, found, spoiled>>

-----------------------------------------------------------------------------
(* createAndRunTest: sendAndSaveData, once a second *)

\* Fault: the duration is not looked at.
GenerateForever(t) ==
  /\ pc[t] = "run"
  /\ batch' = [batch EXCEPT ![t] = @ + 1]
  /\ Goto(t, "save")
  /\ UNCHANGED <<diskVars, testLock, index, file, reqVars, found, spoiled>>

Generate(t) ==
  /\ pc[t] = "run"
  /\ batch[t] < Duration
  /\ batch' = [batch EXCEPT ![t] = @ + 1]
  /\ Goto(t, "save")
  /\ UNCHANGED <<diskVars, testLock, index, file, reqVars, found, spoiled>>

\* The prefix and the data point; on a nil file the writes do nothing.
WriteLine(t) ==
  /\ pc[t] = "write" \/ (pc[t] = "save" /\ file[t] # None)
  /\ torn' = IF file[t] = None THEN torn
             ELSE [torn EXCEPT ![file[t]] = <<Line(t, batch[t])>>]
  /\ Goto(t, "newline")
  /\ UNCHANGED <<dir, disk, lines, testLock, index, file, batch, reqVars, found, spoiled>>

WriteNewline(t) ==
  /\ pc[t] = "newline"
  /\ IF file[t] = None
       THEN UNCHANGED <<lines, torn>>
       ELSE /\ lines' = [lines EXCEPT ![file[t]] = @ \o torn[file[t]]]
            /\ torn' = [torn EXCEPT ![file[t]] = <<>>]
  /\ Goto(t, "run")
  /\ UNCHANGED <<dir, disk, testLock, index, file, batch, reqVars, found, spoiled>>

\* The duration is over, or somebody has stopped the test.
End(t) ==
  /\ pc[t] = "run"
  /\ Goto(t, "done")
  /\ UNCHANGED <<diskVars, testLock, index, file, batch, reqVars, found, spoiled>>

-----------------------------------------------------------------------------
(* The handlers of delete, list and download requests *)

OnDisk == {n \in Names : Exists(n)}

\* Only MaxRequests of the requests are sent, whichever they are.
MayAsk == Cardinality({r \in Requests : rpc[r] # "idle"}) < MaxRequests

\* The tests that are over and whose data nobody meant to remove.
Kept == {t \in Tests : pc[t] = "done" /\ t \notin spoiled}

\* deleteTestsFromDisk without an ID begins with os.RemoveAll(basePath).
RemoveAll(r) ==
  /\ rpc[r] = "idle" /\ MayAsk
  /\ Kind[r] = "delete" /\ ID[r] = NoID
  /\ dir' = FALSE
  /\ disk' = [n \in Names |-> None]
  /\ spoiled' = spoiled \cup {t \in Tests : pc[t] # "idle"}
  /\ RGoto(r, "visit")
  /\ UNCHANGED <<lines, torn, testVars, input, reply, failed, sure, found>>

\* Glob: the files of the ID, or the first file of every test.
Glob(r) ==
  /\ rpc[r] = "idle" /\ MayAsk
  /\ Kind[r] = "list" \/ ID[r] # NoID
  /\ found' = [found EXCEPT ![r] =
                 {n \in OnDisk : IF Kind[r] = "list" THEN n.index = 1
                                                    ELSE n.id = ID[r]}]
  /\ sure' = [sure EXCEPT ![r] = [names |-> OnDisk, tests |-> Kept]]
  /\ RGoto(r, "visit")
  /\ UNCHANGED <<diskVars, testVars, input, reply, failed, spoiled>>

\* os.Remove; an error is reported, and the loop goes on.
Remove(r, n) ==
  /\ rpc[r] = "visit" /\ Kind[r] = "delete"
  /\ Visit(r, n)
  /\ Unlink(n)
  /\ failed' = [failed EXCEPT ![r] = @ \/ ~Exists(n)]
  /\ spoiled' = spoiled \cup {t \in Tests : ID[t] = n.id /\ pc[t] # "idle"}
  /\ UNCHANGED <<dir, lines, torn, testVars, rpc, input, reply, sure>>

\* Fault: a file that is gone is looked for again and again.
StatRetries(r, n) ==
  /\ rpc[r] = "visit" /\ Kind[r] = "list"
  /\ IF Exists(n)
       THEN Visit(r, n) /\ reply' = [reply EXCEPT ![r] = Append(@, n)]
       ELSE n \in found[r] /\ UNCHANGED <<found, reply>>
  /\ UNCHANGED <<diskVars, testVars, rpc, failed, input, sure, spoiled>>

\* os.Stat; an error ends the listing, and no list is sent.
Stat(r, n) ==
  /\ rpc[r] = "visit" /\ Kind[r] = "list"
  /\ Visit(r, n)
  /\ IF Exists(n)
       THEN reply' = [reply EXCEPT ![r] = Append(@, n)] /\ UNCHANGED <<failed, rpc>>
       ELSE /\ failed' = [failed EXCEPT ![r] = TRUE]
            /\ reply' = [reply EXCEPT ![r] = <<>>]
            /\ RGoto(r, "done")
  /\ UNCHANGED <<diskVars, testVars, input, sure, spoiled>>

\* os.Open; an error ends the download.
Open(r, n) ==
  /\ rpc[r] = "visit" /\ Kind[r] = "get"
  /\ Visit(r, n)
  /\ IF Exists(n)
       THEN /\ input' = [input EXCEPT ![r] = [inode |-> disk[n], read |-> 0]]
            /\ RGoto(r, "scan")
            /\ UNCHANGED failed
       ELSE /\ failed' = [failed EXCEPT ![r] = TRUE]
            /\ RGoto(r, "done")
            /\ UNCHANGED input
  /\ UNCHANGED <<diskVars, testVars, reply, sure, spoiled>>

\* Fault: the scanner has moved on when its line is sent.
ScanSkips(r) ==
  LET f == input[r] IN
  /\ rpc[r] = "scan"
  /\ f.read + 1 < Len(lines[f.inode])
  /\ reply' = [reply EXCEPT ![r] = Append(@, lines[f.inode][f.read + 2])]
  /\ input' = [input EXCEPT ![r].read = @ + 2]
  /\ UNCHANGED <<diskVars, testVars, rpc, failed, sure, found, spoiled>>

\* The scanner finds another line, which is sent.
Scan(r) ==
  LET f == input[r] IN
  /\ rpc[r] = "scan"
  /\ f.read < Len(lines[f.inode])
  /\ reply' = [reply EXCEPT ![r] = Append(@, lines[f.inode][f.read + 1])]
  /\ input' = [input EXCEPT ![r].read = @ + 1]
  /\ UNCHANGED <<diskVars, testVars, rpc, failed, sure, found, spoiled>>

\* Fault: the scanner gives up in the middle of a file.
ScanEndEarly(r) ==
  /\ rpc[r] = "scan"
  /\ input' = [input EXCEPT ![r] = [inode |-> None, read |-> 0]]
  /\ RGoto(r, "visit")
  /\ UNCHANGED <<diskVars, testVars, reply, failed, sure, found, spoiled>>

\* The end of the file.  A line without its newline is sent as it is, with
\* as much of it as has been written.
ScanEnd(r) ==
  LET f == input[r] IN
  /\ rpc[r] = "scan"
  /\ f.read >= Len(lines[f.inode])
  /\ reply' = [reply EXCEPT ![r] = @ \o torn[f.inode]]
  /\ input' = [input EXCEPT ![r] = [inode |-> None, read |-> 0]]
  /\ RGoto(r, "visit")
  /\ UNCHANGED <<diskVars, testVars, failed, sure, found, spoiled>>

\* Fault: Done is sent before the files have been visited.
AnswerEarly(r) ==
  /\ rpc[r] = "visit"
  /\ RGoto(r, "done")
  /\ UNCHANGED <<diskVars, testVars, input, reply, failed, sure, found, spoiled>>

\* Every match has been visited: the reply, and Done.
Answer(r) ==
  /\ rpc[r] = "visit"
  /\ found[r] = {}
  /\ RGoto(r, "done")
  /\ UNCHANGED <<diskVars, testVars, input, reply, failed, sure, found, spoiled>>

-----------------------------------------------------------------------------
TestStep(t) ==
  \/ Mkdir(t) \/ Create(t) \/ Generate(t) \/ WriteLine(t) \/ WriteNewline(t)
  \/ End(t) \/ \E n \in found[t] : Reset(t, n)

RequestStep(r) ==
  \/ Scan(r) \/ ScanEnd(r) \/ Answer(r)
  \/ \E n \in found[r] : Remove(r, n) \/ Stat(r, n) \/ Open(r, n)

Terminated ==
  /\ \A t \in Tests : pc[t] = "done"
  /\ \A r \in Requests : rpc[r] = "done" \/ (rpc[r] = "idle" /\ ~MayAsk)
  /\ UNCHANGED vars

Next ==
  \/ \E t \in Tests : Start(t) \/ TestStep(t)
  \/ \E r \in Requests : RemoveAll(r) \/ Glob(r) \/ RequestStep(r)
  \/ Terminated

Spec == Init /\ [][Next]_vars

\* Goroutines run; nobody has to start a test or send a request.
FairSpec ==
  /\ Spec
  /\ \A t \in Tests : WF_vars(TestStep(t))
  /\ \A r \in Requests : WF_vars(RequestStep(r))

-----------------------------------------------------------------------------
(* Properties *)

\* Every variable holds values of its Go type.
TypeOK ==
  /\ dir \in BOOLEAN
  /\ disk \in [Names -> Inodes \cup {None}]
  /\ lines \in [Inodes -> Seq([test : Tests, batch : 1..Duration])]
  /\ torn \in [Inodes -> Seq([test : Tests, batch : 1..Duration])]
  /\ testLock \subseteq Tests
  /\ pc \in [Tests -> {"idle", "reset", "create", "run", "save", "write",
                       "newline", "done"}]
  /\ index \in [Tests -> 0..MaxIndex]
  /\ file \in [Tests -> Inodes \cup {None}]
  /\ batch \in [Tests -> 0..Duration]
  /\ found \in [Tests \cup Requests -> SUBSET Names]
  /\ rpc \in [Requests -> {"idle", "visit", "scan", "done"}]
  /\ input \in [Requests -> [inode : Inodes \cup {None}, read : Nat]]
  /\ reply \in [Requests -> Seq(Names \cup [test : Tests, batch : 1..Duration])]
  /\ failed \in [Requests -> BOOLEAN]
  /\ spoiled \subseteq Tests
  /\ sure \in [Requests -> [names : SUBSET Names, tests : SUBSET Tests]]

\* The lines of test t that are in files with its ID.
Saved(t) ==
  LET onDisk == UNION {{lines[disk[n]][i] : i \in DOMAIN lines[disk[n]]} :
                         n \in {m \in OnDisk : m.id = ID[t]}}
  IN onDisk \cap {Line(t, b) : b \in 1..Duration}

\* What has been written to inode i.
Content(i) == lines[i] \o torn[i]

\* The data of a test that is over is all on disk, unless somebody meant to
\* remove it: by a delete, or by running a test with the same ID again.
SavedComplete ==
  \A t \in Kept : Saved(t) = {Line(t, b) : b \in 1..batch[t]}

\* No file has been opened by two tests.
Apart == \A t, u \in Tests : file[t] # None /\ file[t] = file[u] => t = u

\* No inode is written by two tests: even tests with one ID, whose file has
\* one name, never mix their lines, as newTest removes the old file before it
\* creates its own.  Deletes of everything can break this: a test that found no
\* directory takes its second index later, without removing anything; and so can
\* an ID that is the beginning of another: a reset that meets a file that is
\* gone ends without removing the others (file.go:120-123).
OneWriter ==
  (\A r \in Requests : Kind[r] = "delete" /\ ID[r] = NoID => rpc[r] = "idle") => Apart

\* A download sends the lines of a test in the order they were written, from
\* the first one in its file on, none twice and none left out, even while the
\* test writes to the file and other handlers unlink it; unless two tests have
\* written to one file.
DownloadInOrder ==
  Apart =>
    \A r \in Requests : Kind[r] = "get" =>
      \A i \in DOMAIN reply[r] :
        LET line == reply[r][i] IN
        \/ i > 1 /\ reply[r][i - 1] = Line(line.test, line.batch - 1)
        \/ /\ \A j \in 1..(i - 1) : reply[r][j].test # line.test
           /\ line = Content(file[line.test])[1]

\* A download that reports no error has all the data of every test of its ID
\* that was complete when it started and that nobody meant to remove.
DownloadComplete ==
  \A r \in Requests : Kind[r] = "get" /\ rpc[r] = "done" /\ ~failed[r] =>
    \A t \in sure[r].tests \ spoiled : ID[t] = ID[r] =>
      \A b \in 1..batch[t] : \E i \in DOMAIN reply[r] : reply[r][i] = Line(t, b)

\* A delete that has answered, with or without errors, has removed every file
\* of its ID that was there when it started, unless a test that was not over
\* then has created it anew.
DeleteComplete ==
  \A r \in Requests : Kind[r] = "delete" /\ rpc[r] = "done" =>
    \A n \in sure[r].names \cap OnDisk : n.id = ID[r] =>
      \E t \in Tests : ID[t] = n.id /\ t \notin sure[r].tests /\ pc[t] # "idle"

\* Every request is answered, and every test that is started ends.
Answered ==
  /\ \A r \in Requests : rpc[r] = "visit" ~> rpc[r] = "done"
  /\ \A t \in Tests : pc[t] = "reset" ~> pc[t] = "done"
=============================================================================

---------------------------- MODULE TestStore_proofs ----------------------------
(***************************************************************************)
(* Proofs about TestStore, for any tests, requests and duration.           *)
(***************************************************************************)
EXTENDS TestStore, TLAPS

-----------------------------------------------------------------------------
(* Types *)

Stages == {"idle", "reset", "create", "run", "save", "write", "newline", "done"}

\* Where a test has its first file behind it.
Past == {"run", "save", "write", "newline", "done"}

\* What the label of a test says of its counters, and of testLock: newTest
\* holds the lock until it has created the first file, and a further file is
\* created by a test that has a batch to save and no file.  And a handler scans
\* a file that it has opened.
Counting ==
  /\ \A t \in Tests :
       /\ pc[t] \in {"idle", "reset"} => index[t] = 0 /\ batch[t] = 0 /\ file[t] = None
       /\ index[t] <= batch[t] + 1
       /\ pc[t] \in {"save", "write", "newline"} => batch[t] >= 1
       /\ pc[t] = "save" => index[t] <= batch[t]
       /\ pc[t] \in Past => index[t] >= 1
       /\ pc[t] = "create" => IF t \in testLock THEN index[t] = 1 /\ batch[t] = 0
                                                ELSE index[t] >= 2
       /\ pc[t] = "reset" => t \in testLock
       /\ t \in testLock => pc[t] \in {"reset", "create"}
  /\ \A t, u \in testLock : t = u
  /\ \A r \in Requests : rpc[r] = "scan" => input[r].inode \in Inodes

TypeInv == TypeOK /\ Counting

-----------------------------------------------------------------------------
(* Deletes *)

\* Before a request is sent nothing is known of the disk; the tests that were
\* complete stay so; a delete has yet to visit what was there and still is,
\* unless a test is about to write it anew.
Deleting ==
  \A r \in Requests :
    /\ rpc[r] = "idle" => found[r] = {} /\ sure[r].names = {} /\ sure[r].tests = {}
    /\ rpc[r] = "scan" => Kind[r] = "get"
    /\ \A t \in sure[r].tests : pc[t] = "done"
    /\ Kind[r] = "delete" /\ rpc[r] \in {"visit", "done"} =>
         \A n \in sure[r].names \cap OnDisk : n.id = ID[r] =>
           \/ rpc[r] = "visit" /\ n \in found[r]
           \/ \E t \in Tests : ID[t] = n.id /\ t \notin sure[r].tests /\ pc[t] # "idle"

-----------------------------------------------------------------------------
(* Inodes and their names *)

\* No ID is the beginning of another one.
IDsApart == \A i \in IDs : Extends[i] = {i}

Own(t)   == <<t, 1>>
First(t) == [id |-> ID[t], index |-> 1]

\* The inodes that have been made.
Made == {i \in Inodes : /\ i[2] <= index[i[1]]
                        /\ pc[i[1]] = "create" => i[2] # index[i[1]]}

\* An inode keeps the name it was made with; a file that newTest has yet to
\* remove has the ID of its test; and no line is from a batch still to come.
Naming ==
  /\ \A n \in Names : Exists(n) =>
       /\ disk[n] \in Made
       /\ disk[n][2] = n.index
       /\ ID[disk[n][1]] = n.id
  /\ \A t \in Tests : file[t] # None => file[t] \in Made
  /\ \A t \in Tests : \A n \in found[t] : n.id = ID[t]
  /\ \A i \in Inodes :
       /\ \A j \in DOMAIN lines[i] : lines[i][j].batch <= batch[lines[i][j].test]
       /\ \A j \in DOMAIN torn[i] : torn[i][j].batch <= batch[torn[i][j].test]

-----------------------------------------------------------------------------
(* One writer *)

NoWipe == \A r \in Requests : Kind[r] = "delete" /\ ID[r] = NoID => rpc[r] = "idle"

\* As long as nobody has deleted everything, every test gets its first file, of
\* its own, and never another.
OwnFile(t) ==
  /\ \A n \in found[t] : n.index = 1
  /\ pc[t] \in Past => file[t] = Own(t)
  /\ pc[t] \notin Past => file[t] = None
  /\ pc[t] = "reset" => (Exists(First(t)) => First(t) \in found[t])
  /\ pc[t] = "create" => t \in testLock /\ ~Exists(First(t))

OwnFiles ==
  NoWipe => /\ dir
            /\ \A n \in Names : Exists(n) => n.index = 1
            /\ \A t \in Tests : OwnFile(t)

-----------------------------------------------------------------------------
(* Nothing is lost *)

\* The batches of t that its file has whole lines of.
Ended(t) == IF pc[t] \in {"save", "newline"} THEN batch[t] - 1 ELSE batch[t]

\* What newTest has found is still there.
Untouched(u) == \A n \in found[u] : Exists(n)

\* The file of t has everything in it, and is written by t alone.
Written(t) ==
  /\ pc[t] # "write"
  /\ file[t] = Own(t) /\ disk[First(t)] = Own(t)
  /\ \A u \in Tests : file[u] = Own(t) => u = t
  /\ torn[Own(t)] = IF pc[t] = "newline" THEN <<Line(t, batch[t])>> ELSE <<>>
  /\ \A b \in 1..Ended(t) : \E j \in DOMAIN lines[Own(t)] : lines[Own(t)][j] = Line(t, b)

\* A test of the same ID that is being made will remove the file of t.
Threatened(t) ==
  \A u \in testLock : ID[u] = ID[t] =>
    pc[u] = "reset" /\ Untouched(u) /\ First(t) \in found[u]

\* A test whose data nobody meant to remove makes its own first file, and what
\* it has saved is there.
Preserved(t) ==
  /\ pc[t] = "reset" => Untouched(t) /\ (Exists(First(t)) => First(t) \in found[t])
  /\ pc[t] = "create" => t \in testLock /\ ~Exists(First(t)) /\ dir
  /\ pc[t] \in Past => Written(t) /\ Threatened(t)

Preserving == \A t \in Tests \ spoiled : Preserved(t)

-----------------------------------------------------------------------------
(* Types and counters are an invariant *)

Lines == [test : Tests, batch : 1..Duration]
Replies == Seq(Names \cup Lines)

LEMMA InitType == Init => TypeInv
<1> SUFFICES ASSUME Init PROVE TypeInv
  OBVIOUS
<1>1. /\ dir \in BOOLEAN
      /\ disk \in [Names -> Inodes \cup {None}]
      /\ lines \in [Inodes -> Seq(Lines)]
      /\ torn \in [Inodes -> Seq(Lines)]
      /\ testLock \subseteq Tests
  BY DEF Init
<1>2. /\ pc \in [Tests -> Stages]
      /\ index \in [Tests -> 0..MaxIndex]
      /\ file \in [Tests -> Inodes \cup {None}]
      /\ batch \in [Tests -> 0..Duration]
      /\ found \in [Tests \cup Requests -> SUBSET Names]
  BY TestStoreAssumption DEF Init, Stages, MaxIndex
<1>3. /\ rpc \in [Requests -> {"idle", "visit", "scan", "done"}]
      /\ input \in [Requests -> [inode : Inodes \cup {None}, read : Nat]]
      /\ failed \in [Requests -> BOOLEAN]
      /\ reply \in [Requests -> Replies]
      /\ spoiled \subseteq Tests
      /\ sure \in [Requests -> [names : SUBSET Names, tests : SUBSET Tests]]
  BY DEF Init, Replies
<1>4. Counting
  BY DEF Init, Counting, Past
<1> QED BY <1>1, <1>2, <1>3, <1>4 DEF TypeInv, TypeOK, Lines, Stages, Replies

LEMMA TestType ==
  ASSUME TypeInv, NEW t \in Tests, Start(t) \/ TestStep(t)
  PROVE  TypeOK'
<1> USE DEF TypeInv, TypeOK, diskVars, testVars, reqVars, Goto
<1>0. Duration \in Nat /\ MaxIndex = Duration + 1 /\ ID[t] \in IDs
  BY TestStoreAssumption DEF MaxIndex
<1>1. CASE Start(t)
  BY <1>1 DEF Start
<1>2. ASSUME NEW n \in found[t], Reset(t, n) PROVE TypeOK'
  <2>1. /\ disk' \in [Names -> Inodes \cup {None}]
        /\ found' \in [Tests \cup Requests -> SUBSET Names]
    BY <1>2 DEF Reset, Unlink
  <2>2. spoiled' \subseteq Tests
    BY <1>2 DEF Reset
  <2> QED BY <1>2, <2>1, <2>2 DEF Reset
<1>3. CASE Mkdir(t)
  <2>1. index[t] \in Nat /\ batch[t] \in 0..Duration /\ index[t] + 1 <= MaxIndex
    <3>1. index[t] \in Nat /\ batch[t] \in 0..Duration
      BY <1>0
    <3>2. CASE pc[t] = "reset"
      BY <1>0, <3>1, <3>2 DEF Counting
    <3>3. CASE pc[t] = "save"
      BY <1>0, <3>1, <3>3 DEF Counting
    <3> QED BY <1>3, <3>1, <3>2, <3>3 DEF Mkdir
  <2>2. index' \in [Tests -> 0..MaxIndex]
    BY <1>0, <1>3, <2>1 DEF Mkdir
  <2> QED BY <1>3, <2>2 DEF Mkdir
<1>4. CASE Create(t)
  <2> DEFINE n == [id |-> ID[t], index |-> index[t]]
             i == IF Exists(n) THEN disk[n] ELSE <<t, index[t]>>
  <2>1. index[t] \in 1..MaxIndex
    BY <1>0, <1>4 DEF Create, Counting
  <2>2. n \in Names /\ i \in Inodes
    BY <1>0, <2>1 DEF Names, Inodes, Exists
  <2>3. \/ /\ disk' = [disk EXCEPT ![n] = i]
           /\ file' = [file EXCEPT ![t] = i]
           /\ lines' = [lines EXCEPT ![i] = <<>>]
           /\ torn' = [torn EXCEPT ![i] = <<>>]
        \/ UNCHANGED <<disk, file, lines, torn>>
    BY <1>4 DEF Create
  <2>4. /\ disk' \in [Names -> Inodes \cup {None}]
        /\ file' \in [Tests -> Inodes \cup {None}]
        /\ lines' \in [Inodes -> Seq(Lines)]
        /\ torn' \in [Inodes -> Seq(Lines)]
    <3>1. /\ disk \in [Names -> Inodes \cup {None}]
          /\ file \in [Tests -> Inodes \cup {None}]
          /\ lines \in [Inodes -> Seq(Lines)]
          /\ torn \in [Inodes -> Seq(Lines)]
      BY DEF Lines
    <3>2. <<>> \in Seq(Lines)
      OBVIOUS
    <3> HIDE DEF n, i, TypeInv, TypeOK
    <3> QED BY <2>2, <2>3, <3>1, <3>2
  <2> QED BY <1>4, <2>4 DEF Create, Lines
<1>5. CASE Generate(t)
  <2>1. batch[t] \in 0..Duration /\ batch[t] < Duration
    BY <1>5 DEF Generate
  <2>2. batch' \in [Tests -> 0..Duration]
    BY <1>0, <1>5, <2>1 DEF Generate
  <2> QED BY <1>5, <2>2 DEF Generate
<1>6. CASE WriteLine(t)
  <2>1. batch[t] \in 1..Duration
    BY <1>0, <1>6 DEF WriteLine, Counting
  <2>2. <<Line(t, batch[t])>> \in Seq(Lines)
    BY <2>1 DEF Line, Lines
  <2>3. torn' \in [Inodes -> Seq(Lines)]
    BY <1>6, <2>2 DEF WriteLine, Lines
  <2> QED BY <1>6, <2>3 DEF WriteLine, Lines
<1>7. CASE WriteNewline(t)
  <2>1. lines' \in [Inodes -> Seq(Lines)] /\ torn' \in [Inodes -> Seq(Lines)]
    <3>1. CASE file[t] = None
      BY <1>7, <3>1 DEF WriteNewline, Lines
    <3>2. CASE file[t] # None
      <4>1. file[t] \in Inodes
        BY <3>2
      <4>2. lines \in [Inodes -> Seq(Lines)] /\ torn \in [Inodes -> Seq(Lines)]
        BY DEF Lines
      <4>3. /\ lines' = [lines EXCEPT ![file[t]] = @ \o torn[file[t]]]
            /\ torn' = [torn EXCEPT ![file[t]] = <<>>]
        BY <1>7, <3>2 DEF WriteNewline
      <4>4. <<>> \in Seq(Lines)
        OBVIOUS
      <4> HIDE DEF TypeInv, TypeOK
      <4>5. lines[file[t]] \o torn[file[t]] \in Seq(Lines)
        BY <4>1, <4>2
      <4> QED BY <4>1, <4>2, <4>3, <4>4, <4>5
    <3> QED BY <3>1, <3>2
  <2> QED BY <1>7, <2>1 DEF WriteNewline, Lines
<1>8. CASE End(t)
  BY <1>8 DEF End
<1> QED BY <1>1, <1>2, <1>3, <1>4, <1>5, <1>6, <1>7, <1>8 DEF TestStep

LEMMA TestCounting ==
  ASSUME TypeInv, NEW t \in Tests, Start(t) \/ TestStep(t)
  PROVE  Counting'
<1> USE DEF TypeInv, TypeOK, Counting, Past, diskVars, testVars, reqVars, Goto
<1>0. /\ Duration \in Nat /\ pc \in [Tests -> Stages]
      /\ index \in [Tests -> Nat] /\ batch \in [Tests -> Nat]
      /\ file \in [Tests -> Inodes \cup {None}]
  BY TestStoreAssumption DEF MaxIndex, Stages
<1>1. CASE Start(t)
  BY <1>0, <1>1 DEF Start
<1>2. ASSUME NEW n \in found[t], Reset(t, n) PROVE Counting'
  BY <1>2 DEF Reset
<1>3. CASE Mkdir(t)
  BY <1>0, <1>3 DEF Mkdir
<1>4. CASE Create(t)
  <2>1. \A u \in Tests : u # t => file'[u] = file[u]
    BY <1>0, <1>4 DEF Create
  <2>2. /\ testLock' = testLock \ {t} /\ UNCHANGED <<index, batch>>
        /\ pc[t] = "create"
        /\ pc' = [pc EXCEPT ![t] = IF t \in testLock THEN "run" ELSE "write"]
    BY <1>4 DEF Create
  <2>3. UNCHANGED <<rpc, input>>
    BY <1>4 DEF Create
  <2> QED BY <1>0, <2>1, <2>2, <2>3
<1>5. CASE Generate(t)
  BY <1>0, <1>5 DEF Generate
<1>6. CASE WriteLine(t)
  BY <1>0, <1>6 DEF WriteLine
<1>7. CASE WriteNewline(t)
  BY <1>0, <1>7 DEF WriteNewline
<1>8. CASE End(t)
  BY <1>0, <1>8 DEF End
<1> QED BY <1>1, <1>2, <1>3, <1>4, <1>5, <1>6, <1>7, <1>8 DEF TestStep

LEMMA RequestType ==
  ASSUME TypeInv, NEW r \in Requests, RemoveAll(r) \/ Glob(r) \/ RequestStep(r)
  PROVE  TypeInv'
<1> USE DEF TypeInv, TypeOK, diskVars, testVars, reqVars, RGoto
<1>1. CASE RemoveAll(r)
  <2>1. disk' \in [Names -> Inodes \cup {None}] /\ spoiled' \subseteq Tests
    BY <1>1 DEF RemoveAll
  <2> QED BY <1>1, <2>1 DEF RemoveAll, Counting
<1>2. CASE Glob(r)
  <2>1. /\ found' \in [Tests \cup Requests -> SUBSET Names]
        /\ sure' \in [Requests -> [names : SUBSET Names, tests : SUBSET Tests]]
    BY <1>2 DEF Glob, OnDisk, Kept
  <2>2. Counting'
    BY <1>2 DEF Glob, Counting
  <2> QED BY <1>2, <2>1, <2>2 DEF Glob
<1>3. ASSUME NEW n \in found[r], Remove(r, n) PROVE TypeInv'
  <2>1. /\ disk' \in [Names -> Inodes \cup {None}] /\ spoiled' \subseteq Tests
        /\ found' \in [Tests \cup Requests -> SUBSET Names]
    BY <1>3 DEF Remove, Visit, Unlink
  <2>2. failed' \in [Requests -> BOOLEAN]
    BY <1>3 DEF Remove
  <2> QED BY <1>3, <2>1, <2>2 DEF Remove, Counting
<1>4. ASSUME NEW n \in found[r], Stat(r, n) PROVE TypeInv'
  <2>1. found' \in [Tests \cup Requests -> SUBSET Names]
    BY <1>4 DEF Stat, Visit
  <2>2. failed' \in [Requests -> BOOLEAN] /\ rpc' \in [Requests -> {"idle", "visit", "scan", "done"}]
    BY <1>4 DEF Stat
  <2>3. reply' \in [Requests -> Replies]
    <3>1. \E s \in {<<>>, Append(reply[r], n)} : reply' = [reply EXCEPT ![r] = s]
      BY <1>4 DEF Stat
    <3>2. reply \in [Requests -> Replies] /\ n \in Names
      BY DEF Replies, Lines
    <3>3. <<>> \in Replies /\ Append(reply[r], n) \in Replies
      BY <3>2 DEF Replies
    <3> HIDE DEF TypeInv, TypeOK
    <3> QED BY <3>1, <3>2, <3>3
  <2>4. Counting'
    BY <1>4 DEF Stat, Counting
  <2> QED BY <1>4, <2>1, <2>2, <2>3, <2>4 DEF Stat, Replies, Lines
<1>5. ASSUME NEW n \in found[r], Open(r, n) PROVE TypeInv'
  <2>1. found' \in [Tests \cup Requests -> SUBSET Names]
    BY <1>5 DEF Open, Visit
  <2>2. /\ failed' \in [Requests -> BOOLEAN]
        /\ rpc' \in [Requests -> {"idle", "visit", "scan", "done"}]
    BY <1>5 DEF Open
  <2>3. input' \in [Requests -> [inode : Inodes \cup {None}, read : Nat]]
    <3>1. input' = input \/ input' = [input EXCEPT ![r] = [inode |-> disk[n], read |-> 0]]
      BY <1>5 DEF Open
    <3>2. disk[n] \in Inodes \cup {None}
      OBVIOUS
    <3>3. input \in [Requests -> [inode : Inodes \cup {None}, read : Nat]]
      OBVIOUS
    <3> HIDE DEF TypeInv, TypeOK
    <3>4. [inode |-> disk[n], read |-> 0] \in [inode : Inodes \cup {None}, read : Nat]
      BY <3>2
    <3> QED BY <3>1, <3>3, <3>4
  <2>4. Counting'
    <3>1. ASSUME NEW q \in Requests, rpc'[q] = "scan" PROVE input'[q].inode \in Inodes
      <4>1. CASE q # r
        BY <1>5, <3>1, <4>1 DEF Open, Counting
      <4>2. CASE q = r
        <5>1. Exists(n) /\ disk[n] \in Inodes
          BY <1>5, <3>1, <4>2 DEF Open, Exists
        <5>2. input' = [input EXCEPT ![r] = [inode |-> disk[n], read |-> 0]]
          BY <1>5, <5>1 DEF Open
        <5> QED BY <4>2, <5>1, <5>2
      <4> QED BY <4>1, <4>2
    <3>2. UNCHANGED testVars
      BY <1>5 DEF Open
    <3> QED BY <3>1, <3>2 DEF Counting
  <2> QED BY <1>5, <2>1, <2>2, <2>3, <2>4 DEF Open
<1>6. CASE Scan(r)
  <2>1. input' \in [Requests -> [inode : Inodes \cup {None}, read : Nat]]
    <3>1. input \in [Requests -> [inode : Inodes \cup {None}, read : Nat]]
      OBVIOUS
    <3>2. input' = [input EXCEPT ![r].read = @ + 1]
      BY <1>6 DEF Scan
    <3> HIDE DEF TypeInv, TypeOK
    <3>3. input[r].read + 1 \in Nat
      BY <3>1
    <3>4. [input[r] EXCEPT !.read = @ + 1] \in [inode : Inodes \cup {None}, read : Nat]
      BY <3>1, <3>3
    <3> QED BY <3>1, <3>2, <3>4
  <2>2. reply' \in [Requests -> Replies]
    <3> DEFINE next == lines[input[r].inode][input[r].read + 1]
    <3>1. reply' = [reply EXCEPT ![r] = Append(@, next)]
      BY <1>6 DEF Scan
    <3>2. reply \in [Requests -> Replies] /\ lines \in [Inodes -> Seq(Lines)]
      BY DEF Replies, Lines
    <3>3. input[r].inode \in Inodes /\ input[r].read \in Nat
      BY <1>6 DEF Scan, Counting
    <3>4. next \in Lines
      BY <1>6, <3>2, <3>3 DEF Scan
    <3> HIDE DEF TypeInv, TypeOK, next
    <3>5. Append(reply[r], next) \in Replies
      BY <3>2, <3>4 DEF Replies
    <3> QED BY <3>1, <3>2, <3>5
  <2>3. Counting'
    BY <1>6 DEF Scan, Counting
  <2> QED BY <1>6, <2>1, <2>2, <2>3 DEF Scan, Replies, Lines
<1>7. CASE ScanEnd(r)
  <2>1. reply' \in [Requests -> Replies]
    <3> DEFINE rest == torn[input[r].inode]
    <3>1. reply' = [reply EXCEPT ![r] = @ \o rest]
      BY <1>7 DEF ScanEnd
    <3>2. reply \in [Requests -> Replies] /\ torn \in [Inodes -> Seq(Lines)]
      BY DEF Replies, Lines
    <3>3. rest \in Seq(Names \cup Lines)
      BY <1>7, <3>2 DEF ScanEnd, Counting
    <3> HIDE DEF TypeInv, TypeOK, rest
    <3>4. reply[r] \o rest \in Replies
      BY <3>2, <3>3 DEF Replies
    <3> QED BY <3>1, <3>2, <3>4
  <2>2. Counting'
    BY <1>7 DEF ScanEnd, Counting
  <2> QED BY <1>7, <2>1, <2>2 DEF ScanEnd, Replies, Lines
<1>8. CASE Answer(r)
  BY <1>8 DEF Answer, Counting
<1> QED BY <1>1, <1>2, <1>3, <1>4, <1>5, <1>6, <1>7, <1>8 DEF RequestStep

LEMMA StutterType == TypeInv /\ UNCHANGED vars => TypeInv'
BY DEF vars, diskVars, testVars, reqVars, TypeInv, TypeOK, Counting

LEMMA StepType == TypeInv /\ [Next]_vars => TypeInv'
BY TestType, TestCounting, RequestType, StutterType DEF Next, Terminated, TypeInv

LEMMA TypeInvariance == Spec => []TypeInv
BY InitType, StepType, PTL DEF Spec

-----------------------------------------------------------------------------
(* Deletes do not miss a file *)

LEMMA InitDeleting == Init => Deleting
BY DEF Init, Deleting

\* A test that starts or runs again may make a file that a delete has removed.
LEMMA TestDeleting ==
  ASSUME TypeInv, Deleting, NEW t \in Tests, Start(t) \/ TestStep(t)
  PROVE  Deleting'
<1>0. /\ pc \in [Tests -> Stages] /\ disk \in [Names -> Inodes \cup {None}]
      /\ found \in [Tests \cup Requests -> SUBSET Names]
      /\ Tests \cap Requests = {}
      /\ sure \in [Requests -> [names : SUBSET Names, tests : SUBSET Tests]]
  BY TestStoreAssumption DEF TypeInv, TypeOK, Stages
<1>1. UNCHANGED <<rpc, sure>> /\ \A r \in Requests : found'[r] = found[r]
  BY <1>0 DEF Start, TestStep, Reset, Mkdir, Create, Generate, WriteLine, WriteNewline, End,
     reqVars
<1>2. /\ pc[t] # "done" /\ \A u \in Tests : u # t => pc'[u] = pc[u]
      /\ pc'[t] # "idle"
  BY <1>0 DEF Start, TestStep, Reset, Mkdir, Create, Generate, WriteLine, WriteNewline, End,
     Goto, testVars
<1>3. \A n \in OnDisk' : n \in OnDisk \/ (pc[t] = "create" /\ ID[t] = n.id)
  <2>1. CASE Create(t)
    <3> DEFINE n == [id |-> ID[t], index |-> index[t]]
    <3>1. \/ disk' = disk
          \/ \E i : disk' = [disk EXCEPT ![n] = i]
      BY <2>1 DEF Create
    <3>2. pc[t] = "create"
      BY <2>1 DEF Create
    <3> QED BY <1>0, <3>1, <3>2 DEF OnDisk, Exists
  <2>2. CASE ~Create(t)
    <3>1. disk' = disk \/ \E n \in Names : Unlink(n)
      BY <1>0, <2>2 DEF Start, TestStep, Reset, Mkdir, Generate, WriteLine, WriteNewline, End,
         diskVars
    <3> QED BY <1>0, <3>1 DEF OnDisk, Exists, Unlink
  <2> QED BY <2>1, <2>2
<1>4. ASSUME NEW r \in Requests
      PROVE  /\ rpc'[r] = "idle" => found'[r] = {} /\ sure'[r].names = {} /\ sure'[r].tests = {}
             /\ rpc'[r] = "scan" => Kind[r] = "get"
             /\ \A u \in sure'[r].tests : pc'[u] = "done"
  <2>1. \A u \in sure[r].tests : u \in Tests /\ pc[u] = "done"
    BY <1>0 DEF Deleting
  <2> QED BY <1>1, <1>2, <2>1 DEF Deleting
<1>5. ASSUME NEW r \in Requests, Kind[r] = "delete", rpc'[r] \in {"visit", "done"},
             NEW n \in sure'[r].names \cap OnDisk', n.id = ID[r]
      PROVE  \/ rpc'[r] = "visit" /\ n \in found'[r]
             \/ \E u \in Tests : ID[u] = n.id /\ u \notin sure'[r].tests /\ pc'[u] # "idle"
  <2>1. CASE n \in OnDisk
    <3>1. \/ rpc[r] = "visit" /\ n \in found[r]
          \/ \E u \in Tests : ID[u] = n.id /\ u \notin sure[r].tests /\ pc[u] # "idle"
      BY <1>1, <1>5, <2>1 DEF Deleting
    <3> QED BY <1>1, <1>2, <3>1
  <2>2. CASE n \notin OnDisk
    <3>1. ID[t] = n.id /\ pc[t] = "create"
      BY <1>3, <1>5, <2>2
    <3>2. t \notin sure[r].tests
      BY <3>1 DEF Deleting
    <3> QED BY <1>1, <1>2, <3>1, <3>2
  <2> QED BY <2>1, <2>2
<1> QED BY <1>4, <1>5 DEF Deleting

LEMMA RequestDeleting ==
  ASSUME TypeInv, Deleting, NEW r \in Requests, RemoveAll(r) \/ Glob(r) \/ RequestStep(r)
  PROVE  Deleting'
<1> USE DEF diskVars, testVars, reqVars, RGoto
<1>0. /\ disk \in [Names -> Inodes \cup {None}]
      /\ found \in [Tests \cup Requests -> SUBSET Names]
      /\ rpc \in [Requests -> {"idle", "visit", "scan", "done"}]
      /\ sure \in [Requests -> [names : SUBSET Names, tests : SUBSET Tests]]
  BY DEF TypeInv, TypeOK
<1>1. pc' = pc /\ OnDisk' \subseteq OnDisk
  <2>1. pc' = pc
    BY DEF RemoveAll, Glob, RequestStep, Remove, Stat, Open, Scan, ScanEnd, Answer
  <2>2. \/ disk' = disk \/ disk' = [n \in Names |-> None]
        \/ \E n \in Names : Unlink(n)
    BY <1>0 DEF RemoveAll, Glob, RequestStep, Remove, Stat, Open, Scan, ScanEnd, Answer
  <2> QED BY <1>0, <2>1, <2>2 DEF OnDisk, Exists, Unlink
<1> DEFINE Known(q) ==
             /\ rpc[q] = "idle" => found[q] = {} /\ sure[q].names = {} /\ sure[q].tests = {}
             /\ rpc[q] = "scan" => Kind[q] = "get"
             /\ \A t \in sure[q].tests : pc[t] = "done"
           Missed(q, n) == \E t \in Tests : ID[t] = n.id /\ t \notin sure[q].tests /\ pc[t] # "idle"
           Removes(q) ==
             Kind[q] = "delete" /\ rpc[q] \in {"visit", "done"} =>
               \A n \in sure[q].names \cap OnDisk : n.id = ID[q] =>
                 (rpc[q] = "visit" /\ n \in found[q]) \/ Missed(q, n)
<1>2. \A q \in Requests : Known(q) /\ Removes(q)
  BY DEF Deleting
<1>3. ASSUME NEW q \in Requests, rpc'[q] = rpc[q], sure'[q] = sure[q], found'[q] = found[q]
      PROVE  Known(q)' /\ Removes(q)'
  BY <1>1, <1>2, <1>3
<1>4. ASSUME NEW q \in Requests, q # r PROVE Known(q)' /\ Removes(q)'
  <2>1. rpc' = rpc \/ \E label : rpc' = [rpc EXCEPT ![r] = label]
    BY DEF RemoveAll, Glob, RequestStep, Remove, Stat, Open, Scan, ScanEnd, Answer
  <2>2. sure' = sure \/ \E known : sure' = [sure EXCEPT ![r] = known]
    BY DEF RemoveAll, Glob, RequestStep, Remove, Stat, Open, Scan, ScanEnd, Answer
  <2>3. found' = found \/ \E names : found' = [found EXCEPT ![r] = names]
    BY DEF RemoveAll, Glob, RequestStep, Remove, Stat, Open, Scan, ScanEnd, Answer, Visit
  <2>4. rpc'[q] = rpc[q] /\ sure'[q] = sure[q] /\ found'[q] = found[q]
    BY <1>0, <1>4, <2>1, <2>2, <2>3
  <2> QED BY <1>3, <2>4
<1>5. Known(r)' /\ Removes(r)'
  <2>1. CASE RemoveAll(r)
    <3>1. rpc[r] = "idle" /\ rpc'[r] = "visit" /\ sure' = sure /\ found' = found
      BY <1>0, <2>1 DEF RemoveAll
    <3> QED BY <1>1, <1>2, <3>1
  <2>2. CASE Glob(r)
    <3>1. /\ rpc'[r] = "visit" /\ disk' = disk
          /\ sure' = [sure EXCEPT ![r] = [names |-> OnDisk, tests |-> Kept]]
          /\ found'[r] = {n \in OnDisk : IF Kind[r] = "list" THEN n.index = 1 ELSE n.id = ID[r]}
      BY <1>0, <2>2 DEF Glob
    <3>2. sure'[r].names = OnDisk /\ sure'[r].tests = Kept
      BY <1>0, <3>1
    <3> QED BY <1>1, <3>1, <3>2 DEF Kept, OnDisk
  <2>3. ASSUME NEW n \in found[r], Remove(r, n) PROVE Known(r)' /\ Removes(r)'
    <3>1. /\ rpc' = rpc /\ sure' = sure /\ rpc[r] = "visit"
          /\ found'[r] = found[r] \ {n} /\ n \notin OnDisk'
      BY <1>0, <2>3 DEF Remove, Visit, Unlink, OnDisk, Exists
    <3> QED BY <1>1, <1>2, <3>1
  <2>4. CASE \E n \in found[r] : Stat(r, n) \/ Open(r, n)
    <3>1. /\ sure' = sure /\ Kind[r] # "delete" /\ rpc'[r] # "idle"
          /\ rpc'[r] = "scan" => Kind[r] = "get"
      BY <1>0, <2>4 DEF Stat, Open
    <3> QED BY <1>1, <1>2, <3>1
  <2>5. CASE Scan(r)
    <3>1. rpc' = rpc /\ sure' = sure /\ found' = found
      BY <2>5 DEF Scan
    <3> QED BY <1>3, <3>1
  <2>6. CASE ScanEnd(r)
    <3>1. rpc[r] = "scan" /\ rpc'[r] = "visit" /\ sure' = sure /\ found' = found
      BY <1>0, <2>6 DEF ScanEnd
    <3>2. Kind[r] # "delete"
      BY <1>2, <3>1
    <3> QED BY <1>1, <1>2, <3>1, <3>2
  <2>7. CASE Answer(r)
    <3>1. rpc[r] = "visit" /\ found[r] = {} /\ rpc'[r] = "done" /\ sure' = sure /\ found' = found
      BY <1>0, <2>7 DEF Answer
    <3> QED BY <1>1, <1>2, <3>1
  <2> QED BY <2>1, <2>2, <2>3, <2>4, <2>5, <2>6, <2>7 DEF RequestStep
<1> QED BY <1>4, <1>5 DEF Deleting

LEMMA StepDeleting == TypeInv /\ Deleting /\ [Next]_vars => Deleting'
<1>1. Deleting /\ UNCHANGED vars => Deleting'
  BY DEF vars, diskVars, testVars, reqVars, Deleting, OnDisk, Exists
<1> QED BY <1>1, TestDeleting, RequestDeleting DEF Next, Terminated

LEMMA DeletingInvariance == Spec => []Deleting
BY InitDeleting, StepDeleting, TypeInvariance, PTL DEF Spec

-----------------------------------------------------------------------------
(* Inodes keep their names *)

LEMMA NoneIsNoInode == None \notin Inodes
<1> SUFFICES ASSUME None \in Inodes PROVE FALSE
  OBVIOUS
<1>1. PICK t \in Tests, k \in 1..MaxIndex : None = <<t, k>>
  BY DEF Inodes
<1>2. Len(None) = 0 /\ Len(<<t, k>>) = 2
  BY DEF None
<1> QED BY <1>1, <1>2

\* The elements of two sequences in one.
LEMMA ConcatElements ==
  ASSUME NEW S, NEW a \in Seq(S), NEW b \in Seq(S), NEW j \in DOMAIN (a \o b)
  PROVE  \/ j \in DOMAIN a /\ (a \o b)[j] = a[j]
         \/ \E m \in DOMAIN b : (a \o b)[j] = b[m]
<1>1. Len(a) \in Nat /\ Len(b) \in Nat /\ DOMAIN a = 1..Len(a) /\ DOMAIN b = 1..Len(b)
  OBVIOUS
<1>2. a \o b \in Seq(S) /\ Len(a \o b) = Len(a) + Len(b)
  OBVIOUS
<1>3. j \in 1..(Len(a) + Len(b))
  BY <1>2
<1>4. CASE j <= Len(a)
  BY <1>1, <1>3, <1>4
<1>5. CASE j > Len(a)
  <2>1. (a \o b)[j] = b[j - Len(a)]
    BY <1>1, <1>3, <1>5
  <2>2. j - Len(a) \in DOMAIN b
    BY <1>1, <1>3, <1>5
  <2> QED BY <2>1, <2>2
<1> QED BY <1>1, <1>3, <1>4, <1>5

\* The name and the inode of a create, which is why it may be somebody else's.
Target(t)  == [id |-> ID[t], index |-> index[t]]
Created(t) == IF Exists(Target(t)) THEN disk[Target(t)] ELSE <<t, index[t]>>

LEMMA CreateTypes ==
  ASSUME TypeInv, NEW t \in Tests, Create(t)
  PROVE  /\ Target(t) \in Names /\ Created(t) \in Inodes
         /\ pc[t] = "create" /\ index[t] \in 1..MaxIndex
         /\ UNCHANGED <<index, batch>>
         /\ IF dir
              THEN /\ disk' = [disk EXCEPT ![Target(t)] = Created(t)]
                   /\ file' = [file EXCEPT ![t] = Created(t)]
                   /\ lines' = [lines EXCEPT ![Created(t)] = <<>>]
                   /\ torn' = [torn EXCEPT ![Created(t)] = <<>>]
              ELSE UNCHANGED <<disk, file, lines, torn>>
<1>1. pc[t] = "create" /\ index[t] \in 1..MaxIndex
  BY TestStoreAssumption DEF Create, TypeInv, TypeOK, Counting, MaxIndex
<1>2. Target(t) \in Names
  BY <1>1, TestStoreAssumption DEF Target, Names
<1>3. Created(t) \in Inodes
  BY <1>1, <1>2 DEF Created, Inodes, Exists, TypeInv, TypeOK
<1> QED BY <1>1, <1>2, <1>3 DEF Create, Target, Created

LEMMA MadeGrows ==
  ASSUME TypeInv, NEW t \in Tests, Start(t) \/ TestStep(t)
  PROVE  Made \subseteq Made'
<1> SUFFICES ASSUME NEW i \in Made PROVE i \in Made'
  OBVIOUS
<1>0. /\ index \in [Tests -> Nat] /\ pc \in [Tests -> Stages]
      /\ i \in Inodes /\ i[1] \in Tests /\ i[2] \in Nat
      /\ i[2] <= index[i[1]] /\ (pc[i[1]] = "create" => i[2] # index[i[1]])
  BY TestStoreAssumption DEF TypeInv, TypeOK, Made, MaxIndex, Stages, Inodes
<1>1. CASE Mkdir(t)
  <2>1. /\ index' = [index EXCEPT ![t] = @ + 1] /\ pc' = [pc EXCEPT ![t] = "create"]
        /\ pc[t] # "create"
    BY <1>1 DEF Mkdir, Goto
  <2> QED BY <1>0, <2>1 DEF Made
<1>2. CASE ~Mkdir(t)
  <2>1. /\ index' = index
        /\ pc' = pc \/ \E label \in Stages \ {"create"} : pc' = [pc EXCEPT ![t] = label]
    BY <1>2 DEF Start, TestStep, Reset, Create, Generate, WriteLine, WriteNewline, End, Goto,
       testVars, Stages
  <2> QED BY <1>0, <2>1 DEF Made
<1> QED BY <1>1, <1>2

LEMMA InitNaming == Init => Naming
BY DEF Init, Naming, Exists

LEMMA TestNaming ==
  ASSUME IDsApart, TypeInv, Naming, NEW t \in Tests, Start(t) \/ TestStep(t)
  PROVE  Naming'
<1>0. /\ Duration \in Nat /\ ID[t] \in IDs /\ Tests \cap Requests = {}
      /\ disk \in [Names -> Inodes \cup {None}] /\ file \in [Tests -> Inodes \cup {None}]
      /\ found \in [Tests \cup Requests -> SUBSET Names]
      /\ lines \in [Inodes -> Seq(Lines)] /\ torn \in [Inodes -> Seq(Lines)]
      /\ batch \in [Tests -> Nat] /\ pc \in [Tests -> Stages]
      /\ None \notin Inodes
  <2>1. Duration \in Nat /\ ID[t] \in IDs /\ Tests \cap Requests = {} /\ None \notin Inodes
    BY TestStoreAssumption, NoneIsNoInode
  <2>2. batch \in [Tests -> Nat] /\ pc \in [Tests -> Stages]
    BY <2>1 DEF TypeInv, TypeOK, Stages
  <2> QED BY <2>1, <2>2 DEF TypeInv, TypeOK, Lines
<1>1. Made \subseteq Made'
  BY MadeGrows
<1>2. ASSUME NEW n \in Names, Exists(n)'
      PROVE  disk'[n] \in Made' /\ disk'[n][2] = n.index /\ ID[disk'[n][1]] = n.id
  <2>1. CASE Exists(n) /\ disk'[n] = disk[n]
    BY <1>1, <2>1 DEF Naming
  <2>2. CASE ~(Exists(n) /\ disk'[n] = disk[n])
    <3>1. Create(t)
      <4>1. ASSUME ~Create(t) PROVE disk' = disk \/ \E m \in Names : Unlink(m)
        BY <1>0, <4>1 DEF Start, TestStep, Reset, Mkdir, Generate, WriteLine, WriteNewline, End,
           diskVars
      <4> QED BY <1>0, <1>2, <2>2, <4>1 DEF Exists, Unlink
    <3>2. /\ disk' = [disk EXCEPT ![Target(t)] = Created(t)]
          /\ pc[t] = "create" /\ index' = index /\ index[t] \in 1..MaxIndex
      BY <1>2, <2>2, <3>1, CreateTypes DEF Exists
    <3>3. n = Target(t) /\ ~Exists(n)
      <4>1. CASE n # Target(t)
        BY <1>0, <1>2, <2>2, <3>2, <4>1 DEF Exists
      <4>2. CASE n = Target(t) /\ Exists(n)
        BY <1>0, <2>2, <3>2, <4>2 DEF Created
      <4> QED BY <4>1, <4>2
    <3>4. disk'[n] = <<t, index[t]>>
      BY <1>0, <3>2, <3>3 DEF Created
    <3>5. pc'[t] # "create"
      BY <1>0, <3>1 DEF Create, Goto
    <3>6. <<t, index[t]>> \in Made'
      BY <3>2, <3>5 DEF Made, Inodes
    <3> QED BY <3>3, <3>4, <3>6 DEF Target
  <2> QED BY <2>1, <2>2
<1>3. ASSUME NEW u \in Tests, file'[u] # None PROVE file'[u] \in Made'
  <2>1. CASE file'[u] = file[u]
    BY <1>1, <1>3, <2>1 DEF Naming
  <2>2. CASE file'[u] # file[u]
    <3>1. Create(t)
      BY <2>2 DEF Start, TestStep, Reset, Mkdir, Generate, WriteLine, WriteNewline, End,
         testVars
    <3>2. /\ disk' = [disk EXCEPT ![Target(t)] = Created(t)]
          /\ file' = [file EXCEPT ![t] = Created(t)]
          /\ Target(t) \in Names /\ Created(t) \in Inodes
      BY <2>2, <3>1, CreateTypes
    <3>3. u = t /\ file'[u] = disk'[Target(t)]
      BY <1>0, <2>2, <3>2
    <3>4. disk'[Target(t)] # None
      BY <1>0, <3>2
    <3>5. \A m \in Names : disk'[m] # None => disk'[m] \in Made'
      BY <1>2 DEF Exists
    <3> QED BY <3>2, <3>3, <3>4, <3>5
  <2> QED BY <2>1, <2>2
<1>4. ASSUME NEW u \in Tests, NEW n \in found'[u] PROVE n.id = ID[u]
  <2>1. CASE found'[u] \subseteq found[u]
    BY <1>4, <2>1 DEF Naming
  <2>2. CASE ~(found'[u] \subseteq found[u])
    <3>1. Start(t)
      <4>1. ASSUME ~Start(t)
            PROVE  found' = found \/ \E names : found' = [found EXCEPT ![t] = names]
                                               /\ names \subseteq found[t]
        BY <4>1 DEF TestStep, Reset, Mkdir, Create, Generate, WriteLine, WriteNewline, End
      <4> QED BY <1>0, <2>2, <4>1
    <3>2. u = t /\ n.id \in Extends[ID[t]]
      BY <1>0, <1>4, <2>2, <3>1 DEF Start
    <3> QED BY <1>0, <3>2 DEF IDsApart
  <2> QED BY <2>1, <2>2
<1>5. \A u \in Tests : batch'[u] >= batch[u]
  <2>1. batch' = batch \/ batch' = [batch EXCEPT ![t] = @ + 1]
    BY DEF Start, TestStep, Reset, Mkdir, Create, Generate, WriteLine, WriteNewline, End,
       testVars
  <2>2. ASSUME NEW u \in Tests PROVE batch'[u] = batch[u] \/ batch'[u] = batch[u] + 1
    BY <1>0, <2>1
  <2>3. \A u \in Tests : batch[u] \in Nat
    BY <1>0
  <2> QED BY <2>2, <2>3
<1> DEFINE Old(s)  == \A j \in DOMAIN s : s[j].batch <= batch[s[j].test]
           Old2(s) == \A j \in DOMAIN s : s[j].batch <= batch'[s[j].test]
<1>6. ASSUME NEW s \in Seq(Lines), Old(s) PROVE Old2(s)
  <2> SUFFICES ASSUME NEW j \in DOMAIN s PROVE s[j].batch <= batch'[s[j].test]
    OBVIOUS
  <2>1. s[j] \in Lines /\ s[j].batch <= batch[s[j].test]
    BY <1>6
  <2>2. s[j].test \in Tests /\ s[j].batch \in Nat /\ batch[s[j].test] \in Nat
        /\ batch'[s[j].test] \in Nat
    <3>1. batch' \in [Tests -> Nat]
      BY TestType, <1>0 DEF TypeOK
    <3> QED BY <1>0, <2>1, <3>1 DEF Lines
  <2> QED BY <1>5, <2>1, <2>2
<1>7. ASSUME NEW i \in Inodes PROVE Old2(lines'[i]) /\ Old2(torn'[i])
  <2>1. Old(lines[i]) /\ Old(torn[i]) /\ lines[i] \in Seq(Lines) /\ torn[i] \in Seq(Lines)
    BY <1>0 DEF Naming
  <2>2. Old2(lines[i]) /\ Old2(torn[i]) /\ Old2(<<>>)
    BY <1>6, <2>1
  <2>3. CASE Create(t)
    <3>1. (lines'[i] = lines[i] \/ lines'[i] = <<>>) /\ (torn'[i] = torn[i] \/ torn'[i] = <<>>)
      BY <1>0, <2>3, CreateTypes
    <3> QED BY <2>2, <3>1
  <2>4. CASE WriteLine(t)
    <3>1. lines' = lines /\ batch' = batch /\ (torn'[i] = torn[i] \/ torn'[i] = <<Line(t, batch[t])>>)
      BY <1>0, <2>4 DEF WriteLine
    <3>2. Old2(<<Line(t, batch[t])>>)
      BY <1>0, <3>1 DEF Line
    <3> QED BY <2>2, <3>1, <3>2
  <2>5. CASE WriteNewline(t)
    <3>1. /\ lines'[i] = lines[i] \/ lines'[i] = lines[i] \o torn[i]
          /\ torn'[i] = torn[i] \/ torn'[i] = <<>>
      BY <1>0, <2>5 DEF WriteNewline
    <3>2. Old2(lines[i] \o torn[i])
      <4>0. \A a, b \in Seq(Lines) : \A j \in DOMAIN (a \o b) :
               \/ j \in DOMAIN a /\ (a \o b)[j] = a[j]
               \/ \E m \in DOMAIN b : (a \o b)[j] = b[m]
        BY ConcatElements
      <4> DEFINE s == lines[i] \o torn[i]
      <4>1. ASSUME NEW j \in DOMAIN s
            PROVE  \/ j \in DOMAIN lines[i] /\ s[j] = lines[i][j]
                   \/ \E m \in DOMAIN torn[i] : s[j] = torn[i][m]
        BY <2>1, <4>0, <4>1
      <4> HIDE DEF s
      <4>2. Old2(s)
        BY <2>2, <4>1
      <4> QED BY <4>2 DEF s
    <3> QED BY <2>2, <3>1, <3>2
  <2>6. CASE UNCHANGED <<lines, torn>>
    BY <2>2, <2>6
  <2> QED
    BY <2>3, <2>4, <2>5, <2>6 DEF Start, TestStep, Reset, Mkdir, Generate, End, diskVars
<1> QED BY <1>2, <1>3, <1>4, <1>7 DEF Naming

LEMMA RequestNaming ==
  ASSUME TypeInv, Naming, NEW r \in Requests, RemoveAll(r) \/ Glob(r) \/ RequestStep(r)
  PROVE  Naming'
<1>0. /\ disk \in [Names -> Inodes \cup {None}] /\ Tests \cap Requests = {}
      /\ found \in [Tests \cup Requests -> SUBSET Names]
  BY TestStoreAssumption DEF TypeInv, TypeOK
<1>1. UNCHANGED <<pc, index, file, batch, lines, torn>>
  BY DEF RemoveAll, Glob, RequestStep, Remove, Stat, Open, Scan, ScanEnd, Answer, diskVars,
     testVars
<1>2. \A n \in Names : disk'[n] \in {disk[n], None}
  <2>1. \/ disk' = disk \/ disk' = [n \in Names |-> None] \/ \E n \in Names : Unlink(n)
    BY <1>0 DEF RemoveAll, Glob, RequestStep, Remove, Stat, Open, Scan, ScanEnd, Answer,
       diskVars
  <2> QED BY <1>0, <2>1 DEF Unlink
<1>3. \A t \in Tests : found'[t] = found[t]
  <2>1. found' = found \/ \E names : found' = [found EXCEPT ![r] = names]
    BY DEF RemoveAll, Glob, RequestStep, Remove, Stat, Open, Scan, ScanEnd, Answer, Visit
  <2> QED BY <1>0, <2>1
<1>4. Made' = Made
  BY <1>1 DEF Made
<1> QED BY <1>1, <1>2, <1>3, <1>4 DEF Naming, Exists

LEMMA StepNaming == IDsApart /\ TypeInv /\ Naming /\ [Next]_vars => Naming'
<1>1. Naming /\ UNCHANGED vars => Naming'
  BY DEF vars, diskVars, testVars, Naming, Exists, Made
<1> QED BY <1>1, TestNaming, RequestNaming DEF Next, Terminated

LEMMA NamingInvariance ==
  ASSUME IDsApart
  PROVE  Spec => []Naming
<1>1. TypeInv /\ Naming /\ [Next]_vars => Naming'
  BY StepNaming
<1> QED BY <1>1, InitNaming, TypeInvariance, PTL DEF Spec

-----------------------------------------------------------------------------
(* Without a delete of everything, no file has two writers *)

LEMMA FirstIsName == ASSUME NEW t \in Tests PROVE First(t) \in Names /\ Own(t) # None
<1>1. First(t) \in Names
  BY TestStoreAssumption DEF First, Names, MaxIndex
<1>2. Own(t) \in Inodes
  BY TestStoreAssumption DEF Own, Inodes, MaxIndex
<1> QED BY <1>1, <1>2, NoneIsNoInode

LEMMA InitOwnFiles == Init => OwnFiles
BY DEF Init, OwnFiles, OwnFile, Exists, Past, First, Names

LEMMA TestOwnFiles ==
  ASSUME IDsApart, TypeInv, Naming, OwnFiles, NEW t \in Tests, Start(t) \/ TestStep(t)
  PROVE  OwnFiles'
<1>0. /\ disk \in [Names -> Inodes \cup {None}] /\ file \in [Tests -> Inodes \cup {None}]
      /\ found \in [Tests \cup Requests -> SUBSET Names] /\ pc \in [Tests -> Stages]
  BY DEF TypeInv, TypeOK, Stages
<1>1. rpc' = rpc
  BY DEF Start, TestStep, Reset, Mkdir, Create, Generate, WriteLine, WriteNewline, End, reqVars
<1> SUFFICES ASSUME NoWipe
             PROVE  /\ dir'
                    /\ \A n \in Names : Exists(n)' => n.index = 1
                    /\ \A u \in Tests : OwnFile(u)'
  BY <1>1 DEF OwnFiles, NoWipe
<1>2. /\ dir /\ \A n \in Names : Exists(n) => n.index = 1
      /\ \A u \in Tests : OwnFile(u)
  BY DEF OwnFiles
<1>3. /\ \A u \in Tests : pc[u] = "reset" => u \in testLock
      /\ \A u \in Tests : u \in testLock => pc[u] \in {"reset", "create"}
      /\ \A u, v \in testLock : u = v
  BY DEF TypeInv, Counting
<1>4. \A u \in Tests : First(u) \in Names /\ Own(u) # None
  BY FirstIsName
<1> USE DEF diskVars, testVars, reqVars, Goto, Past, Stages
<1>5. CASE Start(t)
  <2>1. /\ testLock = {} /\ testLock' = {t} /\ pc[t] = "idle" /\ UNCHANGED <<dir, disk, file>>
        /\ pc' = [pc EXCEPT ![t] = "reset"]
        /\ found' = [found EXCEPT ![t] = {n \in Names : Exists(n) /\ n.id \in Extends[ID[t]]}]
    BY <1>5 DEF Start
  <2>2. ID[t] \in Extends[ID[t]]
    BY TestStoreAssumption
  <2>3. OwnFile(t)'
    <3>1. \A n \in found'[t] : n.index = 1
      BY <1>0, <1>2, <2>1
    <3>2. Exists(First(t))' => First(t) \in found'[t]
      BY <1>0, <1>4, <2>1, <2>2 DEF Exists, First
    <3> QED BY <1>0, <1>2, <2>1, <3>1, <3>2 DEF OwnFile, Exists, First
  <2>4. ASSUME NEW u \in Tests, u # t PROVE OwnFile(u)'
    <3>1. pc'[u] = pc[u] /\ found'[u] = found[u] /\ pc[u] # "create"
      BY <1>0, <1>2, <2>1, <2>4 DEF OwnFile
    <3> QED BY <1>2, <2>1, <3>1 DEF OwnFile, Exists, First, Own
  <2> QED BY <1>2, <2>1, <2>3, <2>4 DEF Exists
<1>6. ASSUME NEW n \in found[t], Reset(t, n)
      PROVE  dir' /\ (\A m \in Names : Exists(m)' => m.index = 1) /\ \A u \in Tests : OwnFile(u)'
  <2>1. n = First(t)
    <3>1. n.id = ID[t] /\ n.index = 1
      BY <1>2 DEF Naming, OwnFile
    <3>2. n \in [id : IDs, index : 1..MaxIndex]
      BY <1>0 DEF Names
    <3>3. n = [id |-> n.id, index |-> n.index]
      BY <3>2
    <3> QED BY <3>1, <3>3 DEF First
  <2>2. /\ pc[t] = "reset" /\ UNCHANGED <<dir, pc, file, testLock>>
        /\ disk' = [disk EXCEPT ![First(t)] = None]
        /\ \E names : names \subseteq found[t] /\ found' = [found EXCEPT ![t] = names]
    BY <1>0, <1>6, <2>1 DEF Reset, Unlink
  <2>3. ~Exists(First(t))' /\ \A m \in Names : Exists(m)' => Exists(m)
    BY <1>0, <1>4, <2>2 DEF Exists
  <2>4. OwnFile(t)'
    BY <1>0, <1>2, <2>2, <2>3 DEF OwnFile, Own, First, Exists
  <2>5. ASSUME NEW u \in Tests, u # t PROVE OwnFile(u)'
    <3>1. found'[u] = found[u] /\ pc[u] \notin {"reset", "create"}
      BY <1>0, <1>2, <1>3, <2>2, <2>5 DEF OwnFile
    <3> QED BY <1>2, <2>2, <3>1 DEF OwnFile, Own
  <2> QED BY <1>2, <2>2, <2>3, <2>4, <2>5
<1>7. CASE Mkdir(t)
  <2>1. pc[t] = "reset" /\ found[t] = {}
    BY <1>2, <1>4, <1>7 DEF Mkdir, OwnFile
  <2>2. /\ dir' = TRUE /\ UNCHANGED <<disk, file, found, testLock>>
        /\ pc' = [pc EXCEPT ![t] = "create"]
    BY <1>7 DEF Mkdir
  <2>3. OwnFile(t)'
    BY <1>0, <1>2, <1>3, <2>1, <2>2 DEF OwnFile, Exists, First
  <2>4. ASSUME NEW u \in Tests, u # t PROVE OwnFile(u)'
    BY <1>0, <1>2, <2>2, <2>4 DEF OwnFile, Exists, First, Own
  <2> QED BY <1>2, <2>2, <2>3, <2>4 DEF Exists
<1>8. CASE Create(t)
  <2>1. t \in testLock /\ index[t] = 1 /\ ~Exists(First(t)) /\ pc[t] = "create"
    BY <1>2, <1>8 DEF OwnFile, Create, TypeInv, Counting
  <2>2. Target(t) = First(t) /\ Created(t) = Own(t)
    BY <2>1 DEF Target, First, Created, Own
  <2>3. /\ disk' = [disk EXCEPT ![First(t)] = Own(t)] /\ file' = [file EXCEPT ![t] = Own(t)]
    BY <1>2, <1>8, <2>2, CreateTypes
  <2>4. /\ testLock' = testLock \ {t} /\ pc' = [pc EXCEPT ![t] = "run"]
        /\ UNCHANGED <<dir, found>>
    BY <1>8, <2>1 DEF Create
  <2>5. \A m \in Names : Exists(m)' => m.index = 1
    BY <1>0, <1>2, <2>3 DEF Exists, First
  <2>6. OwnFile(t)'
    BY <1>0, <1>2, <2>3, <2>4 DEF OwnFile, Own
  <2>7. ASSUME NEW u \in Tests, u # t PROVE OwnFile(u)'
    <3>1. pc'[u] = pc[u] /\ file'[u] = file[u] /\ pc[u] \notin {"reset", "create"}
      BY <1>0, <1>2, <1>3, <2>1, <2>3, <2>4, <2>7 DEF OwnFile
    <3> QED BY <1>2, <2>4, <3>1 DEF OwnFile, Own
  <2> QED BY <1>2, <2>4, <2>5, <2>6, <2>7
<1>9. CASE Generate(t) \/ WriteLine(t) \/ WriteNewline(t) \/ End(t)
  <2>1. /\ UNCHANGED <<dir, disk, file, found, testLock>>
        /\ pc[t] \in Past /\ \E label \in Past : pc' = [pc EXCEPT ![t] = label]
    BY <1>9 DEF Generate, WriteLine, WriteNewline, End
  <2>2. ASSUME NEW u \in Tests PROVE OwnFile(u)'
    BY <1>0, <1>2, <2>1 DEF OwnFile, Own, First, Exists
  <2> QED BY <1>2, <2>1, <2>2 DEF Exists
<1> QED BY <1>5, <1>6, <1>7, <1>8, <1>9 DEF TestStep

LEMMA RequestOwnFiles ==
  ASSUME TypeInv, OwnFiles, NEW r \in Requests, RemoveAll(r) \/ Glob(r) \/ RequestStep(r)
  PROVE  OwnFiles'
<1> USE DEF diskVars, testVars, reqVars, RGoto
<1>0. /\ disk \in [Names -> Inodes \cup {None}] /\ Tests \cap Requests = {}
      /\ found \in [Tests \cup Requests -> SUBSET Names]
      /\ rpc \in [Requests -> {"idle", "visit", "scan", "done"}]
  BY TestStoreAssumption DEF TypeInv, TypeOK
<1>1. CASE RemoveAll(r)
  BY <1>0, <1>1 DEF RemoveAll, OwnFiles, NoWipe
<1>2. CASE ~RemoveAll(r)
  <2>1. UNCHANGED <<dir, pc, file, testLock>>
    BY <1>2 DEF Glob, RequestStep, Remove, Stat, Open, Scan, ScanEnd, Answer
  <2>2. NoWipe' => NoWipe
    <3>1. rpc' = rpc \/ \E label \in {"visit", "scan", "done"} : rpc' = [rpc EXCEPT ![r] = label]
      BY <1>2 DEF Glob, RequestStep, Remove, Stat, Open, Scan, ScanEnd, Answer
    <3> QED BY <1>0, <3>1 DEF NoWipe
  <2>3. \A n \in Names : Exists(n)' => Exists(n)
    <3>1. disk' = disk \/ \E n \in Names : Unlink(n)
      BY <1>0, <1>2 DEF Glob, RequestStep, Remove, Stat, Open, Scan, ScanEnd, Answer
    <3> QED BY <1>0, <3>1 DEF Exists, Unlink
  <2>4. \A t \in Tests : found'[t] = found[t]
    <3>1. found' = found \/ \E names : found' = [found EXCEPT ![r] = names]
      BY <1>2 DEF Glob, RequestStep, Remove, Stat, Open, Scan, ScanEnd, Answer, Visit
    <3> QED BY <1>0, <3>1
  <2>5. ASSUME NEW t \in Tests, OwnFile(t) PROVE OwnFile(t)'
    <3>1. Exists(First(t))' => Exists(First(t))
      BY <2>3, FirstIsName DEF Exists, First
    <3> QED BY <2>1, <2>4, <2>5, <3>1 DEF OwnFile, Own, First
  <2> QED BY <2>1, <2>2, <2>3, <2>5 DEF OwnFiles
<1> QED BY <1>1, <1>2

LEMMA StepOwnFiles == IDsApart /\ TypeInv /\ Naming /\ OwnFiles /\ [Next]_vars => OwnFiles'
<1>1. OwnFiles /\ UNCHANGED vars => OwnFiles'
  BY DEF vars, diskVars, testVars, reqVars, OwnFiles, OwnFile, NoWipe, Exists, First, Own
<1> QED BY <1>1, TestOwnFiles, RequestOwnFiles DEF Next, Terminated

LEMMA OwnFilesInvariance ==
  ASSUME IDsApart
  PROVE  Spec => []OwnFiles
<1>1. TypeInv /\ Naming /\ OwnFiles /\ [Next]_vars => OwnFiles'
  BY StepOwnFiles
<1> QED BY <1>1, InitOwnFiles, TypeInvariance, NamingInvariance, PTL DEF Spec

-----------------------------------------------------------------------------
(* What nobody meant to remove is kept *)

LEMMA InitPreserving == Init => Preserving
BY DEF Init, Preserving, Preserved, Past

\* The step of a test, for the test itself.
LEMMA OwnStepPreserves ==
  ASSUME IDsApart, TypeInv, Naming, NEW t \in Tests, Start(t) \/ TestStep(t), Preserved(t)
  PROVE  Preserved(t)'
<1>0. /\ disk \in [Names -> Inodes \cup {None}] /\ file \in [Tests -> Inodes \cup {None}]
      /\ found \in [Tests \cup Requests -> SUBSET Names] /\ pc \in [Tests -> Stages]
  BY DEF TypeInv, TypeOK, Stages
<1>1. /\ lines \in [Inodes -> Seq(Lines)] /\ torn \in [Inodes -> Seq(Lines)]
  BY DEF TypeInv, TypeOK, Lines
<1>2. batch \in [Tests -> Nat]
  BY TestStoreAssumption DEF TypeInv, TypeOK
<1>3. First(t) \in Names /\ Own(t) # None /\ Own(t) \in Inodes
  BY FirstIsName, TestStoreAssumption DEF Own, Inodes, MaxIndex
<1>4. /\ pc[t] = "reset" => t \in testLock
      /\ t \in testLock => pc[t] \in {"reset", "create"}
      /\ \A u, v \in testLock : u = v
  BY DEF TypeInv, Counting
<1> USE DEF diskVars, testVars, reqVars, Goto, Past, Stages
<1>5. CASE Start(t)
  <2>1. /\ pc' = [pc EXCEPT ![t] = "reset"] /\ disk' = disk
        /\ found' = [found EXCEPT ![t] = {n \in Names : Exists(n) /\ n.id \in Extends[ID[t]]}]
    BY <1>5 DEF Start
  <2>2. First(t).id \in Extends[ID[t]]
    BY TestStoreAssumption DEF First
  <2>3. found'[t] = {n \in Names : Exists(n) /\ n.id \in Extends[ID[t]]} /\ pc'[t] = "reset"
    BY <1>0, <2>1
  <2>4. Untouched(t)' /\ (Exists(First(t))' => First(t) \in found'[t])
    BY <1>3, <2>1, <2>2, <2>3 DEF Untouched, Exists, First
  <2> QED BY <2>3, <2>4 DEF Preserved, First
<1>6. ASSUME NEW n \in found[t], Reset(t, n) PROVE Preserved(t)'
  <2>1. /\ pc[t] = "reset" /\ pc' = pc /\ disk' = [disk EXCEPT ![n] = None]
        /\ Exists(n) /\ found' = [found EXCEPT ![t] = @ \ {n}]
    BY <1>6 DEF Reset, Unlink, Preserved, Untouched
  <2>2. Untouched(t)'
    BY <1>0, <2>1 DEF Preserved, Untouched, Exists
  <2>3. Exists(First(t))' => First(t) \in found'[t]
    BY <1>0, <1>3, <2>1 DEF Preserved, Exists, First
  <2> QED BY <1>0, <2>1, <2>2, <2>3 DEF Preserved, First
<1>7. CASE Mkdir(t)
  <2>1. pc[t] = "reset" /\ found[t] = {}
    BY <1>3, <1>7 DEF Mkdir, Preserved, Written
  <2>2. dir' = TRUE /\ UNCHANGED <<disk, testLock>> /\ pc'[t] = "create"
    BY <1>0, <1>7 DEF Mkdir
  <2> QED BY <1>4, <2>1, <2>2 DEF Preserved, Exists, First
<1>8. CASE Create(t)
  <2>1. /\ t \in testLock /\ index[t] = 1 /\ batch[t] = 0 /\ ~Exists(First(t)) /\ dir
        /\ pc[t] = "create"
    BY <1>8 DEF Preserved, Create, TypeInv, Counting
  <2>2. Target(t) = First(t) /\ Created(t) = Own(t)
    BY <2>1 DEF Target, First, Created, Own
  <2>3. /\ disk' = [disk EXCEPT ![First(t)] = Own(t)] /\ file' = [file EXCEPT ![t] = Own(t)]
        /\ torn' = [torn EXCEPT ![Own(t)] = <<>>] /\ UNCHANGED <<index, batch>>
    BY <1>8, <2>1, <2>2, CreateTypes
  <2>4. testLock' = {} /\ pc'[t] = "run"
    BY <1>0, <1>4, <1>8, <2>1 DEF Create
  <2>5. ASSUME NEW u \in Tests, file[u] = Own(t) PROVE FALSE
    <3>1. Own(t) \in Made
      BY <1>3, <2>5 DEF Naming
    <3> QED BY <2>1, <3>1 DEF Made, Own
  <2>6. \A u \in Tests : file'[u] = Own(t) => u = t
    BY <1>0, <2>3, <2>5
  <2>7. file'[t] = Own(t) /\ disk'[First(t)] = Own(t) /\ torn'[Own(t)] = <<>>
    BY <1>0, <1>1, <1>3, <2>3
  <2>8. Ended(t)' = 0
    BY <2>1, <2>3, <2>4 DEF Ended
  <2>9. Written(t)'
    BY <2>4, <2>6, <2>7, <2>8 DEF Written, Own, First
  <2> QED BY <2>4, <2>9 DEF Preserved, Threatened
<1>9. ASSUME pc[t] \in Past, pc'[t] \in Past, Written(t), Written(t)', UNCHANGED <<disk, found, testLock>>,
             \A u \in Tests : u # t => pc'[u] = pc[u]
      PROVE  Preserved(t)'
  <2>1. Threatened(t)'
    BY <1>4, <1>9 DEF Preserved, Threatened, Untouched, Exists, First, TypeInv, TypeOK
  <2> QED BY <1>9, <2>1 DEF Preserved
<1>10. CASE Generate(t) \/ WriteLine(t) \/ WriteNewline(t) \/ End(t)
  <2>1. /\ pc[t] \in Past /\ Written(t) /\ pc[t] # "write" /\ file[t] = Own(t)
    <3>1. pc[t] \in Past
      BY <1>10 DEF Generate, WriteLine, WriteNewline, End
    <3> QED BY <3>1 DEF Preserved, Written
  <2>2. /\ UNCHANGED <<disk, file, found, testLock>>
        /\ pc'[t] \in Past /\ \A u \in Tests : u # t => pc'[u] = pc[u]
    BY <1>0, <1>10 DEF Generate, WriteLine, WriteNewline, End
  <2>3. CASE Generate(t)
    <3>1. /\ pc[t] = "run" /\ pc'[t] = "save" /\ batch'[t] = batch[t] + 1
          /\ UNCHANGED <<lines, torn>>
      BY <1>0, <1>2, <2>3 DEF Generate
    <3>2. Ended(t)' = Ended(t)
      BY <1>2, <3>1 DEF Ended
    <3>3. Written(t)'
      BY <2>1, <2>2, <3>1, <3>2 DEF Written, Own, First, Line
    <3> QED BY <1>9, <2>1, <2>2, <3>3
  <2>4. CASE WriteLine(t)
    <3>1. /\ pc[t] = "save" /\ pc'[t] = "newline" /\ batch' = batch /\ lines' = lines
          /\ torn' = [torn EXCEPT ![Own(t)] = <<Line(t, batch[t])>>]
      BY <1>0, <1>3, <2>1, <2>4 DEF WriteLine
    <3>2. Ended(t)' = Ended(t) /\ torn'[Own(t)] = <<Line(t, batch[t])>>
      BY <1>1, <1>3, <3>1 DEF Ended
    <3>3. Written(t)'
      BY <2>1, <2>2, <3>1, <3>2 DEF Written, Own, First, Line
    <3> QED BY <1>9, <2>1, <2>2, <3>3
  <2>5. CASE WriteNewline(t)
    <3>1. /\ pc[t] = "newline" /\ pc'[t] = "run" /\ batch' = batch
          /\ lines' = [lines EXCEPT ![Own(t)] = @ \o torn[Own(t)]]
          /\ torn' = [torn EXCEPT ![Own(t)] = <<>>]
      BY <1>0, <1>3, <2>1, <2>5 DEF WriteNewline
    <3>2. torn[Own(t)] = <<Line(t, batch[t])>>
      BY <2>1, <3>1 DEF Written
    <3>3. lines'[Own(t)] = Append(lines[Own(t)], Line(t, batch[t])) /\ torn'[Own(t)] = <<>>
      <4>1. \A s \in Seq(Lines), x \in Lines : s \o <<x>> = Append(s, x)
        OBVIOUS
      <4>2. Line(t, batch[t]) \in Lines
        <5>1. torn[Own(t)] \in Seq(Lines)
          BY <1>1, <1>3
        <5>2. torn[Own(t)][1] \in Lines
          BY <3>2, <5>1
        <5> QED BY <3>2, <5>2
      <4>3. lines[Own(t)] \in Seq(Lines)
        BY <1>1, <1>3
      <4> QED BY <1>1, <1>3, <3>1, <3>2, <4>1, <4>2, <4>3
    <3>4. ASSUME NEW b \in 1..batch[t]
          PROVE  \E j \in DOMAIN lines'[Own(t)] : lines'[Own(t)][j] = Line(t, b)
      <4> DEFINE s == lines[Own(t)]
      <4>0. s \in Seq(Lines)
        BY <1>1, <1>3
      <4>1. CASE b = batch[t]
        <5>1. /\ Len(s) + 1 \in DOMAIN lines'[Own(t)]
              /\ lines'[Own(t)][Len(s) + 1] = Line(t, batch[t])
          BY <3>3, <4>0
        <5> QED BY <4>1, <5>1
      <4>2. CASE b # batch[t]
        <5>1. b \in 1..Ended(t)
          BY <1>2, <3>1, <3>4, <4>2 DEF Ended
        <5>2. PICK j \in DOMAIN s : s[j] = Line(t, b)
          BY <2>1, <5>1 DEF Written
        <5>3. j \in DOMAIN lines'[Own(t)] /\ lines'[Own(t)][j] = s[j]
          BY <3>3, <4>0, <5>2
        <5> QED BY <5>2, <5>3
      <4> QED BY <4>1, <4>2
    <3>5. Ended(t)' = batch[t]
      BY <3>1 DEF Ended
    <3>6. Written(t)'
      BY <2>1, <2>2, <3>1, <3>3, <3>4, <3>5 DEF Written, Own, First, Line
    <3> QED BY <1>9, <2>1, <2>2, <3>6
  <2>6. CASE End(t)
    <3>1. pc[t] = "run" /\ pc'[t] = "done" /\ UNCHANGED <<batch, lines, torn>>
      BY <1>0, <2>6 DEF End
    <3>2. Ended(t)' = Ended(t)
      BY <3>1 DEF Ended
    <3>3. Written(t)'
      BY <2>1, <2>2, <3>1, <3>2 DEF Written, Own, First, Line
    <3> QED BY <1>9, <2>1, <2>2, <3>3
  <2> QED BY <1>10, <2>3, <2>4, <2>5, <2>6
<1> QED BY <1>5, <1>6, <1>7, <1>8, <1>10 DEF TestStep

\* The step of a test, for another one: only newTest removes what is not its
\* own, and that is meant to be removed.
LEMMA OtherStepPreserves ==
  ASSUME IDsApart, TypeInv, Naming, NEW t \in Tests, Start(t) \/ TestStep(t),
         NEW u \in Tests, u # t, u \notin spoiled', Preserved(u)
  PROVE  Preserved(u)'
<1>0. /\ disk \in [Names -> Inodes \cup {None}] /\ file \in [Tests -> Inodes \cup {None}]
      /\ found \in [Tests \cup Requests -> SUBSET Names] /\ pc \in [Tests -> Stages]
  BY DEF TypeInv, TypeOK, Stages
<1>1. /\ lines \in [Inodes -> Seq(Lines)] /\ torn \in [Inodes -> Seq(Lines)]
  BY DEF TypeInv, TypeOK, Lines
<1>2. batch \in [Tests -> Nat]
  BY TestStoreAssumption DEF TypeInv, TypeOK
<1>3. First(u) \in Names /\ Own(u) # None /\ Own(u) \in Inodes
  BY FirstIsName, TestStoreAssumption DEF Own, Inodes, MaxIndex
<1>4. /\ pc[t] = "reset" => t \in testLock
      /\ t \in testLock => pc[t] \in {"reset", "create"}
      /\ pc[u] \in {"reset", "create"} => u \in testLock
  BY DEF TypeInv, Counting, Preserved
<1>5. testLock \subseteq Tests /\ \A v, w \in testLock : v = w
  BY DEF TypeInv, TypeOK, Counting
<1> USE DEF diskVars, testVars, reqVars, Goto, Past, Stages
<1>6. /\ pc'[u] = pc[u] /\ found'[u] = found[u]
  BY <1>0 DEF Start, TestStep, Reset, Mkdir, Create, Generate, WriteLine, WriteNewline, End
<1>7. batch'[u] = batch[u] /\ Ended(u)' = Ended(u)
  <2>1. batch' = batch \/ batch' = [batch EXCEPT ![t] = @ + 1]
    BY DEF Start, TestStep, Reset, Mkdir, Create, Generate, WriteLine, WriteNewline, End
  <2>2. batch'[u] = batch[u]
    BY <1>2, <2>1
  <2> QED BY <1>6, <2>2 DEF Ended
\* What t does not write to stays written.
<1>8. ASSUME pc[u] \in Past, \A v \in Tests : v # t => file'[v] = file[v], file'[t] # Own(u),
             disk'[First(u)] = disk[First(u)], lines'[Own(u)] = lines[Own(u)],
             torn'[Own(u)] = torn[Own(u)]
      PROVE  Written(u)'
  <2>1. Written(u)
    BY <1>8 DEF Preserved
  <2> QED BY <1>6, <1>7, <1>8, <2>1 DEF Written, Own, First, Line
<1>9. pc[u] \in Past => file[t] # Own(u)
  BY DEF Preserved, Written
<1>10. CASE Start(t)
  <2>1. /\ testLock = {} /\ testLock' = {t} /\ pc'[t] = "reset"
        /\ UNCHANGED <<disk, file, lines, torn>>
        /\ found'[t] = {n \in Names : Exists(n) /\ n.id \in Extends[ID[t]]}
    BY <1>0, <1>10 DEF Start
  <2>2. pc[u] \notin {"reset", "create"}
    BY <1>4, <2>1
  <2>3. ASSUME pc[u] \in Past PROVE Written(u)'
    BY <1>8, <1>9, <2>1, <2>3
  <2>4. ASSUME pc[u] \in Past PROVE Threatened(u)'
    <3> SUFFICES ASSUME ID[t] = ID[u]
                 PROVE  pc'[t] = "reset" /\ Untouched(t)' /\ First(u) \in found'[t]
      BY <2>1 DEF Threatened, First
    <3>1. Exists(First(u)) /\ First(u).id \in Extends[ID[t]]
      BY <1>3, <2>4, TestStoreAssumption DEF Preserved, Written, Exists, First
    <3> QED BY <1>3, <2>1, <3>1 DEF Untouched, Exists
  <2> QED BY <1>6, <2>2, <2>3, <2>4 DEF Preserved
<1>11. ASSUME NEW n \in found[t], Reset(t, n) PROVE Preserved(u)'
  <2>1. /\ pc[t] = "reset" /\ UNCHANGED <<pc, file, testLock, lines, torn>>
        /\ disk' = [disk EXCEPT ![n] = None] /\ n.id = ID[t] /\ ID[u] # n.id
    BY <1>11 DEF Reset, Unlink, Naming
  <2>2. testLock = {t} /\ pc[u] \notin {"reset", "create"}
    BY <1>4, <1>5, <2>1
  <2>3. disk'[First(u)] = disk[First(u)]
    BY <1>0, <1>3, <2>1 DEF First
  <2>4. Threatened(u)'
    BY <2>1, <2>2 DEF Threatened
  <2> QED BY <1>6, <1>8, <1>9, <2>1, <2>2, <2>3, <2>4 DEF Preserved
<1>12. CASE Mkdir(t)
  <2>1. /\ UNCHANGED <<disk, file, lines, torn, found, testLock>> /\ dir' = TRUE
        /\ \A v \in Tests : v # t => pc'[v] = pc[v]
    BY <1>0, <1>12 DEF Mkdir
  <2>2. ASSUME pc[u] \in Past PROVE Threatened(u)'
    <3>1. ASSUME t \in testLock, ID[t] = ID[u] PROVE FALSE
      <4>1. pc[t] = "reset" /\ found[t] = {}
        BY <1>4, <1>12, <3>1 DEF Mkdir
      <4> QED BY <2>2, <3>1, <4>1 DEF Preserved, Threatened
    <3>2. Threatened(u)
      BY <2>2 DEF Preserved
    <3> QED BY <1>5, <2>1, <3>1, <3>2 DEF Threatened, Untouched, Exists, First
  <2> QED BY <1>6, <1>8, <1>9, <2>1, <2>2 DEF Preserved, Untouched, Exists, First
<1>13. CASE Create(t)
  <2>1. /\ pc[t] = "create" /\ Target(t) \in Names /\ Created(t) \in Inodes
        /\ UNCHANGED <<dir, found>> /\ testLock' = testLock \ {t}
        /\ \A v \in Tests : v # t => pc'[v] = pc[v]
    BY <1>0, <1>13, CreateTypes DEF Create
  <2>2. \/ /\ disk' = [disk EXCEPT ![Target(t)] = Created(t)]
           /\ file' = [file EXCEPT ![t] = Created(t)]
           /\ lines' = [lines EXCEPT ![Created(t)] = <<>>]
           /\ torn' = [torn EXCEPT ![Created(t)] = <<>>]
        \/ UNCHANGED <<disk, file, lines, torn>>
    BY <1>13, CreateTypes
  <2>3. \A n \in Names : Exists(n) => Exists(n)'
    BY <1>0, <2>1, <2>2, NoneIsNoInode DEF Exists
  <2>4. index[t] = 1 => t \in testLock
    BY <2>1 DEF TypeInv, Counting
  <2>5. ASSUME u \in testLock PROVE Exists(First(u))' => Exists(First(u))
    <3>1. index[t] # 1
      BY <1>5, <2>4, <2>5
    <3>2. Target(t) # First(u)
      BY <3>1 DEF Target, First
    <3> QED BY <1>0, <1>3, <2>2, <3>2 DEF Exists, First
  <2>6. ASSUME pc[u] \in Past PROVE Written(u)' /\ Threatened(u)'
    <3>1. Created(t) # Own(u)
      <4>1. CASE ~Exists(Target(t))
        BY <4>1 DEF Created, Own
      <4>2. CASE Exists(Target(t)) /\ Created(t) = Own(u)
        <5>1. index[t] = 1 /\ ID[u] = ID[t]
          BY <2>1, <4>2 DEF Naming, Created, Own, Target
        <5> QED BY <2>1, <2>4, <2>6, <5>1 DEF Preserved, Threatened
      <4> QED BY <4>1, <4>2
    <3>2. disk'[First(u)] = disk[First(u)]
      <4>1. CASE Target(t) = First(u)
        <5>1. disk[First(u)] = Own(u)
          BY <2>6 DEF Preserved, Written
        <5>2. Created(t) = Own(u)
          BY <1>3, <4>1, <5>1 DEF Created, Exists
        <5> QED BY <3>1, <5>2
      <4>2. CASE Target(t) # First(u)
        BY <1>0, <1>3, <2>2, <4>2
      <4> QED BY <4>1, <4>2
    <3>3. /\ \A v \in Tests : v # t => file'[v] = file[v]
          /\ lines'[Own(u)] = lines[Own(u)] /\ torn'[Own(u)] = torn[Own(u)]
      BY <1>0, <1>1, <1>3, <2>2, <3>1
    <3>4. file'[t] # Own(u)
      BY <1>0, <1>9, <2>2, <2>6, <3>1
    <3>5. Threatened(u)'
      BY <1>0, <1>5, <2>1, <2>3, <2>6 DEF Preserved, Threatened, Untouched, First
    <3> QED BY <1>8, <2>6, <3>2, <3>3, <3>4, <3>5
  <2>7. ASSUME pc[u] = "reset" PROVE Untouched(u)' /\ (Exists(First(u))' => First(u) \in found[u])
    BY <1>0, <1>4, <1>6, <2>3, <2>5, <2>7 DEF Preserved, Untouched
  <2>8. ASSUME pc[u] = "create" PROVE u \in testLock' /\ ~Exists(First(u))' /\ dir'
    BY <2>1, <2>5, <2>8 DEF Preserved
  <2> QED BY <1>6, <2>6, <2>7, <2>8 DEF Preserved, First
<1>14. CASE Generate(t) \/ WriteLine(t) \/ WriteNewline(t) \/ End(t)
  <2>1. /\ UNCHANGED <<dir, disk, file, found, testLock>> /\ t \notin testLock
        /\ \A v \in Tests : v # t => pc'[v] = pc[v]
    BY <1>0, <1>4, <1>14 DEF Generate, WriteLine, WriteNewline, End
  <2>2. ASSUME pc[u] \in Past
        PROVE  lines'[Own(u)] = lines[Own(u)] /\ torn'[Own(u)] = torn[Own(u)]
    BY <1>1, <1>3, <1>9, <1>14, <2>2 DEF Generate, WriteLine, WriteNewline, End
  <2>3. pc[u] \in Past => Threatened(u)'
    BY <1>5, <2>1 DEF Preserved, Threatened, Untouched, Exists, First
  <2> QED BY <1>6, <1>8, <1>9, <2>1, <2>2, <2>3 DEF Preserved, Untouched, Exists, First
<1> QED BY <1>10, <1>11, <1>12, <1>13, <1>14 DEF TestStep

\* The step of a request: only a delete removes anything, and means to.
LEMMA RequestPreserves ==
  ASSUME TypeInv, Naming, NEW r \in Requests, RemoveAll(r) \/ Glob(r) \/ RequestStep(r),
         NEW u \in Tests, u \notin spoiled', Preserved(u)
  PROVE  Preserved(u)'
<1> USE DEF diskVars, testVars, reqVars, RGoto
<1>0. /\ disk \in [Names -> Inodes \cup {None}] /\ Tests \cap Requests = {}
      /\ found \in [Tests \cup Requests -> SUBSET Names] /\ testLock \subseteq Tests
  BY TestStoreAssumption DEF TypeInv, TypeOK
<1>1. UNCHANGED <<pc, index, file, batch, lines, torn, testLock>>
  BY DEF RemoveAll, Glob, RequestStep, Remove, Stat, Open, Scan, ScanEnd, Answer
<1>2. \A t \in Tests : found'[t] = found[t]
  <2>1. found' = found \/ \E names : found' = [found EXCEPT ![r] = names]
    BY DEF RemoveAll, Glob, RequestStep, Remove, Stat, Open, Scan, ScanEnd, Answer, Visit
  <2> QED BY <1>0, <2>1
<1>3. CASE pc[u] = "idle"
  BY <1>1, <1>3 DEF Preserved, Past
<1>4. CASE pc[u] # "idle"
  <2>1. /\ dir' = dir
        /\ disk' = disk \/ \E n \in Names : Unlink(n) /\ n.id # ID[u]
    <3>1. ~RemoveAll(r)
      BY <1>4 DEF RemoveAll
    <3>2. ASSUME NEW n \in found[r], Remove(r, n) PROVE Unlink(n) /\ n.id # ID[u] /\ dir' = dir
      BY <1>4, <3>2 DEF Remove
    <3>3. ASSUME ~\E n \in found[r] : Remove(r, n) PROVE disk' = disk /\ dir' = dir
      BY <3>1, <3>3 DEF Glob, RequestStep, Stat, Open, Scan, ScanEnd, Answer
    <3> QED BY <1>0, <3>2, <3>3
  <2>2. \A n \in Names : n.id = ID[u] => disk'[n] = disk[n]
    BY <1>0, <2>1 DEF Unlink
  <2>3. /\ First(u) \in Names /\ First(u).id = ID[u]
        /\ \A v \in Tests : ID[v] = ID[u] => \A n \in found[v] : n \in Names /\ n.id = ID[u]
    BY <1>0, FirstIsName DEF First, Naming
  <2>4. disk'[First(u)] = disk[First(u)]
    BY <2>2, <2>3
  <2>5. ASSUME NEW v \in Tests, ID[v] = ID[u], Untouched(v) PROVE Untouched(v)'
    BY <1>2, <2>2, <2>3, <2>5 DEF Untouched, Exists
  <2>6. Written(u) => Written(u)'
    BY <1>1, <2>4 DEF Written, Own, First, Line, Ended
  <2>7. Threatened(u) => Threatened(u)'
    BY <1>0, <1>1, <1>2, <2>5 DEF Threatened, First
  <2> QED BY <1>1, <1>2, <2>1, <2>4, <2>5, <2>6, <2>7 DEF Preserved, Exists, First
<1> QED BY <1>3, <1>4

LEMMA StepPreserving ==
  ASSUME IDsApart, TypeInv, Naming, Preserving, [Next]_vars
  PROVE  Preserving'
<1>1. ASSUME NEW t \in Tests, Start(t) \/ TestStep(t) PROVE Preserving'
  <2>1. spoiled \subseteq spoiled'
    BY <1>1 DEF Start, TestStep, Reset, Mkdir, Create, Generate, WriteLine, WriteNewline, End
  <2> QED BY <1>1, <2>1, OwnStepPreserves, OtherStepPreserves DEF Preserving
<1>2. ASSUME NEW r \in Requests, RemoveAll(r) \/ Glob(r) \/ RequestStep(r) PROVE Preserving'
  <2>1. spoiled \subseteq spoiled'
    BY <1>2 DEF RemoveAll, Glob, RequestStep, Remove, Stat, Open, Scan, ScanEnd, Answer
  <2> QED BY <1>2, <2>1, RequestPreserves DEF Preserving
<1>3. CASE UNCHANGED vars
  <2>1. UNCHANGED <<dir, disk, lines, torn, testLock, pc, file, batch, found, spoiled>>
    BY <1>3 DEF vars, diskVars, testVars
  <2>2. ASSUME NEW t \in Tests PROVE Written(t)' <=> Written(t)
    BY <2>1 DEF Written, Own, First, Line, Ended
  <2>3. ASSUME NEW t \in Tests PROVE Threatened(t)' <=> Threatened(t)
    BY <2>1 DEF Threatened, Untouched, Exists, First
  <2>4. ASSUME NEW t \in Tests, Preserved(t) PROVE Preserved(t)'
    BY <2>1, <2>2, <2>3, <2>4 DEF Preserved, Untouched, Exists, First
  <2> QED BY <2>1, <2>4 DEF Preserving
<1> QED BY <1>1, <1>2, <1>3 DEF Next, Terminated

LEMMA PreservingInvariance ==
  ASSUME IDsApart
  PROVE  Spec => []Preserving
<1>1. TypeInv /\ Naming /\ Preserving /\ [Next]_vars => Preserving'
  BY StepPreserving
<1> QED BY <1>1, InitPreserving, TypeInvariance, NamingInvariance, PTL DEF Spec

-----------------------------------------------------------------------------
(* What is promised of the files *)

\* Every variable keeps the type it has in the Go program (server.go:65-83,
\* file.go), whatever tests and requests there are; and no test ever needs
\* more files than it has batches, and one.
THEOREM StoreTypeCorrect == Spec => []TypeOK
BY TypeInvariance, PTL DEF TypeInv

\* deleteTestsFromDisk (file.go:61-86) misses no file: what it has not yet
\* visited, or has removed and is there again, is of a test that runs anew.
THEOREM DeletesAreComplete == Spec => []DeleteComplete
<1>1. Deleting => DeleteComplete
  BY DEF Deleting, DeleteComplete
<1> QED BY <1>1, DeletingInvariance, PTL

\* Where no ID is the beginning of another and nobody deletes everything, no
\* two tests ever write to one file, although the name of a file is only the
\* ID and an index (newTest and newTestFile, server.go:364-407, file.go:128-144).
THEOREM WritersAreApart ==
  ASSUME IDsApart
  PROVE  Spec => []OneWriter
<1>1. OwnFiles => OneWriter
  <2> SUFFICES ASSUME OwnFiles, NoWipe, NEW t \in Tests, NEW u \in Tests,
                      file[t] # None, file[t] = file[u]
               PROVE  t = u
    BY DEF OneWriter, Apart, NoWipe
  <2>1. file[t] = Own(t) /\ file[u] = Own(u)
    BY DEF OwnFiles, OwnFile
  <2>2. <<t, 1>> = <<u, 1>>
    BY <2>1 DEF Own
  <2> QED BY <2>2
<1> QED BY <1>1, OwnFilesInvariance, PTL

\* Where no ID is the beginning of another, the data of a test that is over is
\* all on disk unless somebody meant to remove it (sendAndSaveData and
\* resetTestFiles, server.go:538-588, file.go:112-126), deletes of everything
\* in the middle of newTest included.
THEOREM SavedDataIsKept ==
  ASSUME IDsApart
  PROVE  Spec => []SavedComplete
<1>1. TypeInv /\ Naming /\ Preserving => SavedComplete
  <2> SUFFICES ASSUME TypeInv, Naming, Preserving, NEW t \in Kept
               PROVE  Saved(t) = {Line(t, b) : b \in 1..batch[t]}
    BY DEF SavedComplete
  <2>1. /\ t \in Tests /\ pc[t] = "done" /\ Written(t) /\ batch[t] \in 0..Duration
        /\ Duration \in Nat
    BY TestStoreAssumption DEF Kept, Preserving, Preserved, Past, TypeInv, TypeOK
  <2>2. Ended(t) = batch[t]
    BY <2>1 DEF Ended
  <2>3. ASSUME NEW x \in Saved(t) PROVE \E b \in 1..batch[t] : x = Line(t, b)
    <3>0. PICK n \in OnDisk : \E i \in DOMAIN lines[disk[n]] : x = lines[disk[n]][i]
      BY <2>3 DEF Saved
    <3>1. PICK i \in DOMAIN lines[disk[n]] : x = lines[disk[n]][i]
      BY <3>0
    <3>2. PICK b \in 1..Duration : x = Line(t, b)
      BY <2>3 DEF Saved
    <3>3. disk[n] \in Inodes
      BY DEF OnDisk, Exists, TypeInv, TypeOK
    <3>4. lines[disk[n]][i].batch <= batch[lines[disk[n]][i].test]
      BY <3>1, <3>3 DEF Naming
    <3>5. b <= batch[t]
      BY <3>1, <3>2, <3>4 DEF Line
    <3> QED BY <2>1, <3>2, <3>5
  <2>4. ASSUME NEW b \in 1..batch[t] PROVE Line(t, b) \in Saved(t)
    <3>1. PICK j \in DOMAIN lines[Own(t)] : lines[Own(t)][j] = Line(t, b)
      BY <2>1, <2>2 DEF Written
    <3>2. /\ First(t) \in OnDisk /\ First(t).id = ID[t] /\ disk[First(t)] = Own(t)
      BY <2>1, FirstIsName DEF OnDisk, Exists, Written, First
    <3>3. b \in 1..Duration
      BY <2>1
    <3> QED BY <3>1, <3>2, <3>3 DEF Saved
  <2> QED BY <2>3, <2>4
<1> QED BY <1>1, TypeInvariance, NamingInvariance, PreservingInvariance, PTL
=============================================================================

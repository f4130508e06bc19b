---------------------------- MODULE Download_proofs ----------------------------
(***************************************************************************)
(* Proofs about the downloads of TestStore: what a handler sends while the *)
(* test writes the file, and other handlers and tests remove it.           *)
(***************************************************************************)
EXTENDS TestStore_proofs

\* The name with which an inode was made.
NameOf(i) == [id |-> ID[i[1]], index |-> i[2]]

\* The batches of t that have a line in its file, or part of one.
Begun(t) == IF pc[t] \in {"create", "save", "write"} THEN batch[t] - 1 ELSE batch[t]

\* A file that has a name, or is read, or written by anybody, is that of the
\* test that made it; a test that makes a file has none.
Filing ==
  /\ \A n \in Names : Exists(n) => NameOf(disk[n]) = n /\ file[disk[n][1]] = disk[n]
  /\ \A t \in Tests : file[t] # None => file[file[t][1]] = file[t]
  /\ \A t \in Tests : pc[t] = "create" => file[t] = None
  /\ \A r \in Requests : rpc[r] = "scan" => file[input[r].inode[1]] = input[r].inode

\* The file of t has its last batches, one after the other, and the last of
\* them may lack its newline.
Filled(t) ==
  /\ torn[file[t]] = IF pc[t] = "newline" THEN <<Line(t, batch[t])>> ELSE <<>>
  /\ \A j \in DOMAIN Content(file[t]) :
       Content(file[t])[j] = Line(t, Begun(t) - Len(Content(file[t])) + j)

Filling == Apart => \A t \in Tests : file[t] # None => Filled(t)

\* A line that has been sent follows the one before it, or begins its file.
Follows(r, i) ==
  LET line == reply[r][i] IN
  \/ i > 1 /\ reply[r][i - 1] = Line(line.test, line.batch - 1)
  \/ /\ \A j \in 1..(i - 1) : reply[r][j].test # line.test
     /\ line = Content(file[line.test])[1]

\* The file of a line that has been sent will not be opened again.
Sent(r) ==
  \A i \in DOMAIN reply[r] :
    /\ reply[r][i] \in Lines
    /\ file[reply[r][i].test] # None
    /\ NameOf(file[reply[r][i].test]) \notin found[r]
    /\ 1 \in DOMAIN Content(file[reply[r][i].test])
    /\ Follows(r, i)

\* What has been read of the open file is the end of what has been sent.
Reading(r) ==
  LET f == input[r] IN
  /\ f.read <= Len(lines[f.inode])
  /\ NameOf(f.inode) \notin found[r]
  /\ IF f.read = 0
       THEN \A i \in DOMAIN reply[r] : reply[r][i].test # f.inode[1]
       ELSE reply[r] # <<>> /\ reply[r][Len(reply[r])] = lines[f.inode][f.read]

Sending ==
  Apart => \A r \in Requests : Kind[r] = "get" =>
    /\ rpc[r] = "idle" => reply[r] = <<>>
    /\ rpc[r] = "scan" => Reading(r)
    /\ Sent(r)

-----------------------------------------------------------------------------
(* Files keep their makers *)

LEMMA InitFiling == Init => Filing
BY DEF Init, Filing, Exists

\* The name of a new inode is the one it is made with.
LEMMA NameOfNew ==
  ASSUME NEW t \in Tests, index[t] \in 1..MaxIndex
  PROVE  /\ NameOf(<<t, index[t]>>) = Target(t) /\ <<t, index[t]>>[1] = t
         /\ <<t, index[t]>> \in Inodes
BY DEF NameOf, Target, Inodes

\* A test that has a file keeps it.
LEMMA FilesStay ==
  ASSUME TypeInv, Filing, NEW t \in Tests, Start(t) \/ TestStep(t)
  PROVE  /\ \A u \in Tests \ {t} : file'[u] = file[u]
         /\ file[t] # None => file'[t] = file[t]
<1>0. file \in [Tests -> Inodes \cup {None}]
  BY DEF TypeInv, TypeOK
<1>1. CASE Create(t)
  BY <1>0, <1>1 DEF Create, Filing
<1>2. CASE ~Create(t)
  BY <1>2 DEF Start, TestStep, Reset, Mkdir, Generate, WriteLine, WriteNewline, End, testVars
<1> QED BY <1>1, <1>2

LEMMA TestFiling ==
  ASSUME TypeInv, Filing, NEW t \in Tests, Start(t) \/ TestStep(t)
  PROVE  Filing'
<1>0. /\ file \in [Tests -> Inodes \cup {None}] /\ disk \in [Names -> Inodes \cup {None}]
      /\ pc \in [Tests -> Stages] /\ \A i \in Inodes : i[1] \in Tests
  BY DEF TypeInv, TypeOK, Stages, Inodes
<1>1. CASE Create(t) /\ dir
  <2> DEFINE n == Target(t)
             i == Created(t)
  <2>1. /\ n \in Names /\ i \in Inodes /\ pc[t] = "create" /\ file[t] = None
        /\ disk' = [disk EXCEPT ![n] = i] /\ file' = [file EXCEPT ![t] = i]
    BY <1>1, CreateTypes DEF Filing
  <2>2. NameOf(i) = n /\ file'[i[1]] = i
    <3>1. CASE Exists(n)
      <4>1. i = disk[n] /\ NameOf(i) = n /\ file[i[1]] = i
        BY <2>1, <3>1 DEF Created, Filing
      <4>2. i[1] # t
        BY <2>1, <4>1, NoneIsNoInode
      <4> QED BY <1>0, <2>1, <4>1, <4>2
    <3>2. CASE ~Exists(n)
      <4>1. i = <<t, index[t]>>
        BY <3>2 DEF Created
      <4>2. NameOf(i) = n /\ i[1] = t
        BY <1>1, <4>1, CreateTypes, NameOfNew
      <4> QED BY <1>0, <2>1, <4>2
    <3> QED BY <3>1, <3>2
  <2>3. \A u \in Tests : file[u] # None => file'[u] = file[u]
    BY <1>1, FilesStay DEF TestStep
  <2>4. ASSUME NEW m \in Names, Exists(m)' PROVE NameOf(disk'[m]) = m /\ file'[disk'[m][1]] = disk'[m]
    <3>1. CASE m = n
      BY <1>0, <2>1, <2>2, <3>1
    <3>2. CASE m # n
      <4>1. disk'[m] = disk[m] /\ Exists(m) /\ disk[m] \in Inodes
        BY <1>0, <2>1, <2>4, <3>2 DEF Exists
      <4>2. NameOf(disk[m]) = m /\ file[disk[m][1]] = disk[m] /\ file[disk[m][1]] # None
        BY <4>1, NoneIsNoInode DEF Filing
      <4> QED BY <1>0, <2>3, <4>1, <4>2
    <3> QED BY <3>1, <3>2
  <2>5. ASSUME NEW u \in Tests, file'[u] # None PROVE file'[file'[u][1]] = file'[u]
    <3>1. CASE u = t
      BY <1>0, <2>1, <2>2, <3>1
    <3>2. CASE u # t
      <4>1. file'[u] = file[u] /\ file[u] \in Inodes /\ file[u][1] \in Tests
        BY <1>0, <2>1, <2>5, <3>2
      <4>2. file[file[u][1]] = file[u]
        BY <2>5, <4>1 DEF Filing
      <4> QED BY <2>3, <2>5, <4>1, <4>2
    <3> QED BY <3>1, <3>2
  <2>6. ASSUME NEW u \in Tests, pc'[u] = "create" PROVE file'[u] = None
    BY <1>0, <1>1, <2>1, <2>6 DEF Create, Goto, Filing
  <2>7. ASSUME NEW r \in Requests, rpc'[r] = "scan"
        PROVE  file'[input'[r].inode[1]] = input'[r].inode
    <3>1. rpc[r] = "scan" /\ input'[r] = input[r]
      BY <1>1, <2>7 DEF Create, reqVars
    <3>2. input[r].inode \in Inodes /\ file[input[r].inode[1]] = input[r].inode
      BY <3>1 DEF TypeInv, Counting, Filing
    <3> QED BY <1>0, <2>3, <3>1, <3>2, NoneIsNoInode
  <2> QED BY <2>4, <2>5, <2>6, <2>7 DEF Filing
<1>2. CASE ~(Create(t) /\ dir)
  <2>1. /\ UNCHANGED <<file, rpc, input>>
        /\ \A m \in Names : Exists(m)' => Exists(m) /\ disk'[m] = disk[m]
    BY <1>0, <1>2 DEF Start, TestStep, Reset, Unlink, Mkdir, Create, Generate, WriteLine,
       WriteNewline, End, testVars, reqVars, diskVars, Exists
  <2>2. \A u \in Tests : pc'[u] = "create" => pc[u] = "create" \/ (u = t /\ Mkdir(t))
    BY <1>0, <1>2 DEF Start, TestStep, Reset, Mkdir, Create, Generate, WriteLine,
       WriteNewline, End, Goto, testVars
  <2>3. Mkdir(t) => file[t] = None
    BY DEF Mkdir, TypeInv, Counting
  <2> QED BY <2>1, <2>2, <2>3 DEF Filing
<1> QED BY <1>1, <1>2

LEMMA RequestFiling ==
  ASSUME TypeInv, Filing, NEW r \in Requests, RemoveAll(r) \/ Glob(r) \/ RequestStep(r)
  PROVE  Filing'
<1>0. /\ disk \in [Names -> Inodes \cup {None}] /\ \A q \in Requests : found[q] \subseteq Names
      /\ rpc \in [Requests -> {"idle", "visit", "scan", "done"}]
      /\ input \in [Requests -> [inode : Inodes \cup {None}, read : Nat]]
  BY DEF TypeInv, TypeOK
<1>1. /\ UNCHANGED <<file, pc>>
      /\ \A m \in Names : Exists(m)' => Exists(m) /\ disk'[m] = disk[m]
  BY <1>0 DEF RemoveAll, Glob, RequestStep, Remove, Unlink, Stat, Open, Scan, ScanEnd, Answer,
     testVars, diskVars, Exists
<1>2. ASSUME NEW q \in Requests, rpc'[q] = "scan"
      PROVE  file[input'[q].inode[1]] = input'[q].inode
  <2>1. CASE \E n \in found[r] : Open(r, n)
    <3>1. PICK n \in found[r] : Open(r, n)
      BY <2>1
    <3>2. CASE q = r
      <4>1. Exists(n) /\ n \in Names
        BY <1>0, <1>2, <3>1, <3>2 DEF Open, RGoto
      <4>2. input'[r].inode = disk[n]
        BY <1>0, <3>1, <4>1 DEF Open
      <4> QED BY <3>2, <4>1, <4>2 DEF Filing
    <3>3. CASE q # r
      <4>1. rpc[q] = "scan" /\ input'[q] = input[q]
        BY <1>0, <1>2, <3>1, <3>3 DEF Open, RGoto
      <4> QED BY <4>1 DEF Filing
    <3> QED BY <3>2, <3>3
  <2>2. CASE ~\E n \in found[r] : Open(r, n)
    <3>1. rpc[q] = "scan" /\ input'[q].inode = input[q].inode
      <4>1. CASE RemoveAll(r) \/ Glob(r) \/ Answer(r)
        BY <1>0, <1>2, <4>1 DEF RemoveAll, Glob, Answer, RGoto
      <4>2. CASE Scan(r)
        BY <1>0, <1>2, <4>2 DEF Scan
      <4>3. CASE ScanEnd(r)
        BY <1>0, <1>2, <4>3 DEF ScanEnd, RGoto
      <4>4. ASSUME NEW n \in found[r], Remove(r, n) \/ Stat(r, n)
            PROVE  rpc[q] = "scan" /\ input'[q].inode = input[q].inode
        BY <1>0, <1>2, <4>4 DEF Remove, Stat, RGoto
      <4> QED BY <2>2, <4>1, <4>2, <4>3, <4>4 DEF RequestStep
    <3> QED BY <3>1 DEF Filing
  <2> QED BY <2>1, <2>2
<1> QED BY <1>1, <1>2 DEF Filing

LEMMA StepFiling == TypeInv /\ Filing /\ [Next]_vars => Filing'
<1>1. Filing /\ UNCHANGED vars => Filing'
  BY DEF vars, diskVars, testVars, reqVars, Filing, Exists
<1> QED BY <1>1, TestFiling, RequestFiling DEF Next, Terminated

LEMMA FilingInvariance == Spec => []Filing
BY InitFiling, StepFiling, TypeInvariance, PTL DEF Spec

-----------------------------------------------------------------------------
(* What is in the files *)

LEMMA InitFilling == Init => Filling
BY DEF Init, Filling

\* Two tests that write to one file do so for ever.
LEMMA ApartBefore ==
  ASSUME TypeInv, Filing, [Next]_vars, Apart'
  PROVE  Apart
<1>1. ASSUME NEW t \in Tests, Start(t) \/ TestStep(t) PROVE Apart
  <2>1. \A u \in Tests : file[u] # None => file'[u] = file[u]
    BY <1>1, FilesStay
  <2> QED BY <2>1 DEF Apart
<1>2. ASSUME NEW r \in Requests, RemoveAll(r) \/ Glob(r) \/ RequestStep(r) PROVE Apart
  <2>1. UNCHANGED file
    BY <1>2 DEF RemoveAll, Glob, RequestStep, Remove, Stat, Open, Scan, ScanEnd, Answer, testVars
  <2> QED BY <2>1 DEF Apart
<1>3. CASE UNCHANGED vars
  BY <1>3 DEF vars, testVars, Apart
<1> QED BY <1>1, <1>2, <1>3 DEF Next, Terminated

\* As long as nobody shares a file, os.Create makes one that is nobody's.
LEMMA CreateFresh ==
  ASSUME TypeInv, Filing, NEW t \in Tests, Create(t), dir, Apart'
  PROVE  \A u \in Tests : file[u] # Created(t)
<1>0. /\ file \in [Tests -> Inodes \cup {None}] /\ \A i \in Inodes : i[1] \in Tests
  BY DEF TypeInv, TypeOK, Inodes
<1>1. /\ Target(t) \in Names /\ Created(t) \in Inodes /\ file[t] = None
      /\ file' = [file EXCEPT ![t] = Created(t)] /\ index[t] \in 1..MaxIndex
  BY CreateTypes DEF Filing
<1>2. ASSUME NEW u \in Tests, file[u] = Created(t) PROVE FALSE
  <2>1. u # t /\ file'[u] = file[u] /\ file'[t] = Created(t) /\ file'[u] # None
    BY <1>0, <1>1, <1>2, NoneIsNoInode
  <2> QED BY <1>2, <2>1 DEF Apart
<1> QED BY <1>2

\* What a file has gets more, and nothing that it has changes.
Grows(i) ==
  /\ Len(lines[i]) <= Len(lines'[i])
  /\ \A j \in DOMAIN lines[i] : lines'[i][j] = lines[i][j]
  /\ \A j \in DOMAIN Content(i) : /\ j \in DOMAIN (lines'[i] \o torn'[i])
                                  /\ (lines'[i] \o torn'[i])[j] = Content(i)[j]

LEMMA SameGrows ==
  ASSUME TypeInv, NEW i \in Inodes, lines'[i] = lines[i], torn'[i] = torn[i]
  PROVE  Grows(i) /\ lines'[i] \o torn'[i] = Content(i)
<1>1. lines[i] \in Seq(Lines)
  BY DEF TypeInv, TypeOK, Lines
<1>2. Len(lines[i]) <= Len(lines'[i])
  BY <1>1
<1>3. lines'[i] \o torn'[i] = Content(i)
  BY Zenon DEF Content
<1> QED BY <1>2, <1>3, Zenon DEF Grows

\* A file that is not being written has whole lines only.
LEMMA ContentOf ==
  ASSUME TypeInv, NEW t \in Tests, file[t] # None, Filled(t)
  PROVE  /\ file[t] \in Inodes /\ lines[file[t]] \in Seq(Lines)
         /\ Content(file[t]) = IF pc[t] = "newline" THEN Append(lines[file[t]], Line(t, batch[t]))
                                                    ELSE lines[file[t]]
<1>1. file[t] \in Inodes /\ lines[file[t]] \in Seq(Lines)
  BY DEF TypeInv, TypeOK, Lines
<1>2. lines[file[t]] \o <<>> = lines[file[t]]
  BY <1>1
<1>3. lines[file[t]] \o <<Line(t, batch[t])>> = Append(lines[file[t]], Line(t, batch[t]))
  BY <1>1
<1> QED BY <1>1, <1>2, <1>3 DEF Filled, Content

LEMMA OwnFilling ==
  ASSUME TypeInv, Filing, NEW t \in Tests, Start(t) \/ TestStep(t), file[t] # None, Filled(t)
  PROVE  Filled(t)' /\ Grows(file[t])
<1> DEFINE i == file[t]
<1>0. /\ file' = file /\ i \in Inodes /\ i # None /\ pc \in [Tests -> Stages]
      /\ lines \in [Inodes -> Seq(Lines)] /\ torn \in [Inodes -> Seq(Lines)]
      /\ batch \in [Tests -> Nat] /\ Len(lines[i]) \in Nat
      /\ DOMAIN lines[i] = 1..Len(lines[i]) /\ lines[i] \in Seq(Lines)
  <2>1. file' = file
    BY DEF Start, TestStep, Reset, Mkdir, Create, Generate, WriteLine, WriteNewline, End, testVars, Filing
  <2>2. i \in Inodes /\ pc \in [Tests -> Stages] /\ batch \in [Tests -> Nat]
    BY TestStoreAssumption DEF TypeInv, TypeOK, Stages
  <2>3. lines \in [Inodes -> Seq(Lines)] /\ torn \in [Inodes -> Seq(Lines)]
    BY DEF TypeInv, TypeOK, Lines
  <2>4. lines[i] \in Seq(Lines)
    BY <2>2, <2>3
  <2> QED BY <2>1, <2>2, <2>3, <2>4
<1>1. CASE Generate(t) \/ End(t)
  <2>1. /\ UNCHANGED <<lines, torn>> /\ pc[t] # "newline" /\ pc'[t] # "newline"
        /\ Begun(t)' = Begun(t)
    BY <1>0, <1>1 DEF Generate, End, Goto, diskVars, Begun
  <2>2. Grows(i) /\ lines'[i] \o torn'[i] = Content(i)
    BY <1>0, <2>1, SameGrows
  <2>3. Content(file[t])' = Content(file[t]) /\ torn'[file'[t]] = torn[file[t]]
    BY <1>0, <2>1, <2>2 DEF Content
  <2> QED BY <2>1, <2>2, <2>3 DEF Filled
<1>2. CASE WriteLine(t)
  <2>1. /\ pc[t] \in {"write", "save"} /\ pc'[t] = "newline" /\ lines' = lines
        /\ torn' = [torn EXCEPT ![i] = <<Line(t, batch[t])>>] /\ batch' = batch
    BY <1>0, <1>2 DEF WriteLine, Goto
  <2>2. /\ Begun(t) = batch[t] - 1 /\ Begun(t)' = batch[t] /\ batch[t] \in Nat
    BY <1>0, <2>1 DEF Begun
  <2>3. torn'[i] = <<Line(t, batch[t])>>
    BY <1>0, <2>1
  <2>4. Content(i) = lines[i]
    BY <2>1, ContentOf
  <2>5. /\ lines'[i] \o torn'[i] = Append(lines[i], Line(t, batch[t]))
        /\ Content(file[t])' = Append(lines[i], Line(t, batch[t]))
    BY <1>0, <2>1, <2>3 DEF Content
  <2> DEFINE x == Line(t, batch[t])
             s == lines[i]
  <2>6. \A j \in DOMAIN s : s[j] = Line(t, batch[t] - 1 - Len(s) + j)
    BY <2>2, <2>4 DEF Filled
  <2>7. \A j \in 1..(Len(s) + 1) : Append(s, x)[j] = IF j <= Len(s) THEN s[j] ELSE x
    BY <1>0
  <2>8. DOMAIN Append(s, x) = 1..(Len(s) + 1) /\ Len(Append(s, x)) = Len(s) + 1
    BY <1>0
  <2> HIDE DEF i, x, s
  <2>9. ASSUME NEW j \in 1..(Len(s) + 1)
        PROVE  Append(s, x)[j] = Line(t, batch[t] - (Len(s) + 1) + j)
    <3>1. CASE j <= Len(s)
      <4>0. j \in DOMAIN s
        BY <1>0, <3>1 DEF s
      <4>1. s[j] = Line(t, batch[t] - 1 - Len(s) + j)
        BY <2>6, <4>0
      <4>2. batch[t] - 1 - Len(s) + j = batch[t] - (Len(s) + 1) + j
        BY <1>0, <2>2 DEF s
      <4> QED BY <2>7, <3>1, <4>1, <4>2
    <3>2. CASE j > Len(s)
      <4>1. j = Len(s) + 1 /\ Len(s) \in Nat
        BY <1>0, <3>2 DEF s
      <4>2. batch[t] - (Len(s) + 1) + j = batch[t]
        BY <2>2, <4>1
      <4> QED BY <2>7, <3>2, <4>2 DEF x
    <3> QED BY <1>0, <3>1, <3>2 DEF s
  <2>10. Filled(t)'
    BY <1>0, <2>1, <2>2, <2>3, <2>5, <2>8, <2>9 DEF Filled, i, s, x
  <2>11. Grows(i)
    BY <1>0, <2>1, <2>4, <2>5, <2>7, <2>8 DEF Grows, s, x
  <2> QED BY <2>10, <2>11 DEF i
<1>3. CASE WriteNewline(t)
  <2>1. /\ pc[t] = "newline" /\ pc'[t] = "run" /\ batch' = batch
        /\ lines' = [lines EXCEPT ![i] = @ \o torn[i]] /\ torn' = [torn EXCEPT ![i] = <<>>]
    BY <1>0, <1>3 DEF WriteNewline, Goto
  <2>2. torn[i] = <<Line(t, batch[t])>> /\ torn[i] \in Seq(Lines)
    BY <1>0, <2>1 DEF Filled
  <2>3. lines'[i] = lines[i] \o torn[i] /\ torn'[i] = <<>>
    BY <1>0, <2>1
  <2>4. /\ lines[i] \o torn[i] \in Seq(Lines)
        /\ Len(lines[i] \o torn[i]) = Len(lines[i]) + Len(torn[i]) /\ Len(torn[i]) \in Nat
        /\ (lines[i] \o torn[i]) \o <<>> = lines[i] \o torn[i]
        /\ \A j \in DOMAIN lines[i] : (lines[i] \o torn[i])[j] = lines[i][j]
    BY <1>0, <2>2
  <2>5. lines'[i] \o torn'[i] = Content(i) /\ Content(file[t])' = Content(file[t])
    BY <1>0, <2>3, <2>4 DEF Content
  <2>6. Begun(t)' = Begun(t)
    BY <2>1 DEF Begun
  <2>7. Grows(i)
    BY <1>0, <2>3, <2>4, <2>5 DEF Grows
  <2> QED BY <1>0, <2>1, <2>3, <2>5, <2>6, <2>7 DEF Filled
<1>4. CASE Start(t) \/ Mkdir(t) \/ Create(t) \/ \E n \in found[t] : Reset(t, n)
  BY <1>4 DEF Start, Mkdir, Create, Reset, TypeInv, Counting, Filing
<1> QED BY <1>1, <1>2, <1>3, <1>4 DEF TestStep

LEMMA OtherFilling ==
  ASSUME TypeInv, Filing, NEW t \in Tests, Start(t) \/ TestStep(t), Apart, Apart',
         NEW u \in Tests \ {t}, file[u] # None
  PROVE  /\ Grows(file[u])
         /\ lines'[file[u]] \o torn'[file[u]] = Content(file[u])
         /\ pc'[u] = pc[u] /\ batch'[u] = batch[u] /\ torn'[file[u]] = torn[file[u]]
<1> DEFINE i == file[u]
<1>0. /\ i \in Inodes /\ pc \in [Tests -> Stages] /\ batch \in [Tests -> Nat]
      /\ lines \in [Inodes -> Seq(Lines)] /\ torn \in [Inodes -> Seq(Lines)]
      /\ file \in [Tests -> Inodes \cup {None}]
  <2>1. /\ i \in Inodes /\ pc \in [Tests -> Stages] /\ batch \in [Tests -> Nat]
        /\ file \in [Tests -> Inodes \cup {None}]
    BY TestStoreAssumption DEF TypeInv, TypeOK, Stages
  <2>2. lines \in [Inodes -> Seq(Lines)] /\ torn \in [Inodes -> Seq(Lines)]
    BY DEF TypeInv, TypeOK, Lines
  <2> QED BY <2>1, <2>2
<1>1. /\ pc'[u] = pc[u] /\ batch'[u] = batch[u]
  BY <1>0 DEF Start, TestStep, Reset, Mkdir, Create, Generate, WriteLine, WriteNewline, End, Goto,
     testVars
<1>2. lines'[i] = lines[i] /\ torn'[i] = torn[i]
  <2>1. CASE Create(t) /\ dir
    BY <1>0, <2>1, CreateTypes, CreateFresh
  <2>2. CASE WriteLine(t) \/ WriteNewline(t)
    <3>1. file[t] # i
      BY DEF Apart
    <3> QED BY <1>0, <2>2, <3>1 DEF WriteLine, WriteNewline
  <2>3. CASE ~(Create(t) /\ dir) /\ ~(WriteLine(t) \/ WriteNewline(t))
    BY <2>3 DEF Start, TestStep, Reset, Mkdir, Create, Generate, End, diskVars
  <2> QED BY <2>1, <2>2, <2>3
<1>3. Grows(i) /\ lines'[i] \o torn'[i] = Content(i)
  BY <1>0, <1>2, SameGrows
<1> QED BY <1>1, <1>2, <1>3

LEMMA TestFilling ==
  ASSUME TypeInv, Filing, Filling, NEW t \in Tests, Start(t) \/ TestStep(t), Apart, Apart'
  PROVE  /\ Filling'
         /\ \A u \in Tests : file[u] # None => file'[u] = file[u] /\ Grows(file[u])
<1>1. ASSUME NEW u \in Tests, file[u] # None
      PROVE  file'[u] = file[u] /\ Grows(file[u]) /\ Filled(u)'
  <2>1. file'[u] = file[u] /\ Filled(u)
    BY <1>1, FilesStay DEF Filling
  <2>2. CASE u = t
    BY <1>1, <2>1, <2>2, OwnFilling
  <2>3. CASE u # t
    <3>1. /\ Grows(file[u])
          /\ lines'[file[u]] \o torn'[file[u]] = Content(file[u])
          /\ pc'[u] = pc[u] /\ batch'[u] = batch[u] /\ torn'[file[u]] = torn[file[u]]
      BY <1>1, <2>3, OtherFilling
    <3>2. Begun(u)' = Begun(u) /\ Content(file[u])' = Content(file[u])
      BY <2>1, <3>1 DEF Begun, Content
    <3> QED BY <2>1, <3>1, <3>2 DEF Filled
  <2> QED BY <2>1, <2>2, <2>3
<1>2. ASSUME NEW u \in Tests, file[u] = None, file'[u] # None PROVE Filled(u)'
  <2>1. u = t /\ Create(t) /\ dir
    BY <1>2, FilesStay DEF Start, TestStep, Reset, Mkdir, Create, Generate, WriteLine,
       WriteNewline, End, testVars
  <2>2. /\ lines'[file'[t]] = <<>> /\ torn'[file'[t]] = <<>>
    <3>1. Created(t) \in Inodes /\ file' = [file EXCEPT ![t] = Created(t)]
      BY <2>1, CreateTypes
    <3>2. /\ lines' = [lines EXCEPT ![Created(t)] = <<>>]
          /\ torn' = [torn EXCEPT ![Created(t)] = <<>>]
      BY <2>1, CreateTypes
    <3>3. file'[t] = Created(t)
      BY <3>1 DEF TypeInv, TypeOK
    <3> QED BY <3>1, <3>2, <3>3 DEF TypeInv, TypeOK
  <2>4. pc'[t] # "newline"
    BY <2>1 DEF Create, Goto, TypeInv, TypeOK
  <2>3. Content(file[u])' = <<>>
    BY <2>1, <2>2 DEF Content
  <2> QED BY <2>1, <2>2, <2>3, <2>4 DEF Filled
<1> QED BY <1>1, <1>2 DEF Filling

LEMMA StepFilling ==
  ASSUME TypeInv, Filing, Filling, [Next]_vars
  PROVE  Filling'
<1> SUFFICES ASSUME Apart' PROVE Filling'
  BY DEF Filling
<1>0. Apart
  BY ApartBefore
<1>1. ASSUME NEW t \in Tests, Start(t) \/ TestStep(t) PROVE Filling'
  BY <1>0, <1>1, TestFilling
<1>2. ASSUME NEW r \in Requests, RemoveAll(r) \/ Glob(r) \/ RequestStep(r) PROVE Filling'
  <2>1. UNCHANGED <<file, lines, torn, pc, batch>>
    BY <1>2 DEF RemoveAll, Glob, RequestStep, Remove, Stat, Open, Scan, ScanEnd, Answer, testVars,
       diskVars
  <2> QED BY <1>0, <2>1 DEF Filling, Filled, Content, Begun
<1>3. CASE UNCHANGED vars
  BY <1>0, <1>3 DEF vars, testVars, diskVars, Filling, Filled, Content, Begun
<1> QED BY <1>1, <1>2, <1>3 DEF Next, Terminated

LEMMA FillingInvariance == Spec => []Filling
BY InitFilling, StepFilling, TypeInvariance, FilingInvariance, PTL DEF Spec

-----------------------------------------------------------------------------
(* What is sent *)

LEMMA InitSending == Init => Sending
BY DEF Init, Sending, Sent

\* A handler that does nothing has sent what it had sent, if files only grow.
LEMMA SentStays ==
  ASSUME NEW r \in Requests, Sent(r), reply'[r] = reply[r], found'[r] \subseteq found[r],
         \A t \in Tests : file[t] # None => file'[t] = file[t] /\ Grows(file[t])
  PROVE  Sent(r)'
<1> SUFFICES ASSUME NEW i \in DOMAIN reply[r]
             PROVE  /\ reply[r][i] \in Lines
                    /\ file'[reply[r][i].test] # None
                    /\ NameOf(file'[reply[r][i].test]) \notin found'[r]
                    /\ 1 \in DOMAIN Content(file[reply[r][i].test])'
                    /\ Follows(r, i)'
  BY DEF Sent, NameOf
<1> DEFINE line == reply[r][i]
<1>1. /\ line \in Lines /\ file[line.test] # None /\ NameOf(file[line.test]) \notin found[r]
      /\ 1 \in DOMAIN Content(file[line.test]) /\ Follows(r, i)
  BY DEF Sent
<1>2. line.test \in Tests
  BY <1>1 DEF Lines
<1>3. file'[line.test] = file[line.test] /\ Grows(file[line.test])
  BY <1>1, <1>2
<1>4. /\ 1 \in DOMAIN Content(file[line.test])'
      /\ Content(file[line.test])'[1] = Content(file[line.test])[1]
  BY <1>1, <1>3 DEF Grows, Content
<1>5. Follows(r, i)'
  BY <1>1, <1>4 DEF Follows, Line
<1> QED BY <1>1, <1>3, <1>4, <1>5

LEMMA ReadingStays ==
  ASSUME TypeInv, Filing, NEW r \in Requests, rpc[r] = "scan", Reading(r),
         reply'[r] = reply[r], found'[r] \subseteq found[r], input'[r] = input[r],
         \A t \in Tests : file[t] # None => file'[t] = file[t] /\ Grows(file[t]),
         TypeInv'
  PROVE  Reading(r)'
<1> DEFINE f == input[r]
<1>1. f.inode \in Inodes /\ f.inode[1] \in Tests /\ f.read \in Nat
  BY DEF TypeInv, TypeOK, Counting, Inodes
<1>2. Grows(f.inode)
  BY <1>1, NoneIsNoInode DEF Filing
<1>3. lines[f.inode] \in Seq(Lines)
  BY <1>1 DEF TypeInv, TypeOK, Lines
<1>4. f.read <= Len(lines[f.inode]) /\ Len(lines[f.inode]) <= Len(lines'[f.inode])
  BY <1>2 DEF Reading, Grows
<1>5. f.read <= Len(lines'[f.inode])
  <2>1. Len(lines'[f.inode]) \in Int
    <3>1. lines'[f.inode] \in Seq(Lines)
      BY <1>1 DEF TypeInv, TypeOK, Lines
    <3> QED BY <3>1
  <2> QED BY <1>1, <1>3, <1>4, <2>1
<1>6. f.read # 0 => lines'[f.inode][f.read] = lines[f.inode][f.read]
  BY <1>1, <1>2, <1>3, <1>4 DEF Grows
<1> QED BY <1>5, <1>6 DEF Reading, NameOf

LEMMA TestSending ==
  ASSUME TypeInv, TypeInv', Filing, Filling, Sending, NEW t \in Tests, Start(t) \/ TestStep(t),
         Apart, Apart'
  PROVE  Sending'
<1>1. \A u \in Tests : file[u] # None => file'[u] = file[u] /\ Grows(file[u])
  BY TestFilling
<1>2. /\ UNCHANGED <<rpc, reply, input>>
      /\ \A r \in Requests : found'[r] = found[r]
  <2>1. UNCHANGED <<rpc, reply, input>>
    BY DEF Start, TestStep, Reset, Mkdir, Create, Generate, WriteLine, WriteNewline, End, reqVars
  <2>2. found' = found \/ \E s \in SUBSET Names : found' = [found EXCEPT ![t] = s]
    <3>1. CASE Start(t)
      BY <3>1 DEF Start
    <3>2. ASSUME NEW n \in found[t], Reset(t, n)
          PROVE  \E s \in SUBSET Names : found' = [found EXCEPT ![t] = s]
      <4>1. found[t] \ {n} \in SUBSET Names
        BY DEF TypeInv, TypeOK
      <4> QED BY <3>2, <4>1 DEF Reset
    <3>3. CASE ~Start(t) /\ ~\E n \in found[t] : Reset(t, n)
      BY <3>3 DEF TestStep, Mkdir, Create, Generate, WriteLine, WriteNewline, End
    <3> QED BY <3>1, <3>2, <3>3
  <2>3. \A r \in Requests : r # t
    BY TestStoreAssumption
  <2> QED BY <2>1, <2>2, <2>3 DEF TypeInv, TypeOK
<1>3. ASSUME NEW r \in Requests, Kind[r] = "get"
      PROVE  /\ rpc'[r] = "idle" => reply'[r] = <<>>
             /\ rpc'[r] = "scan" => Reading(r)'
             /\ Sent(r)'
  <2>1. /\ rpc[r] = "idle" => reply[r] = <<>>
        /\ rpc[r] = "scan" => Reading(r)
        /\ Sent(r)
    BY <1>3 DEF Sending
  <2>2. rpc[r] = "scan" => Reading(r)'
    BY <1>1, <1>2, <2>1, ReadingStays
  <2>3. Sent(r)'
    BY <1>1, <1>2, <2>1, SentStays
  <2> QED BY <1>2, <2>1, <2>2, <2>3
<1> QED BY <1>3 DEF Sending

LEMMA ConcatBegins ==
  ASSUME NEW S, NEW a \in Seq(S), NEW b \in Seq(S)
  PROVE  /\ a \o b \in Seq(S) /\ Len(a \o b) = Len(a) + Len(b)
         /\ \A j \in 1..Len(a) : (a \o b)[j] = a[j]
         /\ \A j \in 1..Len(b) : (a \o b)[Len(a) + j] = b[j]
OBVIOUS

LEMMA ContentParts ==
  ASSUME TypeInv, NEW i \in Inodes
  PROVE  /\ Content(i) \in Seq(Lines)
         /\ \A j \in 1..Len(lines[i]) : j \in DOMAIN Content(i) /\ Content(i)[j] = lines[i][j]
         /\ \A j \in 1..Len(torn[i]) : /\ Len(lines[i]) + j \in DOMAIN Content(i)
                                       /\ Content(i)[Len(lines[i]) + j] = torn[i][j]
<1>1. lines[i] \in Seq(Lines) /\ torn[i] \in Seq(Lines)
  BY DEF TypeInv, TypeOK, Lines
<1>2. PICK a \in Seq(Lines), b \in Seq(Lines) : a = lines[i] /\ b = torn[i]
  BY <1>1
<1>3. /\ a \o b \in Seq(Lines) /\ Len(a \o b) = Len(a) + Len(b)
      /\ \A j \in 1..Len(a) : (a \o b)[j] = a[j]
      /\ \A j \in 1..Len(b) : (a \o b)[Len(a) + j] = b[j]
  BY ConcatBegins
<1>4. DOMAIN (a \o b) = 1..(Len(a) + Len(b)) /\ Len(a) \in Nat /\ Len(b) \in Nat
  BY <1>3
<1>5. /\ \A j \in 1..Len(a) : j \in DOMAIN (a \o b)
      /\ \A j \in 1..Len(b) : Len(a) + j \in DOMAIN (a \o b)
  BY <1>4
<1>6. Content(i) = a \o b
  BY <1>2 DEF Content
<1> QED BY <1>2, <1>3, <1>5, <1>6

\* The next line of the open file follows the ones that have been sent.
LEMMA SentNext ==
  ASSUME TypeInv, Filing, Filling, Apart, NEW r \in Requests, rpc[r] = "scan",
         Reading(r), Sent(r), input[r].read + 1 \in DOMAIN Content(input[r].inode),
         reply[r] \in Seq(Names \cup Lines),
         reply'[r] = Append(reply[r], Content(input[r].inode)[input[r].read + 1]),
         found'[r] = found[r], UNCHANGED <<file, lines, torn>>
  PROVE  Sent(r)'
<1>1. PICK i \in Inodes, k \in Nat : i = input[r].inode /\ k = input[r].read
  BY DEF TypeInv, TypeOK, Counting
<1>2. PICK t \in Tests : t = i[1]
  BY DEF Inodes
<1>3. lines[i] \in Seq(Lines) /\ torn[i] \in Seq(Lines)
  BY DEF TypeInv, TypeOK, Lines
<1>4. PICK c \in Seq(Lines) : c = Content(i)
  BY ContentParts
<1>5. PICK m \in Nat : m = Len(lines[i])
  <2>1. Len(lines[i]) \in Nat
    BY <1>3
  <2> QED BY <2>1
<1>6. /\ \A j \in 1..m : c[j] = lines[i][j]
      /\ k + 1 \in DOMAIN c
  <2>1. \A j \in 1..m : c[j] = lines[i][j]
    BY <1>4, <1>5, ContentParts
  <2> QED BY <1>1, <1>4, <2>1
<1>7. PICK x \in Lines : x = c[k + 1]
  BY <1>6
<1>8. PICK n \in Nat : n = Len(reply[r])
  OBVIOUS
<1>9. /\ file[t] = i /\ file[t] # None /\ Filled(t)
  BY <1>1, <1>2, NoneIsNoInode DEF Filing, Filling
<1>10. PICK b \in Int : \A j \in DOMAIN c : c[j] = Line(t, b + j)
  <2>1. Begun(t) - Len(Content(file[t])) \in Int
    <3>1. Begun(t) \in Int
      BY TestStoreAssumption DEF Begun, TypeInv, TypeOK
    <3>2. Len(Content(file[t])) \in Int
      BY <1>4, <1>9
    <3> QED BY <3>1, <3>2
  <2>2. \A j \in DOMAIN c : c[j] = Line(t, Begun(t) - Len(Content(file[t])) + j)
    BY <1>4, <1>9 DEF Filled
  <2> QED BY <2>1, <2>2
<1>11. x.test = t /\ x.batch = b + (k + 1)
  BY <1>6, <1>7, <1>10 DEF Line
<1>12. /\ k <= m /\ NameOf(i) \notin found[r]
       /\ k = 0 => \A j \in DOMAIN reply[r] : reply[r][j].test # t
       /\ k # 0 => reply[r] # <<>> /\ reply[r][n] = lines[i][k]
  BY <1>1, <1>2, <1>5, <1>8 DEF Reading
<1>13. /\ DOMAIN reply[r] = 1..n /\ DOMAIN reply'[r] = 1..(n + 1)
       /\ \A j \in 1..n : reply'[r][j] = reply[r][j]
       /\ reply'[r][n + 1] = x
  <2>1. reply'[r] = Append(reply[r], x)
    BY <1>1, <1>4, <1>7
  <2> QED BY <1>8, <2>1
<1>14. lines'[file'[t]] \o torn'[file'[t]] = c
  BY <1>4, <1>9 DEF Content
<1>15. Follows(r, n + 1)'
  <2>1. CASE k = 0
    <3>1. \A j \in 1..((n + 1) - 1) : reply'[r][j].test # x.test
      BY <1>11, <1>12, <1>13, <2>1
    <3>2. x = Content(file[x.test])'[1]
      BY <1>7, <1>11, <1>14, <2>1 DEF Content
    <3> QED BY <1>13, <3>1, <3>2 DEF Follows
  <2>2. CASE k # 0
    <3>1. k \in 1..m /\ k \in DOMAIN c /\ n >= 1
      <4>1. k \in 1..m
        BY <1>12, <2>2
      <4>2. k \in DOMAIN c
        BY <1>6, <2>2
      <4>3. n # 0
        BY <1>8, <1>12, <2>2
      <4> QED BY <4>1, <4>2, <4>3
    <3>2. reply'[r][n] = c[k] /\ c[k] = Line(t, b + k)
      BY <1>6, <1>10, <1>12, <1>13, <2>2, <3>1
    <3>3. b + k = x.batch - 1
      BY <1>11
    <3>4. (n + 1) - 1 = n /\ n + 1 > 1
      BY <3>1
    <3>5. reply'[r][n] = Line(x.test, x.batch - 1)
      BY <1>11, <3>2, <3>3
    <3> QED BY <1>13, <3>4, <3>5 DEF Follows, Line
  <2> QED BY <2>1, <2>2
<1>16. ASSUME NEW j \in 1..n
       PROVE  /\ reply'[r][j] \in Lines
              /\ file'[reply'[r][j].test] # None
              /\ NameOf(file'[reply'[r][j].test]) \notin found'[r]
              /\ 1 \in DOMAIN Content(file[reply[r][j].test])'
              /\ Follows(r, j)'
  <2>1. /\ reply[r][j] \in Lines /\ file[reply[r][j].test] # None
        /\ NameOf(file[reply[r][j].test]) \notin found[r]
        /\ 1 \in DOMAIN Content(file[reply[r][j].test])
        /\ Follows(r, j)
    BY <1>13 DEF Sent
  <2>2. reply'[r][j] = reply[r][j] /\ \A p \in 1..(j - 1) : reply'[r][p] = reply[r][p]
    BY <1>13
  <2>3. j > 1 => reply'[r][j - 1] = reply[r][j - 1]
    BY <1>13
  <2>4. Follows(r, j)'
    BY <2>1, <2>2, <2>3 DEF Follows, Content
  <2> QED BY <2>1, <2>2, <2>4 DEF Content
<1>17. /\ x \in Lines /\ file'[x.test] # None /\ NameOf(file'[x.test]) \notin found'[r]
       /\ 1 \in DOMAIN (lines'[file'[x.test]] \o torn'[file'[x.test]])
  <2>1. file'[x.test] = i
    BY <1>9, <1>11
  <2>2. 1 \in DOMAIN c
    BY <1>6
  <2> QED BY <1>9, <1>11, <1>12, <1>14, <2>1, <2>2 DEF NameOf
<1>18. ASSUME NEW j \in 1..(n + 1)
       PROVE  /\ reply'[r][j] \in Lines
              /\ file'[reply'[r][j].test] # None
              /\ NameOf(file'[reply'[r][j].test]) \notin found'[r]
              /\ 1 \in DOMAIN Content(file[reply[r][j].test])'
              /\ Follows(r, j)'
  <2>1. CASE j \in 1..n
    BY <1>16, <2>1
  <2>2. CASE j = n + 1
    <3>1. reply'[r][j] = x /\ reply'[r][n + 1] = x
      BY <1>13, <2>2
    <3>2. Content(file[reply[r][j].test])' = lines'[file'[x.test]] \o torn'[file'[x.test]]
      BY <3>1 DEF Content
    <3>3. Follows(r, j)'
      BY <1>15, <2>2
    <3>4. reply'[r][j] \in Lines
      BY <1>17, <3>1
    <3>5. file'[reply'[r][j].test] # None /\ NameOf(file'[reply'[r][j].test]) \notin found'[r]
      BY <1>17, <3>1
    <3>6. 1 \in DOMAIN Content(file[reply[r][j].test])'
      BY <1>17, <3>2
    <3> QED BY <3>3, <3>4, <3>5, <3>6
  <2>3. j \in 1..n \/ j = n + 1
    OBVIOUS
  <2> QED BY <2>1, <2>2, <2>3
<1> QED BY <1>13, <1>18 DEF Sent, NameOf

LEMMA RequestSending ==
  ASSUME TypeInv, TypeInv', Filing, Filling, Sending, Apart,
         NEW r \in Requests, RemoveAll(r) \/ Glob(r) \/ RequestStep(r)
  PROVE  Sending'
<1>0. /\ found \in [Tests \cup Requests -> SUBSET Names]
      /\ rpc \in [Requests -> {"idle", "visit", "scan", "done"}]
      /\ input \in [Requests -> [inode : Inodes \cup {None}, read : Nat]]
      /\ reply \in [Requests -> Seq(Names \cup Lines)]
      /\ disk \in [Names -> Inodes \cup {None}]
  BY DEF TypeInv, TypeOK, Lines
<1>1. UNCHANGED <<file, lines, torn, pc, batch>>
  BY DEF RemoveAll, Glob, RequestStep, Remove, Stat, Open, Scan, ScanEnd, Answer, testVars, diskVars
<1>2. \A t \in Tests : file[t] # None => file'[t] = file[t] /\ Grows(file[t])
  <2>1. ASSUME NEW t \in Tests, file[t] # None PROVE Grows(file[t])
    <3>1. file[t] \in Inodes
      BY <2>1 DEF TypeInv, TypeOK
    <3> QED BY <1>1, <3>1, SameGrows
  <2> QED BY <1>1, <2>1
<1>3. ASSUME NEW q \in Requests, Kind[q] = "get", q # r
      PROVE  /\ rpc'[q] = "idle" => reply'[q] = <<>>
             /\ rpc'[q] = "scan" => Reading(q)'
             /\ Sent(q)'
  <2>1. /\ rpc[q] = "idle" => reply[q] = <<>>
        /\ rpc[q] = "scan" => Reading(q)
        /\ Sent(q)
    BY <1>3 DEF Sending
  <2>2. /\ rpc'[q] = rpc[q] /\ input'[q] = input[q] /\ reply'[q] = reply[q] /\ found'[q] = found[q]
    <3>1. CASE RemoveAll(r) \/ Glob(r) \/ Answer(r)
      BY <1>0, <1>3, <3>1 DEF RemoveAll, Glob, Answer, RGoto
    <3>2. CASE Scan(r) \/ ScanEnd(r)
      BY <1>0, <1>3, <3>2 DEF Scan, ScanEnd, RGoto
    <3>3. ASSUME NEW n \in found[r], Remove(r, n) \/ Stat(r, n) \/ Open(r, n)
          PROVE  /\ rpc'[q] = rpc[q] /\ input'[q] = input[q]
                 /\ reply'[q] = reply[q] /\ found'[q] = found[q]
      BY <1>0, <1>3, <3>3 DEF Remove, Stat, Open, RGoto, Visit
    <3> QED BY <3>1, <3>2, <3>3 DEF RequestStep
  <2>3. rpc[q] = "scan" => Reading(q)'
    BY <1>2, <2>1, <2>2, ReadingStays
  <2>4. Sent(q)'
    BY <1>2, <2>1, <2>2, SentStays
  <2> QED BY <2>1, <2>2, <2>3, <2>4
<1>4. ASSUME Kind[r] = "get"
      PROVE  /\ rpc'[r] = "idle" => reply'[r] = <<>>
             /\ rpc'[r] = "scan" => Reading(r)'
             /\ Sent(r)'
  <2>1. /\ rpc[r] = "idle" => reply[r] = <<>>
        /\ rpc[r] = "scan" => Reading(r)
        /\ Sent(r)
    BY <1>4 DEF Sending
  <2>2. CASE Glob(r)
    <3>1. reply'[r] = <<>> /\ rpc'[r] = "visit"
      BY <1>0, <2>1, <2>2 DEF Glob, RGoto
    <3> QED BY <3>1 DEF Sent
  <2>3. CASE Answer(r)
    <3>1. reply'[r] = reply[r] /\ found'[r] = found[r] /\ rpc'[r] = "done"
      BY <1>0, <2>3 DEF Answer, RGoto
    <3>2. Sent(r)'
      BY <1>2, <2>1, <3>1, SentStays
    <3> QED BY <3>1, <3>2
  <2>4. ASSUME NEW n \in found[r], Open(r, n)
        PROVE  /\ rpc'[r] = "idle" => reply'[r] = <<>>
               /\ rpc'[r] = "scan" => Reading(r)'
               /\ Sent(r)'
    <3>1. /\ reply' = reply /\ found'[r] = found[r] \ {n} /\ n \in Names
      BY <1>0, <2>4 DEF Open, Visit
    <3>2. Sent(r)'
      BY <1>2, <2>1, <3>1, SentStays
    <3>3. rpc'[r] # "idle"
      BY <1>0, <2>4 DEF Open, RGoto
    <3>4. ASSUME rpc'[r] = "scan" PROVE Reading(r)'
      <4>1. Exists(n)
        BY <1>0, <2>4, <3>4 DEF Open, RGoto
      <4>2. input'[r] = [inode |-> disk[n], read |-> 0]
        BY <1>0, <2>4, <4>1 DEF Open
      <4>3. disk[n] \in Inodes /\ NameOf(disk[n]) = n /\ file[disk[n][1]] = disk[n]
        BY <1>0, <3>1, <4>1 DEF Exists, Filing
      <4>4. \A j \in DOMAIN reply[r] : reply[r][j].test # disk[n][1]
        BY <2>1, <4>3 DEF Sent
      <4>5. 0 <= Len(lines'[disk[n]])
        <5>1. lines[disk[n]] \in Seq(Lines)
          BY <4>3 DEF TypeInv, TypeOK, Lines
        <5> QED BY <1>1, <5>1
      <4> QED BY <3>1, <4>2, <4>3, <4>4, <4>5 DEF Reading, NameOf
    <3> QED BY <3>2, <3>3, <3>4
  <2>5. CASE Scan(r) \/ ScanEnd(r)
    <3>1. PICK i \in Inodes, k \in Nat : i = input[r].inode /\ k = input[r].read
      BY <2>5 DEF Scan, ScanEnd, TypeInv, TypeOK, Counting
    <3>2. /\ rpc[r] = "scan" /\ found'[r] = found[r] /\ reply[r] \in Seq(Names \cup Lines)
          /\ lines[i] \in Seq(Lines) /\ torn[i] \in Seq(Lines)
      <4>1. rpc[r] = "scan" /\ found'[r] = found[r] /\ reply[r] \in Seq(Names \cup Lines)
        BY <1>0, <2>5 DEF Scan, ScanEnd
      <4>2. lines[i] \in Seq(Lines) /\ torn[i] \in Seq(Lines)
        BY DEF TypeInv, TypeOK, Lines
      <4> QED BY <4>1, <4>2
    <3>3. Reading(r) /\ k <= Len(lines[i]) /\ Len(lines[i]) \in Nat
      <4>1. Reading(r) /\ k <= Len(lines[i])
        BY <2>1, <3>1, <3>2 DEF Reading
      <4>2. Len(lines[i]) \in Nat
        BY <3>2
      <4> QED BY <4>1, <4>2
    <3>4. CASE Scan(r)
      <4>1. /\ k < Len(lines[i]) /\ reply'[r] = Append(reply[r], lines[i][k + 1])
            /\ input'[r].inode = i /\ input'[r].read = k + 1 /\ rpc' = rpc
        BY <1>0, <3>1, <3>4 DEF Scan
      <4>2. /\ k + 1 \in DOMAIN Content(i) /\ Content(i)[k + 1] = lines[i][k + 1]
        <5>1. k + 1 \in 1..Len(lines[i])
          BY <3>3, <4>1
        <5> QED BY <5>1, ContentParts
      <4>3. Sent(r)'
        BY <1>1, <2>1, <3>1, <3>2, <3>3, <4>1, <4>2, SentNext
      <4>4. Reading(r)'
        <5>1. /\ reply'[r] # <<>> /\ reply'[r][Len(reply'[r])] = lines[i][k + 1]
          <6>1. lines[i][k + 1] \in Lines
            BY <3>2, <3>3, <4>1
          <6>2. PICK x \in Lines : x = lines[i][k + 1]
            BY <6>1
          <6>3. PICK s \in Seq(Names \cup Lines) : s = reply[r]
            BY <3>2
          <6>4. Append(s, x) # <<>> /\ Append(s, x)[Len(Append(s, x))] = x
            BY <6>2, <6>3
          <6> QED BY <4>1, <6>2, <6>3, <6>4
        <5>2. k + 1 <= Len(lines[i]) /\ k + 1 # 0
          BY <3>1, <3>3, <4>1
        <5>3. NameOf(i) \notin found'[r]
          BY <3>1, <3>2, <3>3 DEF Reading
        <5> QED BY <1>1, <4>1, <5>1, <5>2, <5>3 DEF Reading, NameOf
      <4> QED BY <3>2, <4>1, <4>3, <4>4
    <3>5. CASE ScanEnd(r)
      <4>1. /\ k = Len(lines[i]) /\ reply'[r] = reply[r] \o torn[i] /\ rpc'[r] = "visit"
        BY <1>0, <3>1, <3>3, <3>5 DEF ScanEnd, RGoto
      <4>2. PICK t \in Tests : t = i[1]
        BY DEF Inodes
      <4>3. file[t] = i /\ Filled(t)
        BY <3>1, <3>2, <4>2, NoneIsNoInode DEF Filing, Filling
      <4>4. CASE torn[i] = <<>>
        <5>1. reply'[r] = reply[r]
          BY <3>2, <4>1, <4>4
        <5>2. Sent(r)'
          BY <1>2, <2>1, <3>2, <5>1, SentStays
        <5> QED BY <4>1, <5>2
      <4>5. CASE torn[i] # <<>>
        <5>1. PICK x : torn[i] = <<x>>
          BY <4>3, <4>5 DEF Filled
        <5>2. x \in Lines
          BY <3>2, <5>1
        <5>3. /\ Content(i)[k + 1] = x /\ k + 1 \in DOMAIN Content(i)
          <6>1. Len(torn[i]) = 1 /\ torn[i][1] = x
            BY <5>1
          <6>2. 1 \in 1..Len(torn[i])
            BY <6>1
          <6> QED BY <4>1, <6>1, <6>2, ContentParts
        <5>4. reply'[r] = Append(reply[r], x)
          BY <3>2, <4>1, <5>1, <5>2
        <5>5. Sent(r)'
          BY <1>1, <2>1, <3>1, <3>2, <3>3, <5>3, <5>4, SentNext
        <5> QED BY <4>1, <5>5
      <4> QED BY <4>4, <4>5
    <3> QED BY <2>5, <3>4, <3>5
  <2>6. ~RemoveAll(r) /\ \A n \in found[r] : ~Remove(r, n) /\ ~Stat(r, n)
    BY <1>4 DEF RemoveAll, Remove, Stat
  <2> QED BY <2>2, <2>3, <2>4, <2>5, <2>6 DEF RequestStep
<1> QED BY <1>3, <1>4 DEF Sending

LEMMA StepSending ==
  ASSUME TypeInv, TypeInv', Filing, Filling, Sending, [Next]_vars
  PROVE  Sending'
<1> SUFFICES ASSUME Apart' PROVE Sending'
  BY DEF Sending
<1>0. Apart
  BY ApartBefore
<1>1. CASE UNCHANGED vars
  BY <1>0, <1>1 DEF vars, diskVars, testVars, reqVars, Sending, Sent, Reading, Follows, Content, NameOf
<1> QED BY <1>0, <1>1, TestSending, RequestSending DEF Next, Terminated

LEMMA SendingInvariance == Spec => []Sending
BY InitSending, StepSending, TypeInvariance, FilingInvariance, FillingInvariance, PTL DEF Spec

-----------------------------------------------------------------------------
(* Nothing is left out *)

\* A line that the download r is to send has been sent, or is in a file that r
\* has found, or further on in the file that r reads.
Pending(r, t, b) ==
  \/ \E i \in DOMAIN reply[r] : reply[r][i] = Line(t, b)
  \/ rpc[r] \in {"visit", "scan"} /\ First(t) \in found[r]
  \/ /\ rpc[r] = "scan" /\ input[r].inode = Own(t)
     /\ \E j \in DOMAIN lines[Own(t)] : j > input[r].read /\ lines[Own(t)][j] = Line(t, b)

Downloading ==
  \A r \in Requests : Kind[r] = "get" /\ ~failed[r] =>
    \A t \in sure[r].tests \ spoiled : ID[t] = ID[r] =>
      \A b \in 1..batch[t] : Pending(r, t, b)

LEMMA InitDownloading == Init => Downloading
BY DEF Init, Downloading

\* A test that is over does nothing, and its file is nobody else's.
LEMMA TestDownloading ==
  ASSUME TypeInv, Deleting, Preserving, Preserving', Downloading,
         NEW u \in Tests, Start(u) \/ TestStep(u)
  PROVE  Downloading'
<1>1. UNCHANGED <<rpc, reply, input, failed, sure>>
  BY DEF Start, TestStep, Reset, Mkdir, Create, Generate, WriteLine, WriteNewline, End, reqVars
<1>2. \A r \in Requests : found'[r] = found[r]
  <2>1. \A r \in Requests : r # u
    BY TestStoreAssumption
  <2> QED BY <2>1 DEF Start, TestStep, Reset, Mkdir, Create, Generate, WriteLine, WriteNewline, End,
         TypeInv, TypeOK
<1>3. spoiled \subseteq spoiled'
  BY DEF Start, TestStep, Reset, Mkdir, Create, Generate, WriteLine, WriteNewline, End
<1>4. ASSUME NEW r \in Requests, Kind[r] = "get", ~failed[r],
             NEW t \in sure[r].tests, t \notin spoiled', ID[t] = ID[r], NEW b \in 1..batch'[t]
      PROVE  Pending(r, t, b)'
  <2>1. t \in Tests /\ t \notin spoiled /\ pc[t] = "done"
    BY <1>3, <1>4 DEF Deleting, TypeInv, TypeOK
  <2>2. u # t /\ pc'[t] = "done" /\ batch'[t] = batch[t]
    BY <2>1 DEF Start, TestStep, Reset, Mkdir, Create, Generate, WriteLine, WriteNewline, End, Goto,
       testVars, TypeInv, TypeOK
  <2>3. t \in Tests \ spoiled' /\ pc'[t] \in Past
    BY <1>4, <2>1, <2>2 DEF Past
  <2>4. Written(t)' /\ Written(t)
    <3>1. Preserved(t)' /\ Preserved(t)
      BY <2>1, <2>3 DEF Preserving
    <3> QED BY <2>1, <2>3, <3>1 DEF Preserved, Past
  <2>5. lines'[Own(t)] = lines[Own(t)]
    <3>1. file[u] # Own(t) /\ file'[u] # Own(t) /\ Own(t) \in Inodes
      <4>1. file[u] # Own(t) /\ file[t] = Own(t)
        BY <2>1, <2>2, <2>4 DEF Written
      <4>2. file'[u] # Own(t)
        BY <2>1, <2>2, <2>4 DEF Written, Own
      <4>3. Own(t) \in Inodes
        BY <2>1, <4>1, FirstIsName DEF TypeInv, TypeOK
      <4> QED BY <4>1, <4>2, <4>3
    <3>2. CASE Create(u) /\ dir
      <4>1. Created(u) # Own(t)
        BY <3>1, <3>2, CreateTypes DEF TypeInv, TypeOK
      <4>2. lines' = [lines EXCEPT ![Created(u)] = <<>>]
        BY <3>2, CreateTypes
      <4> QED BY <3>1, <4>1, <4>2 DEF TypeInv, TypeOK
    <3>3. CASE WriteNewline(u)
      BY <3>1, <3>3 DEF WriteNewline, TypeInv, TypeOK
    <3>4. CASE ~(Create(u) /\ dir) /\ ~WriteNewline(u)
      BY <3>4 DEF Start, TestStep, Reset, Mkdir, Create, Generate, WriteLine, End, diskVars
    <3> QED BY <3>2, <3>3, <3>4
  <2>6. Pending(r, t, b)
    BY <1>4, <2>1, <2>2 DEF Downloading
  <2> QED BY <1>1, <1>2, <2>5, <2>6 DEF Pending, First, Own, Line
<1> QED BY <1>1, <1>4 DEF Downloading

LEMMA RequestDownloading ==
  ASSUME TypeInv, Deleting, Preserving, Downloading,
         NEW r \in Requests, RemoveAll(r) \/ Glob(r) \/ RequestStep(r)
  PROVE  Downloading'
<1>0. /\ found \in [Tests \cup Requests -> SUBSET Names]
      /\ rpc \in [Requests -> {"idle", "visit", "scan", "done"}]
      /\ input \in [Requests -> [inode : Inodes \cup {None}, read : Nat]]
      /\ reply \in [Requests -> Seq(Names \cup Lines)]
      /\ failed \in [Requests -> BOOLEAN]
      /\ sure \in [Requests -> [names : SUBSET Names, tests : SUBSET Tests]]
  BY DEF TypeInv, TypeOK, Lines
<1>1. UNCHANGED <<lines, torn, pc, batch>> /\ spoiled \subseteq spoiled'
  BY DEF RemoveAll, Glob, RequestStep, Remove, Stat, Open, Scan, ScanEnd, Answer, testVars, diskVars
<1>2. ASSUME NEW q \in Requests, Kind[q] = "get", ~failed'[q], q # r,
             NEW t \in sure'[q].tests, t \notin spoiled', ID[t] = ID[q], NEW b \in 1..batch[t]
      PROVE  Pending(q, t, b)'
  <2>1. /\ rpc'[q] = rpc[q] /\ input'[q] = input[q] /\ reply'[q] = reply[q] /\ found'[q] = found[q]
        /\ failed'[q] = failed[q] /\ sure'[q] = sure[q]
    <3>1. CASE RemoveAll(r) \/ Glob(r) \/ Answer(r)
      BY <1>0, <1>2, <3>1 DEF RemoveAll, Glob, Answer, RGoto
    <3>2. CASE Scan(r) \/ ScanEnd(r)
      BY <1>0, <1>2, <3>2 DEF Scan, ScanEnd, RGoto
    <3>3. ASSUME NEW n \in found[r], Remove(r, n) \/ Stat(r, n) \/ Open(r, n)
          PROVE  /\ rpc'[q] = rpc[q] /\ input'[q] = input[q]
                 /\ reply'[q] = reply[q] /\ found'[q] = found[q]
                 /\ failed'[q] = failed[q] /\ sure'[q] = sure[q]
      BY <1>0, <1>2, <3>3 DEF Remove, Stat, Open, RGoto, Visit
    <3> QED BY <3>1, <3>2, <3>3 DEF RequestStep
  <2>2. Pending(q, t, b)
    BY <1>1, <1>2, <2>1 DEF Downloading
  <2> QED BY <1>1, <2>1, <2>2 DEF Pending
<1>3. ASSUME Kind[r] = "get", ~failed'[r],
             NEW t \in sure'[r].tests, t \notin spoiled', ID[t] = ID[r], NEW b \in 1..batch[t]
      PROVE  Pending(r, t, b)'
  <2>1. CASE Glob(r)
    <3>1. /\ sure'[r].tests = Kept /\ rpc'[r] = "visit"
          /\ found'[r] = {n \in OnDisk : n.id = ID[r]}
      BY <1>0, <1>3, <2>1 DEF Glob, RGoto
    <3>2. t \in Tests \ spoiled /\ pc[t] = "done"
      BY <1>3, <3>1 DEF Kept
    <3>3. disk[First(t)] = Own(t)
      BY <3>2 DEF Preserving, Preserved, Past, Written
    <3>4. First(t) \in OnDisk /\ First(t).id = ID[r]
      BY <1>3, <3>2, <3>3, FirstIsName DEF OnDisk, Exists, First
    <3> QED BY <3>1, <3>4 DEF Pending, First
  <2>2. ASSUME ~Glob(r) PROVE Pending(r, t, b)'
    <3>1. sure' = sure /\ ~failed[r]
      BY <1>0, <1>3, <2>2 DEF RemoveAll, RequestStep, Remove, Stat, Open, Scan, ScanEnd, Answer
    <3>2. /\ t \in Tests \ spoiled /\ t \in sure[r].tests /\ pc[t] = "done"
          /\ Pending(r, t, b)
      BY <1>0, <1>1, <1>3, <3>1 DEF Downloading, Deleting
    <3>3. Written(t) /\ Ended(t) = batch[t]
      BY <3>2 DEF Preserving, Preserved, Past, Ended
    <3>4. CASE Answer(r)
      <4>1. rpc[r] = "visit" /\ found[r] = {} /\ reply' = reply
        BY <3>4 DEF Answer
      <4> QED BY <3>2, <4>1 DEF Pending, Line
    <3>5. ASSUME NEW n \in found[r], Open(r, n) PROVE Pending(r, t, b)'
      <4>1. /\ rpc[r] = "visit" /\ reply' = reply /\ found'[r] = found[r] \ {n}
            /\ Exists(n) /\ rpc'[r] = "scan" /\ input'[r] = [inode |-> disk[n], read |-> 0]
        BY <1>0, <1>3, <3>5 DEF Open, Visit, RGoto
      <4>2. CASE n = First(t)
        <5>1. disk[n] = Own(t)
          BY <3>3, <4>2 DEF Written
        <5>2. PICK j \in DOMAIN lines[Own(t)] : lines[Own(t)][j] = Line(t, b)
          BY <3>3, <1>3 DEF Written
        <5>3. j > 0
          <6>1. Own(t) \in Inodes
            BY <5>1, <4>1 DEF Exists, TypeInv, TypeOK, Written
          <6>2. lines[Own(t)] \in Seq(Lines)
            BY <6>1 DEF TypeInv, TypeOK, Lines
          <6> QED BY <6>2
        <5> QED BY <1>1, <4>1, <5>1, <5>2, <5>3 DEF Pending, Own, Line
      <4>3. CASE n # First(t)
        BY <3>2, <4>1, <4>3 DEF Pending, First, Line
      <4> QED BY <4>2, <4>3
    <3>6. CASE Scan(r)
      <4>1. /\ reply'[r] = Append(reply[r], lines[input[r].inode][input[r].read + 1])
            /\ input'[r] = [input[r] EXCEPT !.read = @ + 1] /\ UNCHANGED <<rpc, found>>
            /\ input[r].read < Len(lines[input[r].inode])
        BY <1>0, <3>6 DEF Scan
      <4>2. PICK s \in Seq(Names \cup Lines), x \in Lines :
              s = reply[r] /\ x = lines[input[r].inode][input[r].read + 1]
        <5>1. lines[input[r].inode] \in Seq(Lines) /\ input[r].read \in Nat
          BY <3>6 DEF Scan, TypeInv, TypeOK, Counting, Lines
        <5>2. lines[input[r].inode][input[r].read + 1] \in Lines
          BY <4>1, <5>1
        <5> QED BY <1>0, <5>2
      <4>3. /\ \A i \in DOMAIN s : i \in DOMAIN Append(s, x) /\ Append(s, x)[i] = s[i]
            /\ \E i \in DOMAIN Append(s, x) : Append(s, x)[i] = x
        <5>1. /\ DOMAIN Append(s, x) = 1..(Len(s) + 1) /\ DOMAIN s = 1..Len(s) /\ Len(s) \in Nat
              /\ Append(s, x)[Len(s) + 1] = x
              /\ \A i \in 1..Len(s) : Append(s, x)[i] = s[i]
          OBVIOUS
        <5> QED BY <5>1
      <4>4. reply'[r] = Append(s, x)
        BY <4>1, <4>2
      <4>5. CASE \E i \in DOMAIN reply[r] : reply[r][i] = Line(t, b)
        BY <4>2, <4>3, <4>4, <4>5 DEF Pending, Line
      <4>6. CASE rpc[r] \in {"visit", "scan"} /\ First(t) \in found[r]
        BY <4>1, <4>6 DEF Pending, First
      <4>7. ASSUME rpc[r] = "scan", input[r].inode = Own(t), NEW j \in DOMAIN lines[Own(t)],
                   j > input[r].read, lines[Own(t)][j] = Line(t, b)
            PROVE  Pending(r, t, b)'
        <5>1. j \in Nat /\ input[r].read \in Nat
          <6>1. lines[Own(t)] \in Seq(Lines)
            BY <4>7 DEF TypeInv, TypeOK, Counting, Lines
          <6>2. input[r].read \in Nat
            BY <1>0
          <6> QED BY <6>1, <6>2
        <5>2. CASE j = input[r].read + 1
          BY <4>2, <4>3, <4>4, <4>7, <5>2 DEF Pending, Line
        <5>3. CASE j # input[r].read + 1
          <6>1. j > input[r].read + 1
            BY <4>7, <5>1, <5>3
          <6>2. input'[r].read = input[r].read + 1 /\ input'[r].inode = input[r].inode
            BY <1>0, <4>1
          <6> QED BY <1>1, <4>1, <4>7, <6>1, <6>2 DEF Pending, Own, Line
        <5> QED BY <5>2, <5>3
      <4> QED BY <3>2, <4>5, <4>6, <4>7 DEF Pending
    <3>7. CASE ScanEnd(r)
      <4>1. /\ rpc[r] = "scan" /\ rpc'[r] = "visit" /\ found' = found
            /\ reply'[r] = reply[r] \o torn[input[r].inode]
            /\ input[r].read >= Len(lines[input[r].inode])
        BY <1>0, <3>7 DEF ScanEnd, RGoto
      <4>2. PICK s \in Seq(Names \cup Lines), e \in Seq(Names \cup Lines) :
              s = reply[r] /\ e = torn[input[r].inode]
        <5>1. torn[input[r].inode] \in Seq(Lines)
          BY <4>1 DEF TypeInv, TypeOK, Counting, Lines
        <5>2. torn[input[r].inode] \in Seq(Names \cup Lines)
          BY <5>1
        <5> QED BY <1>0, <5>2
      <4>3. \A i \in DOMAIN s : i \in DOMAIN (s \o e) /\ (s \o e)[i] = s[i]
        <5>1. /\ DOMAIN (s \o e) = 1..(Len(s) + Len(e)) /\ DOMAIN s = 1..Len(s)
              /\ Len(s) \in Nat /\ Len(e) \in Nat
              /\ \A i \in 1..Len(s) : (s \o e)[i] = s[i]
          OBVIOUS
        <5> QED BY <5>1
      <4>4. reply'[r] = s \o e
        BY <4>1, <4>2
      <4>5. CASE \E i \in DOMAIN reply[r] : reply[r][i] = Line(t, b)
        BY <4>2, <4>3, <4>4, <4>5 DEF Pending, Line
      <4>6. CASE First(t) \in found[r]
        BY <4>1, <4>6 DEF Pending, First
      <4>7. ASSUME input[r].inode = Own(t), NEW j \in DOMAIN lines[Own(t)], j > input[r].read
            PROVE  FALSE
        <5>1. lines[Own(t)] \in Seq(Lines) /\ input[r].read \in Nat
          BY <4>1, <4>7 DEF TypeInv, TypeOK, Counting, Lines
        <5>2. j \in 1..Len(lines[Own(t)]) /\ Len(lines[Own(t)]) \in Nat
          BY <5>1
        <5> QED BY <4>1, <4>7, <5>1, <5>2
      <4> QED BY <3>2, <4>5, <4>6, <4>7 DEF Pending
    <3>8. ~RemoveAll(r) /\ \A n \in found[r] : ~Remove(r, n) /\ ~Stat(r, n)
      BY <1>3 DEF RemoveAll, Remove, Stat
    <3> QED BY <2>2, <3>4, <3>5, <3>6, <3>7, <3>8 DEF RequestStep
  <2> QED BY <2>1, <2>2
<1> QED BY <1>1, <1>2, <1>3 DEF Downloading

LEMMA StepDownloading ==
  ASSUME TypeInv, Deleting, Preserving, Preserving', Downloading, [Next]_vars
  PROVE  Downloading'
<1>1. CASE UNCHANGED vars
  <2>1. UNCHANGED <<rpc, reply, input, failed, sure, found, lines, batch, spoiled>>
    BY <1>1 DEF vars, diskVars, testVars, reqVars
  <2>2. ASSUME NEW r, NEW t, NEW b, Pending(r, t, b) PROVE Pending(r, t, b)'
    BY <2>1, <2>2 DEF Pending
  <2> QED BY <2>1, <2>2 DEF Downloading
<1> QED BY <1>1, TestDownloading, RequestDownloading DEF Next, Terminated

LEMMA DownloadingInvariance ==
  ASSUME IDsApart
  PROVE  Spec => []Downloading
<1>1. TypeInv /\ Deleting /\ Preserving /\ Preserving' /\ Downloading /\ [Next]_vars => Downloading'
  BY StepDownloading
<1> QED BY <1>1, InitDownloading, TypeInvariance, DeletingInvariance, PreservingInvariance,
       PTL DEF Spec

-----------------------------------------------------------------------------
(* What is promised of downloads *)

\* streamTestFilesToWebsocket sends the lines of a file in their order, none
\* twice and none left out in between, although sendAndSaveData appends to the
\* file and others unlink it meanwhile (file.go:31-59, server.go:554-588), for
\* whatever IDs and deletes, as long as no two tests write to one file.
THEOREM DownloadsAreInOrder == Spec => []DownloadInOrder
<1>1. Sending => DownloadInOrder
  BY DEF Sending, Sent, Follows, DownloadInOrder
<1> QED BY <1>1, SendingInvariance, PTL

\* Where no ID is the beginning of another, a download that reports no error
\* (file.go:31-59) has all the data of the tests that were over when it began,
\* unless somebody meant to remove them.
THEOREM DownloadsAreComplete ==
  ASSUME IDsApart
  PROVE  Spec => []DownloadComplete
<1>1. Downloading => DownloadComplete
  BY DEF Downloading, Pending, DownloadComplete
<1> QED BY <1>1, DownloadingInvariance, PTL
=============================================================================

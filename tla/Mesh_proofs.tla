----------------------------- MODULE Mesh_proofs -----------------------------
(***************************************************************************)
(* Proofs about Mesh: whatever the list of hosts is, however it is given   *)
(* and looked up, whatever the servers take for themselves and whenever    *)
(* they start, stop and panic.  A test that runs anywhere runs between all *)
(* the pairs that the list means, and between no others.                   *)
(***************************************************************************)
EXTENDS Mesh, SequenceLemmas

-----------------------------------------------------------------------------
(* What the list of hosts is *)

\* What a name of the list becomes: its address, if there is a DNS server.
Look(n) == IF input.dns THEN IP[n] ELSE n

Looked(s) == [j \in DOMAIN s |-> Look(s[j])]

LEMMA InputType ==
  ASSUME input \in Inputs
  PROVE  /\ input.form \in {"flag", "file", "unreadable"}
         /\ input.items \in Seq(Item)
         /\ input.comma \in BOOLEAN /\ input.newline \in BOOLEAN /\ input.dns \in BOOLEAN
         /\ \A j \in DOMAIN input.items : /\ input.items[j].hosts \in Seq(Names)
                                          /\ input.items[j].ellipses \in BOOLEAN
                                          /\ input.items[j].suffix \in BOOLEAN
         /\ Len(Meant(input)) > 0
<1>1. input \in Input /\ Len(Meant(input)) \in 1..MaxHosts
  BY MeshAssumption
<1>2. input.items \in Seq(Item)
  BY <1>1 DEF Input
<1>3. \A j \in DOMAIN input.items : input.items[j] \in Item
  BY <1>2
<1> QED BY <1>1, <1>2, <1>3 DEF Input, Item

LEMMA MeantType ==
  ASSUME input \in Inputs
  PROVE  /\ [j \in DOMAIN input.items |-> input.items[j].hosts] \in Seq(Seq(Names))
         /\ Meant(input) \in Seq(Names)
<1> DEFINE ss == [j \in DOMAIN input.items |-> input.items[j].hosts]
<1>1. ss \in Seq(Seq(Names))
  BY InputType
<1> HIDE DEF ss
<1>2. FlattenSeq(ss) \in Seq(Names)
  BY <1>1, FlattenType
<1> QED BY <1>1, <1>2 DEF Meant, ss

LEMMA ExpandedType ==
  ASSUME NEW item \in Item
  PROVE  Expanded(item) \in Seq(Names)
BY MeshAssumption DEF Item, Expanded

\* The parts with braces, or those without.
Listing(braces) ==
  [j \in DOMAIN input.items |->
    IF input.items[j].ellipses = braces THEN Expanded(input.items[j]) ELSE <<>>]

LEMMA ListingType ==
  ASSUME input \in Inputs, NEW braces \in BOOLEAN
  PROVE  /\ Listing(braces) \in Seq(Seq(Names))
         /\ FlattenSeq(Listing(braces)) \in Seq(Names)
<1>1. \A j \in DOMAIN input.items : Expanded(input.items[j]) \in Seq(Names)
  <2> TAKE j \in DOMAIN input.items
  <2>1. input.items[j] \in Item
    BY InputType
  <2> QED BY <2>1, ExpandedType
<1>2. <<>> \in Seq(Names)
  OBVIOUS
<1>3. Listing(braces) \in Seq(Seq(Names))
  <2>1. \A j \in DOMAIN input.items : Listing(braces)[j] \in Seq(Names)
    BY <1>1, <1>2 DEF Listing
  <2>2. DOMAIN input.items = 1..Len(input.items) /\ Len(input.items) \in Nat
    BY InputType
  <2>3. Listing(braces) = [j \in 1..Len(input.items) |-> Listing(braces)[j]]
    BY <2>2 DEF Listing
  <2>4. Listing(braces) \in [1..Len(input.items) -> Seq(Names)]
    BY <2>1, <2>2, <2>3, Zenon
  <2> QED BY <2>2, <2>4, FunctionIsSeq
<1> QED BY <1>3, FlattenType

LEMMA ParseFlagIs ==
  ParseFlag(input.items) = FlattenSeq(Listing(FALSE)) \o FlattenSeq(Listing(TRUE))
BY DEF ParseFlag, Listing

LEMMA ParsedType ==
  ASSUME input \in Inputs
  PROVE  Parsed(input) \in Seq(Names)
<1>1. ParseFlag(input.items) \in Seq(Names)
  <2>1. FlattenSeq(Listing(FALSE)) \in Seq(Names) /\ FlattenSeq(Listing(TRUE)) \in Seq(Names)
    BY ListingType
  <2> QED BY <2>1, ParseFlagIs, ConcatProperties
<1>2. Front(Meant(input)) \in Seq(Names)
  <2>1. Meant(input) \in Seq(Names) /\ Len(Meant(input)) > 0
    BY MeantType, InputType
  <2> QED BY <2>1 DEF Front
<1>3. Append(Front(Meant(input)), Stray) \in Seq(Names)
  BY <1>2, MeshAssumption
<1>4. ParseFile(input) \in Seq(Names)
  BY <1>3, MeantType DEF ParseFile
<1> QED BY <1>1, <1>4 DEF Parsed

\* What is looked up without an error is a list of names.
LEMMA LookedType ==
  ASSUME input \in Inputs, ~ParseFails(input)
  PROVE  Looked(Parsed(input)) \in Seq(Names)
<1>1. Parsed(input) \in Seq(Names) /\ DOMAIN Parsed(input) = 1..Len(Parsed(input))
  BY ParsedType
<1>2. ASSUME NEW j \in DOMAIN Parsed(input) PROVE Look(Parsed(input)[j]) \in Names
  <2>1. Parsed(input)[j] \in Names
    BY <1>1
  <2>2. input.dns => IP[Parsed(input)[j]] # None
    BY DEF ParseFails
  <2> QED BY <2>1, <2>2, MeshAssumption DEF Look
<1> QED BY <1>1, <1>2 DEF Looked

\* Nobody is where a rest of a text leads, looked up or not.
LEMMA StrayLeadsNowhere ==
  ASSUME Look(Stray) # None
  PROVE  At[Look(Stray)] = Nobody
BY MeshAssumption DEF Look


-----------------------------------------------------------------------------
(* The list of hosts is what the user means *)

LEMMA CountNat ==
  ASSUME NEW S, NEW s \in Seq(S), NEW T
  PROVE  Count(T, s) \in Nat
<1>1. Count(T, s) \in 0..Len(s)
  BY CountType
<1> QED BY <1>1

\* The parts without braces and those with them are all the parts.
LEMMA FlagCount ==
  ASSUME input \in Inputs, NEW T,
         \A j \in DOMAIN input.items :
            input.items[j].suffix => input.items[j].hosts = <<>>
  PROVE  Count(T, ParseFlag(input.items)) = Count(T, Meant(input))
<1> DEFINE n == Len(input.items)
           c == [j \in DOMAIN input.items |-> input.items[j].hosts]
<1>1. n \in Nat /\ DOMAIN input.items = 1..n
  BY InputType
<1>2. Listing(FALSE) \in Seq(Seq(Names)) /\ Listing(TRUE) \in Seq(Seq(Names))
  BY ListingType
<1>3. c \in Seq(Seq(Names)) /\ FlattenSeq(c) = Meant(input)
  BY MeantType DEF Meant
<1>4. Len(Listing(FALSE)) = n /\ Len(Listing(TRUE)) = n /\ Len(c) = n
  BY <1>1 DEF Listing
<1>5. ASSUME NEW j \in 1..n
      PROVE  Count(T, Listing(FALSE)[j]) + Count(T, Listing(TRUE)[j]) = Count(T, c[j])
  <2> DEFINE item == input.items[j]
  <2>1. item.hosts \in Seq(Names) /\ item.ellipses \in BOOLEAN
    BY <1>1, InputType
  <2>2. Expanded(item) = item.hosts
    <3>1. CASE item.suffix
      <4>1. item.hosts = <<>>
        BY <1>1, <3>1
      <4> QED BY <4>1 DEF Expanded
    <3>2. CASE ~item.suffix
      BY <2>1, <3>2 DEF Expanded
    <3> QED BY <3>1, <3>2
  <2>3. c[j] = item.hosts
    BY <1>1
  <2>4. \/ Listing(FALSE)[j] = item.hosts /\ Listing(TRUE)[j] = <<>>
        \/ Listing(FALSE)[j] = <<>> /\ Listing(TRUE)[j] = item.hosts
    BY <1>1, <2>1, <2>2 DEF Listing
  <2>5. Count(T, item.hosts) \in Nat
    BY <2>1, CountNat
  <2>6. Count(T, <<>>) = 0
    BY CountEmpty
  <2> DEFINE p == Count(T, Listing(FALSE)[j])
             q == Count(T, Listing(TRUE)[j])
             r == Count(T, c[j])
  <2>7. r \in Nat /\ ((p = r /\ q = 0) \/ (p = 0 /\ q = r))
    BY <2>3, <2>4, <2>5, <2>6, Zenon
  <2> HIDE DEF p, q, r
  <2>8. p + q = r
    BY <2>7
  <2> QED BY <2>8 DEF p, q, r
<1>6. Count(T, FlattenSeq(Listing(FALSE))) + Count(T, FlattenSeq(Listing(TRUE)))
        = Count(T, FlattenSeq(c))
  <2> DEFINE a == Listing(FALSE)
             b == Listing(TRUE)
  <2>1. /\ a \in Seq(Seq(Names)) /\ b \in Seq(Seq(Names)) /\ c \in Seq(Seq(Names))
        /\ Len(a) = n /\ Len(b) = n /\ Len(c) = n
        /\ AddUp(T, n, a, b, c)
    BY <1>2, <1>3, <1>4, <1>5 DEF AddUp
  <2> HIDE DEF a, b, c, n
  <2>2. Count(T, FlattenSeq(a)) + Count(T, FlattenSeq(b)) = Count(T, FlattenSeq(c))
    BY <1>1, <2>1, CountFlattened
  <2> QED BY <2>2 DEF a, b
<1>7. FlattenSeq(Listing(FALSE)) \in Seq(Names) /\ FlattenSeq(Listing(TRUE)) \in Seq(Names)
  BY ListingType
<1> HIDE DEF c, n
<1> QED BY <1>3, <1>6, <1>7, ParseFlagIs, CountConcat

\* Looking up changes which names are counted, and no count.
LEMMA LookedCount ==
  ASSUME NEW s \in Seq(Names), NEW n
  PROVE  Times(n, Looked(s)) = Count({m \in Names : Look(m) = n}, s)
<1>1. DOMAIN Looked(s) = DOMAIN s /\ \A j \in DOMAIN s : Looked(s)[j] = Look(s[j])
  BY DEF Looked
<1>2. \A j \in DOMAIN s : s[j] \in Names
  OBVIOUS
<1>3. {j \in DOMAIN Looked(s) : Looked(s)[j] = n}
        = {j \in DOMAIN s : s[j] \in {m \in Names : Look(m) = n}}
  BY <1>1, <1>2
<1> QED BY <1>3 DEF Times, Count

\* If a stray name is on the list, some host leads nowhere.
LEMMA StrayShows ==
  ASSUME input \in Inputs, ~ParseFails(input),
         NEW j \in DOMAIN Parsed(input), Parsed(input)[j] = Stray
  PROVE  At[Looked(Parsed(input))[j]] = Nobody
<1>1. Looked(Parsed(input))[j] = Look(Stray)
  BY DEF Looked
<1>2. Look(Stray) # None
  BY MeshAssumption DEF ParseFails, Look
<1> QED BY <1>1, <1>2, StrayLeadsNowhere

\* A list whose hosts all lead somewhere was given in a supported form.
LEMMA OnlySupported ==
  ASSUME input \in Inputs, ~ParseFails(input),
         \A j \in DOMAIN Parsed(input) : At[Looked(Parsed(input))[j]] # Nobody
  PROVE  Supported(input)
<1>0. \A j \in DOMAIN Parsed(input) : Parsed(input)[j] # Stray
  BY StrayShows
<1>1. CASE input.form = "flag"
  <2> SUFFICES ASSUME NEW j \in DOMAIN input.items, input.items[j].suffix,
                      input.items[j].hosts # <<>>
               PROVE  FALSE
    BY <1>1 DEF Supported
  <2> DEFINE ss == Listing(input.items[j].ellipses)
  <2>1. input.items[j].hosts \in Seq(Names) /\ input.items[j].ellipses \in BOOLEAN
    BY InputType
  <2>2. 1 \in DOMAIN input.items[j].hosts
    BY <2>1
  <2>3. ss[j] = Expanded(input.items[j]) /\ j \in DOMAIN ss
    BY DEF Listing
  <2>4. 1 \in DOMAIN ss[j] /\ ss[j][1] = Stray
    BY <2>2, <2>3 DEF Expanded
  <2>5. ss \in Seq(Seq(Names))
    BY <2>1, ListingType
  <2>6. PICK l \in DOMAIN FlattenSeq(ss) : FlattenSeq(ss)[l] = Stray
    <3> HIDE DEF ss
    <3> QED BY <2>3, <2>4, <2>5, FlattenHas
  <2> DEFINE a == FlattenSeq(Listing(FALSE))
             b == FlattenSeq(Listing(TRUE))
  <2>7. a \in Seq(Names) /\ b \in Seq(Names)
    BY ListingType
  <2>8. Parsed(input) = a \o b
    BY <1>1, ParseFlagIs DEF Parsed
  <2>9. FlattenSeq(ss) = a \/ FlattenSeq(ss) = b
    BY <2>1
  <2> HIDE DEF a, b, ss
  <2>10. CASE FlattenSeq(ss) = a
    <3>1. l \in DOMAIN (a \o b) /\ (a \o b)[l] = a[l]
      BY <2>7, <2>10
    <3> QED BY <1>0, <2>6, <2>8, <2>10, <3>1
  <2>11. CASE FlattenSeq(ss) = b
    <3>1. Len(a) + l \in DOMAIN (a \o b) /\ (a \o b)[Len(a) + l] = b[l]
      BY <2>7, <2>11
    <3> QED BY <1>0, <2>6, <2>8, <2>11, <3>1
  <2> QED BY <2>9, <2>10, <2>11
<1>2. CASE input.form = "file"
  <2>1. input.comma \in BOOLEAN /\ input.newline \in BOOLEAN
    BY InputType
  <2>2. input.comma \/ input.newline
    BY <1>2 DEF ParseFails
  <2>3. ~(input.comma /\ input.newline)
    <3> SUFFICES ASSUME input.comma, input.newline PROVE FALSE
      OBVIOUS
    <3>1. Parsed(input) = Append(Front(Meant(input)), Stray)
      BY <1>2 DEF Parsed, ParseFile
    <3>2. Front(Meant(input)) \in Seq(Names)
      <4>1. Meant(input) \in Seq(Names) /\ Len(Meant(input)) > 0
        BY MeantType, InputType
      <4> QED BY <4>1 DEF Front
    <3> DEFINE k == Len(Front(Meant(input))) + 1
    <3>3. k \in DOMAIN Parsed(input) /\ Parsed(input)[k] = Stray
      BY <3>1, <3>2
    <3> QED BY <1>0, <3>3
  <2> QED BY <1>2, <2>1, <2>2, <2>3 DEF Supported
<1>3. CASE input.form = "unreadable"
  BY <1>3 DEF ParseFails
<1> QED BY <1>1, <1>2, <1>3, InputType

\* A list in a supported form has every name as often as it is meant.
LEMMA SupportedCount ==
  ASSUME input \in Inputs, Supported(input), ~ParseFails(input), NEW n
  PROVE  Times(n, Looked(Parsed(input))) = Times(n, Looked(Meant(input)))
<1> DEFINE T == {m \in Names : Look(m) = n}
<1>1. Times(n, Looked(Parsed(input))) = Count(T, Parsed(input))
  BY ParsedType, LookedCount
<1>2. Times(n, Looked(Meant(input))) = Count(T, Meant(input))
  BY MeantType, LookedCount
<1>3. Count(T, Parsed(input)) = Count(T, Meant(input))
  <2> HIDE DEF T
  <2>1. CASE input.form = "flag"
    BY <2>1, FlagCount DEF Parsed, Supported
  <2>2. CASE input.form # "flag"
    <3>1. Parsed(input) = Meant(input)
      BY <2>2, InputType DEF Parsed, ParseFile, Supported
    <3> QED BY <3>1
  <2> QED BY <2>1, <2>2
<1> QED BY <1>1, <1>2, <1>3

-----------------------------------------------------------------------------
(* The inductive invariant *)

\* The hosts that are sent for run i, and those its server makes readers for.
Sent(i)   == FilterSelf(hosts, hosts[i])
Wanted(i) == Others(Home(i), Sent(i))

\* The list is what was parsed, and a command that signals has a connection to
\* a server for every name on it.
ListInv ==
  /\ main = "parse" => next = 0
  /\ main \in {"init", "signal", "loop"} =>
       ~ParseFails(input) /\ hosts = Looked(Parsed(input))
  /\ main \in {"signal", "loop"} => \A j \in DOMAIN hosts : At[hosts[j]] \in Servers

\* There are runs for those who were signalled, each with the targets that come
\* of the list, and figures only while it is on.
RunInv ==
  /\ stats \in [Positions -> SUBSET Nat] /\ reported \in [Positions -> SUBSET Nat]
  /\ \A i \in Positions :
       /\ run[i] # "none" => main \in {"signal", "loop"} /\ i \in 1..next
       /\ run[i] # "on" => stats[i] = {} /\ reported[i] = {}
       /\ run[i] = "sent" => targets[i] = Sent(i)
       /\ run[i] \in {"on", "over"} => targets[i] = Wanted(i)

\* MeshExact speaks of runs that are on or over: what a run was sent, and that
\* the list can no longer change, has to be known before.
IInv == TypeOK /\ ListInv /\ RunInv

\* None of it changes as long as the list and the flags stay.
LEMMA SameList ==
  ASSUME UNCHANGED <<input, setup, hosts>>
  PROVE  /\ ParseFails(input)' = ParseFails(input)
         /\ Looked(Parsed(input))' = Looked(Parsed(input))
         /\ \A i : Sent(i)' = Sent(i) /\ Wanted(i)' = Wanted(i)
BY DEF ParseFails, Looked, Look, Parsed, ParseFlag, ParseFile, Expanded, Sent, Wanted,
       FilterSelf, Others, TakenForSelf, Home

LEMMA SentType ==
  ASSUME hosts \in Seq(Names), NEW i \in DOMAIN hosts
  PROVE  Sent(i) \in Seq(Names)
BY RemoveFirstCount DEF Sent, FilterSelf

\* The sequences that Others joins.
Kept(s, list) == [j \in DOMAIN list |-> IF TakenForSelf(s, list[j]) THEN <<>> ELSE <<list[j]>>]

LEMMA OthersType ==
  ASSUME NEW list \in Seq(Names), NEW s
  PROVE  Kept(s, list) \in Seq(Seq(Names)) /\ Others(s, list) \in Seq(Names)
<1>1. ASSUME NEW j \in DOMAIN list PROVE Kept(s, list)[j] \in Seq(Names)
  <2>1. list[j] \in Names
    OBVIOUS
  <2>2. <<list[j]>> \in Seq(Names) /\ <<>> \in Seq(Names)
    BY <2>1
  <2> QED BY <2>2 DEF Kept
<1>2. DOMAIN list = 1..Len(list) /\ Len(list) \in Nat
  OBVIOUS
<1>3. Kept(s, list) = [j \in 1..Len(list) |-> Kept(s, list)[j]]
  BY <1>2 DEF Kept
<1>4. Kept(s, list) \in [1..Len(list) -> Seq(Names)]
  BY <1>1, <1>2, <1>3, Zenon
<1>5. Kept(s, list) \in Seq(Seq(Names))
  BY <1>2, <1>4, FunctionIsSeq
<1> QED BY <1>5, FlattenType DEF Others, Kept

LEMMA InitIInv == Init => IInv
<1> SUFFICES ASSUME Init PROVE IInv
  OBVIOUS
<1>1. hosts \in Seq(Names) /\ next \in 0..Len(hosts)
  BY DEF Init
<1>2. TypeOK
  BY <1>1 DEF Init, TypeOK
<1>3. ListInv /\ RunInv
  BY DEF Init, ListInv, RunInv
<1> QED BY <1>2, <1>3 DEF IInv

\* Steps of the command.
LEMMA CommandIInv ==
  ASSUME IInv, Parse \/ Connect \/ InitFails \/ SignalHost \/ Signalled
  PROVE  IInv'
<1> USE DEF IInv, runVars, serverVars
<1>0. Len(hosts) \in Nat /\ DOMAIN hosts = 1..Len(hosts)
  BY DEF TypeOK
<1>1. CASE Parse
  <2> USE <1>1 DEF Parse
  <2>0. \A i \in Positions : run[i] = "none"
    BY DEF RunInv
  <2>1. CASE ParseFails(input)
    <3>1. TypeOK'
      BY <2>1 DEF TypeOK
    <3>2. ListInv' /\ RunInv'
      BY <2>0, <2>1 DEF ListInv, RunInv
    <3> QED BY <3>1, <3>2
  <2>2. CASE ~ParseFails(input)
    <3>1. hosts' = Looked(Parsed(input)) /\ main' = "init"
      BY <2>2 DEF Looked, Look
    <3>2. hosts' \in Seq(Names)
      BY <2>2, <3>1, LookedType DEF TypeOK
    <3>3. next' \in 0..Len(hosts')
      <4>1. next = 0
        BY DEF ListInv
      <4> QED BY <3>2, <4>1
    <3>4. TypeOK'
      BY <3>1, <3>2, <3>3 DEF TypeOK
    <3>5. ListInv'
      <4>1. ParseFails(input)' = ParseFails(input)
            /\ Looked(Parsed(input))' = Looked(Parsed(input))
        BY DEF ParseFails, Looked, Look, Parsed, ParseFlag, ParseFile, Expanded
      <4> QED BY <2>2, <3>1, <4>1 DEF ListInv
    <3>6. RunInv'
      BY <2>0 DEF RunInv
    <3> QED BY <3>4, <3>5, <3>6
  <2> QED BY <2>1, <2>2
<1>2. CASE Connect
  <2> USE <1>2 DEF Connect
  <2>1. TypeOK'
    BY DEF TypeOK
  <2>2. ListInv'
    BY SameList DEF ListInv, Answers
  <2>3. RunInv'
    BY SameList DEF RunInv
  <2> QED BY <2>1, <2>2, <2>3
<1>3. CASE InitFails
  <2> USE <1>3 DEF InitFails
  <2>1. TypeOK'
    BY DEF TypeOK
  <2>2. ListInv' /\ RunInv'
    BY DEF ListInv, RunInv
  <2> QED BY <2>1, <2>2
<1>4. CASE SignalHost
  <2> USE <1>4 DEF SignalHost
  <2> DEFINE i == next + 1
  <2>1. i \in DOMAIN hosts /\ next' = i /\ i \in 0..Len(hosts) /\ next \in Nat
    BY <1>0 DEF TypeOK
  <2>2. Sent(i) \in Seq(Names)
    BY <2>1, SentType DEF TypeOK
  <2>3. i \in Positions => run[i] = "none" /\ stats[i] = {} /\ reported[i] = {}
    <3>1. i \notin 1..next
      BY <2>1
    <3> QED BY <3>1 DEF RunInv, TypeOK
  <2>4. ListInv'
    BY SameList DEF ListInv
  <2>5. CASE Answers(hosts[i])
    <3>1. run' = [run EXCEPT ![i] = "sent"] /\ targets' = [targets EXCEPT ![i] = Sent(i)]
      BY <2>5 DEF Sent
    <3>2. TypeOK'
      BY <2>1, <2>2, <2>3, <3>1 DEF TypeOK
    <3>3. RunInv'
      <4>1. \A j \in Positions : j \in 1..next => j \in 1..next'
        BY <2>1
      <4>2. i \in 1..next'
        BY <2>1
      <4> HIDE DEF i
      <4>3. run \in [Positions -> {"none", "sent", "on", "over"}]
            /\ targets \in [Positions -> Seq(Names)]
        BY DEF TypeOK
      <4> QED BY <2>1, <2>3, <3>1, <4>1, <4>2, <4>3, SameList DEF RunInv
    <3> QED BY <2>4, <3>2, <3>3
  <2>6. CASE ~Answers(hosts[i])
    <3>1. UNCHANGED <<run, targets>>
      BY <2>6
    <3>2. TypeOK'
      BY <2>1, <3>1 DEF TypeOK
    <3>3. RunInv'
      <4>1. \A j \in Positions : j \in 1..next => j \in 1..next'
        BY <2>1
      <4> HIDE DEF i
      <4> QED BY <3>1, <4>1, SameList DEF RunInv
    <3> QED BY <2>4, <3>2, <3>3
  <2> QED BY <2>5, <2>6
<1>5. CASE Signalled
  <2> USE <1>5 DEF Signalled
  <2>1. TypeOK'
    BY DEF TypeOK
  <2>2. ListInv' /\ RunInv'
    BY SameList DEF ListInv, RunInv
  <2> QED BY <2>1, <2>2
<1> QED BY <1>1, <1>2, <1>3, <1>4, <1>5

\* Steps of a server that leave the runs alone.
LEMMA ServerIInv ==
  ASSUME IInv, NEW s \in Servers, Boot(s) \/ Interrupt(s) \/ MonitorStep(s)
  PROVE  IInv'
<1> USE DEF IInv, runVars, clientVars
<1>1. UNCHANGED <<input, setup, clientVars, runVars>>
  BY DEF Boot, Interrupt, MonitorStep, RoundBegin, RoundEnd
<1>2. ListInv' /\ RunInv'
  BY <1>1, SameList DEF ListInv, RunInv
<1>3. /\ up' \in [Servers -> {"off", "up", "deaf", "gone"}]
      /\ mon' \in [Servers -> {"queued", "round"}]
      /\ mem' \in [Servers -> BOOLEAN]
  <2>1. CASE Boot(s)
    BY <2>1 DEF Boot, TypeOK
  <2>2. CASE Interrupt(s)
    BY <2>2 DEF Interrupt, Exit, TypeOK
  <2>3. CASE RoundBegin(s)
    BY <2>3 DEF RoundBegin, TypeOK
  <2>4. CASE RoundEnd(s)
    BY <2>4 DEF RoundEnd, TypeOK
  <2> QED BY <2>1, <2>2, <2>3, <2>4 DEF MonitorStep
<1> QED BY <1>1, <1>2, <1>3 DEF TypeOK

\* Steps of a run.
LEMMA RunIInv ==
  ASSUME IInv, NEW i \in Positions, NEW k,
         NewTest(i) \/ Request(i, k) \/ Collect(i) \/ EndRun(i)
  PROVE  IInv'
<1> USE DEF IInv, clientVars
<1>1. UNCHANGED <<input, setup, clientVars>>
  BY DEF NewTest, Request, Collect, EndRun
<1>2. ListInv'
  BY <1>1, SameList DEF ListInv
<1>3. ASSUME run[i] # "none" PROVE i \in DOMAIN hosts /\ main \in {"signal", "loop"}
  BY <1>3 DEF RunInv, TypeOK
<1>4. CASE NewTest(i)
  <2> USE <1>4 DEF NewTest, serverVars
  <2>1. i \in DOMAIN hosts /\ targets[i] = Sent(i) /\ stats[i] = {} /\ reported[i] = {}
    BY <1>3 DEF RunInv
  <2>2. Sent(i) \in Seq(Names)
    BY <2>1, SentType DEF TypeOK
  <2>3. Wanted(i) \in Seq(Names)
    BY <2>2, OthersType DEF Wanted
  <2>4. targets' = [targets EXCEPT ![i] = Wanted(i)]
    BY <2>1 DEF Wanted
  <2>5. PICK r \in {"on", "over"} : run' = [run EXCEPT ![i] = r]
    OBVIOUS
  <2>6. TypeOK'
    BY <1>1, <2>1, <2>3, <2>4, <2>5 DEF TypeOK
  <2>7. RunInv'
    <3>1. run \in [Positions -> {"none", "sent", "on", "over"}]
          /\ targets \in [Positions -> Seq(Names)]
      BY DEF TypeOK
    <3> QED BY <1>1, <1>3, <2>1, <2>4, <2>5, <3>1, SameList DEF RunInv
  <2> QED BY <1>2, <2>6, <2>7
<1>5. CASE Request(i, k)
  <2> USE <1>5 DEF Request, serverVars
  <2>1. TypeOK'
    BY <1>1 DEF TypeOK, RunInv
  <2>2. RunInv'
    <3>1. k \in Nat
      <4>1. targets[i] \in Seq(Names)
        BY DEF TypeOK
      <4> QED BY <4>1
    <3> QED BY <1>1, <3>1, SameList DEF RunInv
  <2> QED BY <1>2, <2>1, <2>2
<1>6. CASE EndRun(i)
  <2> USE <1>6 DEF EndRun, serverVars
  <2>1. TypeOK'
    BY <1>1 DEF TypeOK, RunInv
  <2>2. RunInv'
    <3>1. run \in [Positions -> {"none", "sent", "on", "over"}]
      BY DEF TypeOK
    <3> QED BY <1>1, <1>3, <3>1, SameList DEF RunInv
  <2> QED BY <1>2, <2>1, <2>2
<1>7. CASE Collect(i)
  <2> USE <1>7 DEF Collect
  <2>1. Home(i) \in Servers
    BY <1>3 DEF ListInv, Home
  <2>2. CASE mem[Home(i)]
    <3>1. /\ UNCHANGED serverVars /\ UNCHANGED <<run, targets>>
          /\ reported' = [reported EXCEPT ![i] = @ \cup stats[i]]
          /\ stats' = [stats EXCEPT ![i] = {}]
      BY <2>2
    <3>2. TypeOK'
      BY <1>1, <3>1 DEF TypeOK, RunInv, serverVars
    <3>3. RunInv'
      BY <1>1, <3>1, SameList DEF RunInv
    <3> QED BY <1>2, <3>2, <3>3
  <2>3. CASE ~mem[Home(i)]
    <3>1. Exit(Home(i)) /\ UNCHANGED <<run, targets, stats, reported>>
      BY <2>3
    <3>2. TypeOK'
      BY <1>1, <2>1, <3>1 DEF TypeOK, Exit
    <3>3. RunInv'
      BY <1>1, <3>1, SameList DEF RunInv
    <3> QED BY <1>2, <3>2, <3>3
  <2> QED BY <2>2, <2>3
<1> QED BY <1>4, <1>5, <1>6, <1>7

LEMMA NextIInv == IInv /\ [Next]_vars => IInv'
<1> SUFFICES ASSUME IInv, [Next]_vars PROVE IInv'
  OBVIOUS
<1>1. CASE Parse \/ Connect \/ InitFails \/ SignalHost \/ Signalled
  BY <1>1, CommandIInv
<1>2. CASE \E s \in Servers : Boot(s) \/ Interrupt(s) \/ MonitorStep(s)
  BY <1>2, ServerIInv
<1>3. ASSUME NEW i \in Positions, NewTest(i) \/ Collect(i) \/ EndRun(i)
      PROVE  IInv'
  BY <1>3, RunIInv
<1>4. ASSUME NEW i \in Positions, NEW k \in Readers, Request(i, k)
      PROVE  IInv'
  BY <1>4, RunIInv
<1>5. CASE UNCHANGED vars
  <2>1. UNCHANGED <<input, setup, clientVars, serverVars, runVars>>
    BY <1>5 DEF vars
  <2> USE <2>1 DEF clientVars, serverVars, runVars
  <2>2. TypeOK'
    BY DEF IInv, TypeOK
  <2>3. ListInv' /\ RunInv'
    BY SameList DEF IInv, ListInv, RunInv
  <2> QED BY <2>2, <2>3 DEF IInv
<1> QED BY <1>1, <1>2, <1>3, <1>4, <1>5 DEF Next, Idle

-----------------------------------------------------------------------------
(* The mesh *)

\* Others leaves out what the server takes for itself, and nothing else.
LEMMA OthersCount ==
  ASSUME NEW list \in Seq(Names), NEW s, NEW x
  PROVE  Count({x}, Others(s, list)) = IF TakenForSelf(s, x) THEN 0 ELSE Count({x}, list)
<1> DEFINE n == Len(list)
           ss == Kept(s, list)
<1>1. n \in Nat /\ DOMAIN list = 1..n /\ \A j \in 1..n : list[j] \in Names
  OBVIOUS
<1>2. ss \in Seq(Seq(Names)) /\ Len(ss) = n
  <2>1. ss \in Seq(Seq(Names)) /\ DOMAIN ss = 1..n
    BY <1>1, OthersType DEF Kept
  <2> QED BY <1>1, <2>1
<1>3. PICK F \in [0..n -> Seq(Names)] : Joined(F, n, <<>>, ss) /\ F[n] = FlattenSeq(ss)
  BY <1>2, FlattenSteps
<1> DEFINE P(i) == Count({x}, SubSeq(list, 1, i))
           T == {i \in 0..n : Count({x}, F[i]) = IF TakenForSelf(s, x) THEN 0 ELSE P(i)}
<1>4. 0 \in T
  <2>1. F[0] = <<>> /\ SubSeq(list, 1, 0) = <<>>
    BY <1>3, SubSeqEmpty DEF Joined
  <2>2. Count({x}, F[0]) = 0 /\ P(0) = 0
    BY <2>1, CountEmpty
  <2> QED BY <1>1, <2>2
<1>5. \A i \in 0..(n - 1) : i \in T => i + 1 \in T
  <2> SUFFICES ASSUME NEW i \in 0..(n - 1), i \in T PROVE i + 1 \in T
    OBVIOUS
  <2> DEFINE y == list[i + 1]
             a == Count({x}, F[i])
             b == Count({x}, ss[i + 1])
  <2>0. i + 1 \in 1..n /\ i + 1 \in 0..n /\ (i + 1) - 1 = i /\ i \in 0..n
    BY <1>1
  <2>1. F[i] \in Seq(Names) /\ F[i + 1] = F[i] \o ss[i + 1]
    BY <1>3, <2>0 DEF Joined
  <2>2. y \in Names /\ ss[i + 1] = IF TakenForSelf(s, y) THEN <<>> ELSE <<y>>
    BY <1>1, <2>0 DEF Kept
  <2>3. ss[i + 1] \in Seq(Names) /\ <<y>> \in Seq(Names)
    BY <1>1, <1>2, <2>0, <2>2
  <2>4. SubSeq(list, 1, i) \in Seq(Names)
        /\ SubSeq(list, 1, i + 1) = SubSeq(list, 1, i) \o <<y>>
    <3>1. i + 1 \in 1..Len(list) /\ 1 \in 1..Len(list) /\ i + 1 \in 1..Len(list)
      BY <1>1, <2>0
    <3>2. SubSeq(list, 1, i + 1) = SubSeq(list, 1, (i + 1) - 1) \o <<y>>
      BY <3>1, SubSeqRecursiveSecond
    <3>3. SubSeq(list, 1, i) \in Seq(Names)
      BY <1>1, <2>0
    <3> QED BY <2>0, <3>2, <3>3
  <2>5. Count({x}, F[i + 1]) = a + b
    BY <2>1, <2>3, CountConcat
  <2>6. P(i + 1) = P(i) + Count({x}, <<y>>)
    <3> HIDE DEF y
    <3> DEFINE q == SubSeq(list, 1, i)
               t == <<y>>
    <3>1. P(i + 1) = Count({x}, q \o t) /\ P(i) = Count({x}, q)
      BY <2>4
    <3>2. q \in Seq(Names) /\ t \in Seq(Names)
      BY <2>3, <2>4
    <3> HIDE DEF q, t, P
    <3>3. Count({x}, q \o t) = Count({x}, q) + Count({x}, t)
      BY <3>2, CountConcat
    <3> QED BY <3>1, <3>3 DEF t
  <2>7. Count({x}, <<y>>) = IF y = x THEN 1 ELSE 0
    BY CountOne
  <2>8. b = IF TakenForSelf(s, y) \/ y # x THEN 0 ELSE 1
    BY <2>2, <2>7, CountEmpty
  <2>9. a = IF TakenForSelf(s, x) THEN 0 ELSE P(i)
    BY <2>0
  <2>10. a \in Nat /\ P(i) \in Nat
    BY <2>1, <2>4, CountNat
  <2> HIDE DEF y, a, b, P
  <2>11. CASE TakenForSelf(s, x)
    BY <2>0, <2>5, <2>8, <2>9, <2>11
  <2>12. CASE ~TakenForSelf(s, x)
    <3>1. CASE y = x
      <4>1. b = 1 /\ a = P(i) /\ P(i + 1) = P(i) + 1
        BY <2>6, <2>7, <2>8, <2>9, <2>12, <3>1
      <4> QED BY <2>0, <2>5, <2>12, <4>1
    <3>2. CASE y # x
      <4>1. b = 0 /\ a = P(i) /\ P(i + 1) = P(i)
        BY <2>6, <2>7, <2>8, <2>9, <2>10, <2>12, <3>2
      <4>2. Count({x}, F[i + 1]) = P(i + 1)
        BY <2>5, <2>10, <4>1
      <4> QED BY <2>0, <2>12, <4>2
    <3> QED BY <3>1, <3>2
  <2> QED BY <2>11, <2>12
<1> HIDE DEF T
<1>6. n \in T
  <2>1. 0..n \subseteq T
    BY <1>1, <1>4, <1>5, SetInductionTo
  <2> QED BY <1>1, <2>1
<1>7. SubSeq(list, 1, n) = list
  BY SubSeqFull
<1>8. FlattenSeq(ss) = Others(s, list)
  BY DEF Kept, Others
<1> QED BY <1>3, <1>6, <1>7, <1>8 DEF T

LEMMA TimesIsCount ==
  ASSUME NEW s, NEW x
  PROVE  Times(x, s) = Count({x}, s)
<1>1. {j \in DOMAIN s : s[j] = x} = {j \in DOMAIN s : s[j] \in {x}}
  OBVIOUS
<1> QED BY <1>1 DEF Times, Count

\* The targets of a run are the hosts of the list but for its own, once.
LEMMA WantedCount ==
  ASSUME hosts \in Seq(Names), NEW i \in DOMAIN hosts, NEW x
  PROVE  Times(x, Wanted(i)) = IF TakenForSelf(Home(i), x) THEN 0
                               ELSE Times(x, hosts) - (IF x = hosts[i] THEN 1 ELSE 0)
<1>1. Sent(i) \in Seq(Names)
      /\ Count({x}, Sent(i)) = Count({x}, hosts) - (IF hosts[i] \in {x} THEN 1 ELSE 0)
  BY RemoveFirstCount DEF Sent, FilterSelf
<1>2. Count({x}, Wanted(i)) = IF TakenForSelf(Home(i), x) THEN 0 ELSE Count({x}, Sent(i))
  BY <1>1, OthersCount DEF Wanted
<1>3. Times(x, Wanted(i)) = Count({x}, Wanted(i)) /\ Times(x, hosts) = Count({x}, hosts)
  BY TimesIsCount
<1>4. (hosts[i] \in {x}) <=> (x = hosts[i])
  OBVIOUS
<1> QED BY <1>1, <1>2, <1>3, <1>4

LEMMA IInvMesh == IInv => MeshExact
<1> SUFFICES ASSUME IInv, NEW i \in Positions, run[i] \in {"on", "over"}
             PROVE  /\ Supported(input)
                    /\ \A j \in DOMAIN MeantHosts : At[MeantHosts[j]] # Nobody
                    /\ Times(hosts[i], hosts) = Times(hosts[i], MeantHosts)
                    /\ \A n \in Names :
                         Times(n, targets[i]) =
                           IF TakenForSelf(Home(i), n) THEN 0
                           ELSE Times(n, MeantHosts) - (IF n = hosts[i] THEN 1 ELSE 0)
  BY DEF MeshExact
<1>1. /\ input \in Inputs /\ hosts \in Seq(Names) /\ i \in DOMAIN hosts
      /\ ~ParseFails(input) /\ hosts = Looked(Parsed(input))
      /\ \A j \in DOMAIN hosts : At[hosts[j]] # Nobody
      /\ targets[i] = Wanted(i)
  BY MeshAssumption DEF IInv, TypeOK, ListInv, RunInv
<1>2. Supported(input)
  <2>1. DOMAIN hosts = DOMAIN Parsed(input)
    BY <1>1 DEF Looked
  <2> QED BY <1>1, <2>1, OnlySupported
<1>3. MeantHosts = Looked(Meant(input))
  BY DEF MeantHosts, Looked, Look
<1>4. \A n : Times(n, hosts) = Times(n, MeantHosts)
  BY <1>1, <1>2, <1>3, SupportedCount
<1>5. ASSUME NEW j \in DOMAIN MeantHosts PROVE At[MeantHosts[j]] # Nobody
  <2> DEFINE n == MeantHosts[j]
             S == {MeantHosts[m] : m \in DOMAIN MeantHosts}
  <2>1. DOMAIN MeantHosts = 1..Len(Meant(input)) /\ Len(Meant(input)) \in Nat
    BY <1>1, MeantType DEF MeantHosts
  <2>2. MeantHosts \in [1..Len(Meant(input)) -> S]
    BY <2>1 DEF MeantHosts
  <2>3. MeantHosts \in Seq(S)
    BY <2>1, <2>2, FunctionIsSeq
  <2>4. Count({n}, MeantHosts) # 0
    BY <2>3, CountType
  <2>5. Count({n}, hosts) # 0
    BY <1>4, <2>4, TimesIsCount
  <2>6. \E m \in DOMAIN hosts : hosts[m] \in {n}
    BY <1>1, <2>5, CountType
  <2> QED BY <1>1, <2>6
<1>6. \A n : Times(n, targets[i]) =
               IF TakenForSelf(Home(i), n) THEN 0
               ELSE Times(n, MeantHosts) - (IF n = hosts[i] THEN 1 ELSE 0)
  BY <1>1, <1>4, WantedCount
<1> QED BY <1>2, <1>4, <1>5, <1>6

LEMMA SpecIInv == Spec => []IInv
BY InitIInv, NextIInv, PTL DEF Spec

\* Every variable holds values of its Go type, whatever is on the list.
THEOREM TypeCorrect == Spec => []TypeOK
<1>1. IInv => TypeOK
  BY DEF IInv
<1> QED BY <1>1, SpecIInv, PTL

\* Every run measures the hosts that the user means, as often as they are
\* listed and but for itself; a list in another form than the documented ones,
\* or one with a host that leads nowhere, starts no run.
THEOREM FullMesh == Spec => []MeshExact
BY IInvMesh, SpecIInv, PTL
=============================================================================

--------------------------------- MODULE Mesh ---------------------------------
(***************************************************************************)
(* From the value of --hosts to the pairs of servers that measure each     *)
(* other: the command line parses the list (parseConfig and ParseHosts),   *)
(* the client connects to every name on it and sends each connection the   *)
(* list without that name (RunTest, filterSelf), and the server leaves out *)
(* what it takes for itself (newTest).  Meanwhile the servers start, look  *)
(* after their memory figures (getServerStats), without which no data      *)
(* point can be made, and may stop.                                        *)
(*                                                                         *)
(* A name is what stands in a list of hosts, an address or a host name.    *)
(* The run of a test at one connection has the position of its name in the *)
(* list.  What a run does with its connections and files is left to        *)
(* LiveServer and TestStore, how it measures to TestRun.                   *)
(***************************************************************************)
EXTENDS Naturals, FiniteSets, SequencesExt

CONSTANTS
  Servers,
  Names,
  Stray,         \* a name that is a rest of some other text: nobody is there,
                 \* nor where a lookup of it leads, if that succeeds
  Nobody,        \* no server
  None,          \* no name
  At,            \* At[n]: the server that answers at n, or Nobody
  IP,            \* IP[n]: the address a lookup of n yields, n itself if it is
                 \* an address, None if the lookup fails
  Within,        \* Within[p]: the names n such that n:port has p in it
  Setups,        \* what the servers may be started with: setup[s] is
                 \* [realIP, bind], each a name or None
  Inputs,        \* the values of --hosts, see below
  MaxHosts,      \* bound: the length of a list of hosts
  MemoryFails    \* the servers whose memory figures may be unreadable

(***************************************************************************)
(* An input has a form.  With "flag" its items are the parts between the   *)
(* commas: ellipses tells whether the part has braces with a range in      *)
(* them, suffix whether anything follows them, text or more braces, and    *)
(* hosts is what the user means by the part.  The other forms are a file   *)
(* that can be read and one that cannot; its items are names, and newlines *)
(* separate them or, if commas do, end the file.                           *)
(***************************************************************************)
Item  == [hosts : Seq(Names), ellipses : BOOLEAN, suffix : BOOLEAN]
Input == [form : {"flag", "file", "unreadable"}, items : Seq(Item),
          comma : BOOLEAN, newline : BOOLEAN, dns : BOOLEAN]

Meant(in) == FlattenSeq([j \in DOMAIN in.items |-> in.items[j].hosts])

ASSUME MeshAssumption ==
  /\ IsFiniteSet(Servers) /\ Nobody \notin Servers
  /\ Stray \in Names /\ None \notin Names
  /\ At \in [Names -> Servers \cup {Nobody}]
  /\ IP \in [Names -> Names \cup {None}]
  /\ \A n \in {Stray, IP[Stray]} \ {None} : At[n] = Nobody
  /\ Within \in [Names -> SUBSET Names] /\ \A n \in Names : n \in Within[n]
  /\ Setups \subseteq [Servers -> [realIP : Names \cup {None}, bind : Names \cup {None}]]
  /\ \A in \in Inputs : in \in Input /\ Len(Meant(in)) \in 1..MaxHosts
  /\ MemoryFails \subseteq Servers

Positions == 1..MaxHosts
Readers   == 1..(MaxHosts - 1)

VARIABLES
  input,    \* the value of --hosts
  setup,    \* setup[s]: the flags of server s
  main,     \* the command: "parse", "init", "signal", "loop", "error"
  hosts,    \* Config.Hosts
  next,     \* the hosts that have been signalled
  up,       \* up[s]: "off", "up", "deaf" (it could not listen) or "gone"
  mon,      \* mon[s]: the token is in routineMonitor, "queued", or in a "round"
  mem,      \* mem[s]: currentMemoryStat # nil
  run,      \* run[i]: "none", "sent", "on" or "over"
  targets,  \* targets[i]: the hosts sent for run i, then those of its readers
  stats,    \* stats[i]: the readers of run i with hasStats
  reported  \* history: the readers of run i of which a data point was sent,
            \* while it is on

clientVars == <<main, hosts, next>>
serverVars == <<up, mon, mem>>
runVars    == <<run, targets, stats, reported>>
vars == <<input, setup, clientVars, serverVars, runVars>>

Init ==
  /\ input \in Inputs
  /\ setup \in Setups
  /\ main = "parse"
  /\ hosts = <<>>
  /\ next = 0
  /\ up = [s \in Servers |-> "off"]
  /\ mon = [s \in Servers |-> "queued"]
  /\ mem = [s \in Servers |-> FALSE]
  /\ run = [i \in Positions |-> "none"]
  /\ targets = [i \in Positions |-> <<>>]
  /\ stats = [i \in Positions |-> {}]
  /\ reported = [i \in Positions |-> {}]

Alive(s) == up[s] \in {"up", "deaf"}
Answers(n) == \E s \in Servers : At[n] = s /\ up[s] = "up"
Home(i) == At[hosts[i]]

-----------------------------------------------------------------------------
(* ParseHosts *)

\* The names an item stands for: what follows the braces is dropped, so that
\* the names that are left lead nowhere.
Expanded(item) == [j \in DOMAIN item.hosts |-> IF item.suffix THEN Stray ELSE item.hosts[j]]

\* Parts without ellipses go on the list at once, the others behind them.
ParseFlag(items) ==
  LET Listed(braces) ==
        FlattenSeq([j \in DOMAIN items |->
                     IF items[j].ellipses = braces THEN Expanded(items[j]) ELSE <<>>])
  IN Listed(FALSE) \o Listed(TRUE)

\* A comma anywhere makes commas the separator, and a newline at the end
\* stays with the last name.
ParseFile(in) ==
  IF in.comma /\ in.newline THEN Append(Front(Meant(in)), Stray) ELSE Meant(in)

Parsed(in) == IF in.form = "flag" THEN ParseFlag(in.items) ELSE ParseFile(in)

ParseFails(in) ==
  \/ in.form = "unreadable"
  \/ in.form = "file" /\ ~in.comma /\ ~in.newline
  \/ in.dns /\ \E j \in DOMAIN Parsed(in) : IP[Parsed(in)[j]] = None

\* parseConfig: the list, looked up if there is a DNS server, or an error.
Parse ==
  /\ main = "parse"
  /\ IF ParseFails(input)
       THEN main' = "error" /\ UNCHANGED hosts
       ELSE /\ main' = "init"
            /\ hosts' = [j \in DOMAIN Parsed(input) |->
                          IF input.dns THEN IP[Parsed(input)[j]] ELSE Parsed(input)[j]]
  /\ UNCHANGED <<input, setup, next, serverVars, runVars>>

-----------------------------------------------------------------------------
(* RunTest *)

\* initializeClient has a connection to every host.
Connect ==
  /\ main = "init"
  /\ \A i \in DOMAIN hosts : Answers(hosts[i])
  /\ main' = "signal"
  /\ UNCHANGED <<input, setup, hosts, next, serverVars, runVars>>

\* Ten seconds are over.
InitFails ==
  /\ main = "init"
  /\ main' = "error"
  /\ UNCHANGED <<input, setup, hosts, next, serverVars, runVars>>

\* Fault: the first host is left out, whoever the signal is for.
FilterFirst(list, self) == Tail(list)

FilterSelf(list, self) == RemoveFirst(list, self)

\* A signal to a server that is gone is lost.
SignalHost ==
  /\ main = "signal" /\ next < Len(hosts)
  /\ LET i == next + 1 IN
     /\ next' = i
     /\ IF Answers(hosts[i])
          THEN /\ run' = [run EXCEPT ![i] = "sent"]
               /\ targets' = [targets EXCEPT ![i] = FilterSelf(hosts, hosts[i])]
          ELSE UNCHANGED <<run, targets>>
  /\ UNCHANGED <<input, setup, main, hosts, stats, reported, serverVars>>

Signalled ==
  /\ main = "signal" /\ next = Len(hosts)
  /\ main' = "loop"
  /\ UNCHANGED <<input, setup, hosts, next, serverVars, runVars>>

-----------------------------------------------------------------------------
(* The servers: RunServer, startAPIandWS, getServerStats *)

\* The storage path cannot be made, which ends the server; or it listens; or it
\* cannot listen, says so, and goes on without.
Boot(s) ==
  /\ up[s] = "off"
  /\ \E outcome \in {"gone", "up", "deaf"} : up' = [up EXCEPT ![s] = outcome]
  /\ UNCHANGED <<input, setup, clientVars, mon, mem, runVars>>

\* The process of s has ended, by an interrupt or a panic.
Exit(s) ==
  /\ up' = [up EXCEPT ![s] = "gone"]
  /\ mon' = [mon EXCEPT ![s] = "queued"]
  /\ mem' = [mem EXCEPT ![s] = FALSE]

Interrupt(s) ==
  /\ Alive(s)
  /\ Exit(s)
  /\ UNCHANGED <<input, setup, clientVars, runVars>>

\* Fault: figures that have been read are kept.
RoundBeginOnce(s) ==
  /\ Alive(s) /\ mon[s] = "queued" /\ ~mem[s]
  /\ mon' = [mon EXCEPT ![s] = "round"]
  /\ UNCHANGED <<input, setup, clientVars, up, mem, runVars>>

\* The loop takes the token and starts getServerStats.
RoundBegin(s) ==
  /\ Alive(s) /\ mon[s] = "queued"
  /\ mon' = [mon EXCEPT ![s] = "round"]
  /\ UNCHANGED <<input, setup, clientVars, up, mem, runVars>>

\* The memory figures are replaced, by nil if they cannot be read; what follows
\* may panic, and the deferred function puts the token back all the same.
RoundEnd(s) ==
  /\ Alive(s) /\ mon[s] = "round"
  /\ \E known \in {TRUE} \cup {s \notin MemoryFails} : mem' = [mem EXCEPT ![s] = known]
  /\ mon' = [mon EXCEPT ![s] = "queued"]
  /\ UNCHANGED <<input, setup, clientVars, up, runVars>>

-----------------------------------------------------------------------------
(* The runs: newTest, sendRequestToHost, generateDataPoints *)

\* What server s takes for itself: a host whose host:port contains its real IP,
\* or equals its bind address.
TakenForSelf(s, n) ==
  \/ setup[s].realIP # None /\ n \in Within[setup[s].realIP]
  \/ setup[s].bind = n

\* The hosts of a list for which server s makes a reader, in their order.
Others(s, list) ==
  FlattenSeq([j \in DOMAIN list |-> IF TakenForSelf(s, list[j]) THEN <<>> ELSE <<list[j]>>])

\* Without readers there is no test, and the client gets an error and Done.
NewTest(i) ==
  /\ run[i] = "sent" /\ Alive(Home(i))
  /\ LET others == Others(Home(i), targets[i]) IN
     /\ targets' = [targets EXCEPT ![i] = others]
     /\ run' = [run EXCEPT ![i] = IF others = <<>> THEN "over" ELSE "on"]
  /\ UNCHANGED <<input, setup, clientVars, serverVars, stats, reported>>

\* A request of reader k gets through to its host.  Bound: a reader is followed
\* until its first data point.
Request(i, k) ==
  /\ run[i] = "on" /\ Alive(Home(i))
  /\ k \in DOMAIN targets[i] \ (stats[i] \cup reported[i]) /\ Answers(targets[i][k])
  /\ stats' = [stats EXCEPT ![i] = @ \cup {k}]
  /\ UNCHANGED <<input, setup, clientVars, serverVars, run, targets, reported>>

\* Fault: a reader without figures ends the loop over the readers.
CollectReturns(i) ==
  /\ run[i] = "on" /\ Alive(Home(i)) /\ mem[Home(i)]
  /\ 1 \in stats[i]
  /\ reported' = [reported EXCEPT ![i] = @ \cup {1}]
  /\ stats' = [stats EXCEPT ![i] = @ \ {1}]
  /\ UNCHANGED <<input, setup, clientVars, serverVars, run, targets>>

\* Fault: the point of a reader carries the number of the next one.
CollectNext(i) ==
  /\ run[i] = "on" /\ Alive(Home(i)) /\ mem[Home(i)]
  /\ stats[i] # {}
  /\ reported' = [reported EXCEPT ![i] = @ \cup {k + 1 : k \in stats[i]}]
  /\ stats' = [stats EXCEPT ![i] = {}]
  /\ UNCHANGED <<input, setup, clientVars, serverVars, run, targets>>

\* generateDataPoints and sendAndSaveData, which is one step as nobody sees
\* a point before the end: the readers with figures get a point each, but
\* without memory figures the first of them is a nil pointer, and there is
\* nothing to recover from it.
Collect(i) ==
  /\ run[i] = "on" /\ Alive(Home(i))
  /\ stats[i] # {}
  /\ IF mem[Home(i)]
       THEN /\ reported' = [reported EXCEPT ![i] = @ \cup stats[i]]
            /\ stats' = [stats EXCEPT ![i] = {}]
            /\ UNCHANGED serverVars
       ELSE Exit(Home(i)) /\ UNCHANGED <<reported, stats>>
  /\ UNCHANGED <<input, setup, clientVars, run, targets>>

\* The duration is over, or somebody has stopped the test.
EndRun(i) ==
  /\ run[i] = "on" /\ Alive(Home(i))
  /\ run' = [run EXCEPT ![i] = "over"]
  /\ stats' = [stats EXCEPT ![i] = {}]
  /\ reported' = [reported EXCEPT ![i] = {}]
  /\ UNCHANGED <<input, setup, clientVars, serverVars, targets>>

-----------------------------------------------------------------------------
MonitorStep(s) == RoundBegin(s) \/ RoundEnd(s)

\* The command waits for its time limit, the servers for further signals.
Idle ==
  /\ main \in {"loop", "error"}
  /\ UNCHANGED vars

Next ==
  \/ Parse \/ Connect \/ InitFails \/ SignalHost \/ Signalled
  \/ \E s \in Servers : Boot(s) \/ Interrupt(s) \/ MonitorStep(s)
  \/ \E i \in Positions : \/ NewTest(i) \/ Collect(i) \/ EndRun(i)
                          \/ \E k \in Readers : Request(i, k)
  \/ Idle

Spec == Init /\ [][Next]_vars

(***************************************************************************)
(* Goroutines run, and a request to a host that answers gets through in    *)
(* the end.  Nobody has to start a server, and a run may end early.        *)
(***************************************************************************)
FairSpec ==
  /\ Spec
  /\ \A s \in Servers : WF_vars(MonitorStep(s))
  /\ \A i \in Positions : /\ WF_vars(NewTest(i)) /\ WF_vars(Collect(i))
                          /\ \A k \in Readers : WF_vars(Request(i, k))

-----------------------------------------------------------------------------
(* Properties *)

\* Every variable holds values of its Go type.
TypeOK ==
  /\ input \in Inputs /\ setup \in Setups
  /\ main \in {"parse", "init", "signal", "loop", "error"}
  /\ hosts \in Seq(Names)
  /\ next \in 0..Len(hosts)
  /\ up \in [Servers -> {"off", "up", "deaf", "gone"}]
  /\ mon \in [Servers -> {"queued", "round"}]
  /\ mem \in [Servers -> BOOLEAN]
  /\ run \in [Positions -> {"none", "sent", "on", "over"}]
  /\ targets \in [Positions -> Seq(Names)]
  /\ \A i \in Positions : stats[i] \cup reported[i] \subseteq DOMAIN targets[i]

\* How often n is in the sequence s.
Times(n, s) == Cardinality({j \in DOMAIN s : s[j] = n})

\* The hosts that the user of a list in a supported form means.
Supported(in) ==
  IF in.form = "flag"
    THEN \A j \in DOMAIN in.items : in.items[j].suffix => in.items[j].hosts = <<>>
    ELSE in.comma # in.newline
MeantHosts == [j \in DOMAIN Meant(input) |->
                IF input.dns THEN IP[Meant(input)[j]] ELSE Meant(input)[j]]

\* A full mesh: the server behind each host of the list measures all the other
\* hosts as often as they are listed, and itself only if the list has its name
\* twice; the exceptions are the names it takes for itself.  A list in another
\* form, or one with a host that leads to no server, starts nothing anywhere.
MeshExact ==
  \A i \in Positions : run[i] \in {"on", "over"} =>
    /\ Supported(input)
    /\ \A j \in DOMAIN MeantHosts : At[MeantHosts[j]] # Nobody
    /\ Times(hosts[i], hosts) = Times(hosts[i], MeantHosts)
    /\ \A n \in Names :
         Times(n, targets[i]) =
           IF TakenForSelf(Home(i), n) THEN 0
           ELSE Times(n, MeantHosts) - (IF n = hosts[i] THEN 1 ELSE 0)

\* Every reader of a run gets a data point out, whatever becomes of the other
\* readers, unless its own server or its host goes or the run ends.
Measuring(i, k) ==
  /\ run[i] = "on" /\ Alive(Home(i))
  /\ k \in DOMAIN targets[i] /\ Answers(targets[i][k])
EveryPairReported ==
  \A i \in Positions, k \in Readers : Measuring(i, k) ~> k \in reported[i] \/ ~Measuring(i, k)

\* A server looks after its figures again and again, and ends only by being
\* told to or for want of memory figures.
KeepsMonitoring ==
  \A s \in Servers : \A place \in {"queued", "round"} :
    []<>(mon[s] = place \/ ~Alive(s))
=============================================================================

--------------------------- MODULE Network_proofs ---------------------------
(***************************************************************************)
(* Safety of the three programs that talk over sockets and pipes, each for *)
(* all its parameters: NetBench (netperf2 and iperf), Ipv6connect and      *)
(* Hackbench.                                                              *)
(*                                                                         *)
(* NetBench: the two roles are always in the same round, since only a      *)
(* barrier both have reached ends one.  From the start barrier on their    *)
(* waits have the same length, which is why the timeouts decide who leaves *)
(* first.                                                                  *)
(***************************************************************************)
EXTENDS NetBench, Ipv6connect, Hackbench, FiniteSetTheorems, TLAPS

N == Len(StreamList)
Places == {"idle", "serve", "start", "running", "stop", "raised", "done"}

InStep ==
  /\ round["server"] = round["client"]
  /\ \A r \in Roles : pc[r] # "done" => round[r] <= N
  /\ pc["server"] = "done" <=> pc["client"] = "done"
  /\ pc["server"] = "done" => round["server"] = N + 1

ResultsInv ==
  /\ pc["client"] \in {"idle", "start", "running"} => Len(results) = round["client"] - 1
  /\ pc["client"] = "stop" => Len(results) = round["client"]
  /\ pc["client"] = "done" => Len(results) = N

DaemonInv == daemon <=> pc["server"] \in {"start", "stop"}

RunInv ==
  pc["client"] = "running" =>
    /\ waited["client"] <= RunLimits[bench]
    /\ \/ pc["server"] = "stop" /\ waited["server"] = waited["client"]
       \/ faults > 0
       \/ bench = "netperf2" /\ waited["client"] >= ServerWait

IInv == TypeOK /\ InStep /\ ResultsInv /\ DaemonInv /\ RunInv

USE DEF Benches, Roles, N

-----------------------------------------------------------------------------

LEMMA Sizes ==
  /\ N \in Nat /\ N >= 1 /\ MaxFaults \in Nat
  /\ StartWait \in Nat /\ ServerWait \in Nat /\ ClientWait \in Nat
  /\ RunLimits \in [Benches -> Nat] /\ RunLimits["iperf"] < ServerWait
<1>1. StreamList \in Seq(Nat \ {0}) /\ StreamList # <<>>
  BY NetBenchAssumption
<1>2. N \in Nat /\ N >= 1
  BY <1>1
<1>. QED  BY <1>2, NetBenchAssumption

LEMMA Initially == Init => IInv
<1> SUFFICES ASSUME Init PROVE IInv
  OBVIOUS
<1>1. TypeOK
  <2>1. pc \in [Roles -> {"idle"}] /\ round \in [Roles -> {1}] /\ waited \in [Roles -> {0}]
    BY DEF Init
  <2>2. results \in Seq({"output", "none"})
    BY DEF Init
  <2>3. pc \in [Roles -> Places] /\ round \in [Roles -> 1..(N + 1)] /\ waited \in [Roles -> Nat]
    BY <2>1, Sizes DEF Places
  <2>4. bench \in Benches /\ dev \in BOOLEAN /\ daemon \in BOOLEAN
    BY DEF Init
  <2>5. netif \subseteq Roles /\ faults \in 0..MaxFaults
    BY Sizes DEF Init
  <2>. QED  BY <2>2, <2>3, <2>4, <2>5 DEF TypeOK, Places
<1>. QED  BY <1>1, Sizes DEF Init, IInv, InStep, ResultsInv, DaemonInv, RunInv

LEMMA TypesAre ==
  TypeOK <=> /\ bench \in Benches /\ dev \in BOOLEAN /\ pc \in [Roles -> Places]
             /\ round \in [Roles -> 1..(N + 1)] /\ waited \in [Roles -> Nat]
             /\ daemon \in BOOLEAN /\ results \in Seq({"output", "none"})
             /\ netif \subseteq Roles /\ faults \in 0..MaxFaults
BY DEF TypeOK, Places

LEMMA TypesNext ==
  ASSUME bench' \in Benches, dev' \in BOOLEAN, pc' \in [Roles -> Places],
         round' \in [Roles -> 1..(N + 1)], waited' \in [Roles -> Nat],
         daemon' \in BOOLEAN, results' \in Seq({"output", "none"}),
         netif' \subseteq Roles, faults' \in 0..MaxFaults
  PROVE  TypeOK'
BY DEF TypeOK, Places

\* An exception in either role.
LEMMA RaiseStep ==
  ASSUME IInv, NEW r \in Roles, Raise(r), pc[r] \notin {"idle", "raised", "done"},
         \/ faults' = faults + 1 /\ faults < MaxFaults
         \/ /\ faults' = faults
            /\ r = "server" => pc[r] \in {"start", "stop"} /\ waited[r] = Limit(r)
  PROVE  IInv'
<1>type. /\ bench \in Benches /\ dev \in BOOLEAN /\ pc \in [Roles -> Places]
         /\ round \in [Roles -> 1..(N + 1)] /\ waited \in [Roles -> Nat]
         /\ daemon \in BOOLEAN /\ results \in Seq({"output", "none"})
         /\ netif \subseteq Roles /\ faults \in 0..MaxFaults
  BY TypesAre DEF IInv
<1>inv. InStep /\ ResultsInv /\ DaemonInv /\ RunInv
  BY DEF IInv
<1>step. /\ pc' = [pc EXCEPT ![r] = "raised"] /\ waited' = [waited EXCEPT ![r] = 0]
         /\ daemon' = (daemon /\ r # "server") /\ UNCHANGED <<bench, dev, round, results, netif>>
  BY DEF Raise, Goto, StopDaemon
<1>1. TypeOK'
  <2>1. pc' \in [Roles -> Places] /\ waited' \in [Roles -> Nat]
    BY <1>type, <1>step DEF Places
  <2>2. faults' \in 0..MaxFaults
    BY <1>type, Sizes
  <2>3. daemon' \in BOOLEAN
    BY <1>step, Zenon
  <2>. QED  BY <1>type, <1>step, <2>1, <2>2, <2>3, TypesNext
<1>2. InStep'
  BY <1>type, <1>inv, <1>step DEF InStep
<1>3. ResultsInv'
  BY <1>type, <1>inv, <1>step DEF ResultsInv
<1>4. DaemonInv'
  BY <1>type, <1>inv, <1>step DEF DaemonInv
<1>5. RunInv'
  <2>1. CASE r = "client"
    BY <2>1, <1>type, <1>step DEF RunInv
  <2>2. CASE r = "server" /\ pc["client"] = "running"
    <3>1. pc'["client"] = "running" /\ waited'["client"] = waited["client"] /\ bench' = bench
      BY <2>2, <1>type, <1>step
    <3>2. waited["client"] <= RunLimits[bench]
      BY <2>2, <1>inv DEF RunInv
    <3>3. CASE faults' = faults + 1
      BY <3>1, <3>2, <3>3, <1>type, Sizes DEF RunInv
    <3>4. CASE faults' = faults /\ pc["server"] \in {"start", "stop"} /\ waited["server"] = Limit("server")
      <4>1. pc["server"] = "stop" => waited["server"] = ServerWait
        BY <3>4 DEF Limit
      <4>2. waited["client"] \in Nat /\ RunLimits[bench] \in Nat
        BY <1>type, Sizes
      <4>3. CASE pc["server"] = "stop" /\ waited["server"] = waited["client"]
        <5>1. waited["client"] = ServerWait
          BY <4>1, <4>3
        <5>2. bench = "netperf2"
          BY <5>1, <3>2, <1>type, Sizes
        <5>. QED  BY <5>1, <5>2, <3>1, <3>2, Sizes DEF RunInv
      <4>4. CASE faults > 0 \/ (bench = "netperf2" /\ waited["client"] >= ServerWait)
        BY <4>4, <3>1, <3>2, <3>4 DEF RunInv
      <4>. QED  BY <4>3, <4>4, <2>2, <1>inv DEF RunInv
    <3>. QED  BY <2>2, <3>3, <3>4
  <2>3. CASE pc["client"] # "running"
    BY <2>3, <1>type, <1>step DEF RunInv
  <2>. QED  BY <2>1, <2>2, <2>3
<1>. QED  BY <1>1, <1>2, <1>3, <1>4, <1>5 DEF IInv

\* One of the two steps both roles take together, or one of a single role.
LEMMA Preserved == IInv /\ [Next]_vars => IInv'
<1> SUFFICES ASSUME IInv, [Next]_vars PROVE IInv'
  OBVIOUS
<1>type. /\ bench \in Benches /\ dev \in BOOLEAN /\ pc \in [Roles -> Places]
         /\ round \in [Roles -> 1..(N + 1)] /\ waited \in [Roles -> Nat]
         /\ daemon \in BOOLEAN /\ results \in Seq({"output", "none"})
         /\ netif \subseteq Roles /\ faults \in 0..MaxFaults
  BY TypesAre DEF IInv
<1>inv. InStep /\ ResultsInv /\ DaemonInv /\ RunInv
  BY DEF IInv
<1>1. ASSUME NEW r \in Roles, Begin(r) PROVE IInv'
  <2>1. /\ pc[r] = "idle" /\ waited' = [waited EXCEPT ![r] = 0]
        /\ \E p \in {"serve", "start", "raised"} :
             pc' = [pc EXCEPT ![r] = p] /\ (p = "serve" => r = "server") /\ (p = "start" => r = "client")
        /\ UNCHANGED <<bench, dev, round, daemon, results>>
    BY <1>1 DEF Begin, Goto
  <2>2. pc' \in [Roles -> Places] /\ waited' \in [Roles -> Nat]
    BY <1>type, <2>1 DEF Places
  <2>3. netif' \subseteq Roles
    BY <1>1, <1>type DEF Begin
  <2>4. faults' \in 0..MaxFaults /\ faults' >= faults
    BY <1>1, <1>type, Sizes DEF Begin
  <2>5. TypeOK'
    BY <1>type, <2>1, <2>2, <2>3, <2>4, TypesNext
  <2>6. InStep' /\ ResultsInv'
    BY <1>type, <1>inv, <2>1 DEF InStep, ResultsInv
  <2>7. DaemonInv'
    BY <1>type, <1>inv, <2>1 DEF DaemonInv
  <2>8. RunInv'
    BY <1>type, <1>inv, <2>1, <2>4, Sizes DEF RunInv
  <2>. QED  BY <2>5, <2>6, <2>7, <2>8 DEF IInv
<1>2. ASSUME NEW r \in Roles, Error(r) PROVE IInv'
  BY <1>2, RaiseStep DEF Error, Waits
<1>3. ASSUME NEW r \in Roles, BarrierTimeout(r) PROVE IInv'
  BY <1>3, RaiseStep DEF BarrierTimeout
<1>4. CASE ServerStart
  <2>1. /\ pc["server"] = "serve" /\ pc' = [pc EXCEPT !["server"] = "start"]
        /\ waited' = [waited EXCEPT !["server"] = 0] /\ daemon' = TRUE
        /\ UNCHANGED <<bench, dev, round, results, netif, faults>>
    BY <1>4 DEF ServerStart, Goto
  <2>2. pc' \in [Roles -> Places] /\ waited' \in [Roles -> Nat]
    BY <1>type, <2>1 DEF Places
  <2>3. daemon' \in BOOLEAN
    BY <2>1, Zenon
  <2>4. TypeOK'
    BY <1>type, <2>1, <2>2, <2>3, TypesNext
  <2>5. InStep' /\ ResultsInv'
    BY <1>type, <1>inv, <2>1 DEF InStep, ResultsInv
  <2>6. DaemonInv'
    BY <1>type, <2>1 DEF DaemonInv
  <2>7. RunInv'
    BY <1>type, <1>inv, <2>1 DEF RunInv
  <2>. QED  BY <2>4, <2>5, <2>6, <2>7 DEF IInv
<1>5. CASE Started
  <2>1. /\ pc["server"] = "start" /\ pc["client"] = "start"
        /\ pc' = [server |-> "stop", client |-> "running"]
        /\ waited' = [r \in Roles |-> 0]
        /\ UNCHANGED <<bench, dev, round, daemon, results, netif, faults>>
    BY <1>5 DEF Started, Meet
  <2>2. /\ pc' \in [Roles -> Places] /\ waited' \in [Roles -> Nat]
        /\ pc'["server"] = "stop" /\ pc'["client"] = "running"
        /\ waited'["server"] = 0 /\ waited'["client"] = 0
    BY <2>1 DEF Places
  <2>3. TypeOK'
    BY <1>type, <2>1, <2>2, TypesNext
  <2>4. InStep' /\ ResultsInv'
    BY <1>type, <1>inv, <2>1, <2>2 DEF InStep, ResultsInv
  <2>5. DaemonInv'
    BY <1>inv, <2>1, <2>2 DEF DaemonInv
  <2>6. RunInv'
    BY <1>type, <2>1, <2>2, Sizes DEF RunInv
  <2>. QED  BY <2>3, <2>4, <2>5, <2>6 DEF IInv
<1>6. CASE Stopped
  <2>1. /\ pc["server"] = "stop" /\ pc["client"] = "stop"
        /\ pc' = [server |-> NextRound("server", "serve"), client |-> NextRound("client", "start")]
        /\ waited' = [r \in Roles |-> 0] /\ round' = [r \in Roles |-> round[r] + 1]
        /\ daemon' = FALSE /\ netif' \subseteq netif
        /\ UNCHANGED <<bench, dev, results, faults>>
    BY <1>6 DEF Stopped, Meet
  <2>2. /\ round["server"] = round["client"] /\ round["server"] \in 1..N
        /\ Len(results) = round["client"]
    BY <2>1, <1>type, <1>inv, Sizes DEF InStep, ResultsInv
  <2>3. /\ pc'["server"] = (IF round["server"] < N THEN "serve" ELSE "done")
        /\ pc'["client"] = (IF round["client"] < N THEN "start" ELSE "done")
        /\ round'["server"] = round["server"] + 1 /\ round'["client"] = round["client"] + 1
    BY <2>1 DEF NextRound
  <2>4. pc' \in [Roles -> Places] /\ waited' \in [Roles -> Nat]
    BY <2>1 DEF NextRound, Places
  <2>5. round' \in [Roles -> 1..(N + 1)]
    BY <2>1, <2>2, Sizes
  <2>6. daemon' \in BOOLEAN
    BY <2>1, Zenon
  <2>7. TypeOK'
    BY <1>type, <2>1, <2>4, <2>5, <2>6, TypesNext
  <2>8. InStep'
    BY <2>2, <2>3, Sizes DEF InStep
  <2>9. ResultsInv'
    BY <2>1, <2>2, <2>3, Sizes DEF ResultsInv
  <2>10. DaemonInv' /\ RunInv'
    BY <2>1, <2>3 DEF DaemonInv, RunInv
  <2>. QED  BY <2>7, <2>8, <2>9, <2>10 DEF IInv
<1>7. ASSUME NEW v \in {"output", "none"}, Result(v), pc["client"] = "running"
      PROVE  IInv'
  <2>1. /\ pc' = [pc EXCEPT !["client"] = "stop"] /\ waited' = [waited EXCEPT !["client"] = 0]
        /\ results' = Append(results, v)
        /\ UNCHANGED <<bench, dev, round, daemon, netif, faults>>
    BY <1>7 DEF Result, Goto
  <2>2. results' \in Seq({"output", "none"}) /\ Len(results') = Len(results) + 1
    BY <1>type, <2>1
  <2>3. pc' \in [Roles -> Places] /\ waited' \in [Roles -> Nat]
    BY <1>type, <2>1 DEF Places
  <2>4. TypeOK'
    BY <1>type, <2>1, <2>2, <2>3, TypesNext
  <2>5. InStep'
    BY <1>7, <1>type, <1>inv, <2>1 DEF InStep
  <2>6. ResultsInv'
    BY <1>7, <1>type, <1>inv, <2>1, <2>2 DEF ResultsInv
  <2>7. DaemonInv' /\ RunInv'
    BY <1>type, <1>inv, <2>1 DEF DaemonInv, RunInv
  <2>. QED  BY <2>4, <2>5, <2>6, <2>7 DEF IInv
<1>8. CASE ClientOutput \/ ClientTimeout
  BY <1>7, <1>8 DEF ClientOutput, ClientTimeout
<1>9. CASE ClientFails
  BY <1>9, RaiseStep DEF ClientFails
<1>10. CASE Tick
  <2>1. /\ \A r \in Roles : Waits(r) => waited[r] < Limit(r)
        /\ waited' = [r \in Roles |-> IF Waits(r) THEN waited[r] + 1 ELSE waited[r]]
        /\ UNCHANGED <<bench, dev, pc, round, daemon, results, netif, faults>>
    BY <1>10 DEF Tick
  <2>2. waited' \in [Roles -> Nat]
    BY <1>type, <2>1
  <2>3. TypeOK'
    BY <1>type, <2>1, <2>2, TypesNext
  <2>4. RunInv'
    <3> SUFFICES ASSUME pc["client"] = "running" PROVE RunInv'
      BY <2>1 DEF RunInv
    <3>1. Limit("client") = RunLimits[bench] /\ Waits("client")
      BY DEF Limit, Waits
    <3>2. /\ waited["client"] < RunLimits[bench] /\ waited'["client"] = waited["client"] + 1
          /\ pc["server"] = "stop" => waited'["server"] = waited["server"] + 1
      BY <3>1, <2>1 DEF Waits
    <3>. QED  BY <3>2, <1>type, <1>inv, <2>1, Sizes DEF RunInv
  <2>5. InStep' /\ ResultsInv' /\ DaemonInv'
    BY <1>inv, <2>1 DEF InStep, ResultsInv, DaemonInv
  <2>. QED  BY <2>3, <2>4, <2>5 DEF IInv
<1>11. CASE UNCHANGED vars
  BY <1>11, <1>inv DEF vars, IInv, TypeOK, InStep, ResultsInv, DaemonInv, RunInv
<1>. QED  BY <1>1, <1>2, <1>3, <1>4, <1>5, <1>6, <1>8, <1>9, <1>10, <1>11 DEF Next, Step

LEMMA Invariance == Spec => []IInv
BY Initially, Preserved, PTL DEF Spec

\* The type invariant of the two roles, for every stream list.
THEOREM TypeCorrect == Spec => []TypeOK
<1>1. IInv => TypeOK
  BY DEF IInv
<1>. QED  BY <1>1, Invariance, PTL

\* run_once of both benchmarks: the daemon of the round is up while the
\* client runs its commands, but for the exceptions ServerServesRun names.
THEOREM ServesRun == Spec => []ServerServesRun
<1>1. IInv => ServerServesRun
  BY DEF IInv, InStep, DaemonInv, RunInv, ServerServesRun
<1>. QED  BY <1>1, Invariance, PTL

\* The finally clause and the two barriers: no daemon outlives the server,
\* and a server that ends well has seen a result for every round.
THEOREM EndsClean == Spec => []ServerEndsClean
<1>1. IInv => ServerEndsClean
  BY DEF IInv, InStep, ResultsInv, DaemonInv, ServerEndsClean, Over
<1>. QED  BY <1>1, Invariance, PTL

-----------------------------------------------------------------------------
(***************************************************************************)
(* Ipv6connect: the open descriptors are the ones main and the thread hold *)
(* (SocketInv), the thread can only be where main expects it (HandInv) and *)
(* main connects to the socket the thread listens on (MainInv), so that no *)
(* call fails of itself.  PortsInv bounds the ports by the connects.       *)
(***************************************************************************)

LEMMA TimesMonotone ==
  ASSUME NEW x \in Int, NEW y \in Int, NEW c \in Nat, x <= y
  PROVE  x * c <= y * c
<1>1. (y - x) * c >= 0
  OBVIOUS
<1>2. (y - x) * c = y * c - x * c
  OBVIOUS
<1>. QED  BY <1>1, <1>2

\* The server sockets, and the descriptors in use: main's and the thread's.
Listeners ==
  (IF main = "loop" /\ server_fd # None THEN {server_fd} ELSE {})
  \cup (IF server \in {"tell", "accept", "close"} THEN {threaded_server_fd} ELSE {})
InUse ==
  Listeners \cup (IF client_fd # None THEN {client_fd} ELSE {})
            \cup (IF accept_fd # None THEN {accept_fd} ELSE {})

\* The descriptors and the queue, until the program exits.
SocketInv ==
  Alive =>
    /\ open = InUse
    /\ \A f \in Fds : port[f] # 0 <=> f \in Listeners
    /\ queue = IF main \in {"close", "join"} /\ server = "accept"
                 THEN {port[threaded_server_fd]} ELSE {}
    /\ client_fd # None <=> main = "close"
    /\ accept_fd # None <=> server = "close"
    /\ client_fd # None =>
         client_fd # accept_fd /\ client_fd \notin Listeners
    /\ accept_fd \notin Listeners
    /\ server \in {"tell", "accept", "close"} => threaded_server_fd # None

\* Where the server thread can be for each place of main.
HandInv ==
  /\ main = "loop" => server \in {"none", "ended"}
  /\ main \in {"lock", "wait"} => server \in {"none", "ended", "listen", "tell", "accept"}
  /\ main \in {"get", "name", "connect"} => server = "accept"
  /\ main \in {"close", "join"} => server \in {"accept", "close", "reset", "ended"}
  /\ Alive => (threaded_listening <=> server \in {"accept", "close", "reset"})
  /\ Alive => (threaded_mutex = "main" <=> main = "get")

\* What main holds of the server.
MainInv ==
  /\ main = "loop" /\ server_fd # None => type <= Len(Types) /\ Types[type] = "O"
  /\ main \in {"lock", "wait", "get", "join"} => server_fd = None
  /\ main \in {"name", "connect"} => server_fd = threaded_server_fd
  /\ main = "connect" => target = port[threaded_server_fd]
  /\ main = "exit1" => faults > 0

\* The connects that are over, and the ports given out for them.
ConnectsOver == ((type - 1) * Outer + i) * Connects + j
Begun ==
  \/ main = "loop" /\ server_fd # None
  \/ main \in {"lock", "wait"} /\ server \in {"tell", "accept"}
  \/ main \in {"get", "name", "connect", "close", "join"}
PortsInv ==
  /\ main \notin {"loop", "exit0", "exit1"} => type <= Len(Types)
  /\ type > Len(Types) => i = 0 /\ j = 0
  /\ Alive => ports <= ConnectsOver + (IF Begun THEN 1 ELSE 0)

ConnectInv == ConnectTypeOK /\ SocketInv /\ HandInv /\ MainInv /\ PortsInv

LEMMA V6Sizes ==
  /\ Len(Types) \in Nat /\ Outer \in Nat /\ Outer >= 1
  /\ Inner \in Nat /\ Inner >= 1 /\ Connects \in Nat /\ Connects >= 1 /\ MaxFaults \in Nat
BY Ipv6connectAssumption DEF Connects

\* socket and accept return a descriptor that was free.
LEMMA V6LowestFd ==
  ASSUME NEW used, used \subseteq Fds, used # Fds
  PROVE  LowestFd(used) \in Fds /\ LowestFd(used) \notin used
<1> DEFINE S == Fds \ used
<1>1. S # {} /\ S \subseteq {3, 4, 5}
  <2>1. S # {}
    OBVIOUS
  <2>2. \A x \in S : x \in Fds
    OBVIOUS
  <2>. QED  BY <2>1, <2>2 DEF Fds
<1>2. \E x \in S : \A y \in S : x <= y
  <2>1. CASE 3 \in S
    BY <1>1, <2>1
  <2>2. CASE 3 \notin S /\ 4 \in S
    BY <1>1, <2>2
  <2>3. CASE 3 \notin S /\ 4 \notin S
    BY <1>1, <2>3
  <2>. QED  BY <2>1, <2>2, <2>3
<1>3. LowestFd(used) = CHOOSE x \in S : \A y \in S : x <= y
  BY DEF LowestFd, Min
<1> HIDE DEF S
<1>4. LowestFd(used) \in S
  BY <1>2, <1>3
<1>. QED  BY <1>4 DEF S

LEMMA V6NewFd ==
  ASSUME open \subseteq Fds, open # Fds
  PROVE  NewFd \in Fds /\ NewFd \notin open
BY V6LowestFd DEF NewFd

LEMMA V6Init ==
  ASSUME ConnectInit
  PROVE  ConnectInv
<1> USE V6Sizes DEF ConnectInit
<1>1. ConnectTypeOK
  <2>1. Len(Types) * Outer \in Nat
    OBVIOUS
  <2>2. Len(Types) * Outer * Connects \in Nat
    BY <2>1
  <2>3. port \in [Fds -> 0..ports] /\ target \in 0..ports
        /\ ports \in 0..(Len(Types) * Outer * Connects)
    BY <2>2
  <2>4. type \in 1..(Len(Types) + 1) /\ i \in 0..(Outer - 1) /\ j \in 0..(Connects - 1)
    OBVIOUS
  <2>5. {threaded_server_fd, server_fd, client_fd, accept_fd} \subseteq Fds \cup {None}
    OBVIOUS
  <2>6. open \subseteq Fds /\ queue \subseteq 1..ports /\ faults \in 0..MaxFaults
    OBVIOUS
  <2>. QED  BY <2>3, <2>4, <2>5, <2>6 DEF ConnectTypeOK
<1>2. SocketInv
  BY DEF SocketInv, InUse, Listeners, None, Fds
<1>3. HandInv
  BY DEF HandInv
<1>4. MainInv
  BY DEF MainInv
<1>5. PortsInv
  BY DEF PortsInv, ConnectsOver, Begun, None
<1>. QED  BY <1>1, <1>2, <1>3, <1>4, <1>5 DEF ConnectInv

\* One more connect is over.
LEMMA V6Advance ==
  ASSUME ConnectTypeOK, type <= Len(Types), Advance
  PROVE  /\ type' \in 1..(Len(Types) + 1) /\ i' \in 0..(Outer - 1) /\ j' \in 0..(Connects - 1)
         /\ ConnectsOver' = ConnectsOver + 1
         /\ type' > Len(Types) => i' = 0 /\ j' = 0
         /\ j # Connects - 1 => type' = type
<1> USE V6Sizes DEF ConnectTypeOK
<1> DEFINE a == (type - 1) * Outer
<1>0. a \in Int /\ a' \in Int /\ i \in Int /\ j \in Int /\ type \in Int /\ Connects \in Int
      /\ Outer \in Int
  BY DEF Advance
<1>1. CASE j < Connects - 1
  <2>1. j' = j + 1 /\ type' = type /\ i' = i
    BY <1>1 DEF Advance
  <2>2. (a + i) * Connects \in Int
    BY <1>0
  <2>. QED  BY <1>0, <1>1, <2>1, <2>2 DEF ConnectsOver
<1>2. CASE j >= Connects - 1 /\ i < Outer - 1
  <2>1. j = Connects - 1 /\ j' = 0 /\ i' = i + 1 /\ type' = type
    BY <1>2 DEF Advance
  <2>2. (a + (i + 1)) * Connects = (a + i) * Connects + Connects
    BY <1>0
  <2>. QED  BY <1>2, <2>1, <2>2 DEF ConnectsOver
<1>3. CASE j >= Connects - 1 /\ i >= Outer - 1
  <2>1. j = Connects - 1 /\ i = Outer - 1 /\ j' = 0 /\ i' = 0 /\ type' = type + 1
    BY <1>3 DEF Advance
  <2>2. type * Outer = a + Outer
    BY <1>0
  <2>3. ConnectsOver' = (a + Outer) * Connects
    BY <2>1, <2>2, <1>0 DEF ConnectsOver
  <2>4. (a + (Outer - 1)) * Connects + Connects = (a + Outer) * Connects
    BY <1>0
  <2>. QED  BY <1>3, <2>1, <2>3, <2>4, <1>0 DEF ConnectsOver
<1>. QED  BY <1>1, <1>2, <1>3

\* There are no more connects than the loops have passes.
LEMMA V6Over ==
  ASSUME ConnectTypeOK
  PROVE  /\ ConnectsOver \in Nat /\ ports \in Nat
         /\ type <= Len(Types) => ConnectsOver + 1 <= Len(Types) * Outer * Connects
         /\ type > Len(Types) /\ i = 0 /\ j = 0 => ConnectsOver = Len(Types) * Outer * Connects
<1> USE V6Sizes DEF ConnectTypeOK
<1> DEFINE n == Len(Types)
           a == (type - 1) * Outer
<1>0. /\ n \in Nat /\ a \in Int /\ i \in Int /\ j \in Int /\ type \in Int
      /\ Connects \in Int /\ Outer \in Int /\ n * Outer \in Int
  OBVIOUS
<1>1. a >= 0
  BY <1>0
<1>2. (a + i) * Connects >= 0 /\ (a + i) * Connects \in Int
  BY <1>0, <1>1
<1>3. ASSUME type <= n PROVE ConnectsOver + 1 <= n * Outer * Connects
  <2>1. type * Outer <= n * Outer
    BY <1>3, <1>0, TimesMonotone
  <2>2. type * Outer = a + Outer
    BY <1>0
  <2>3. a + i + 1 <= n * Outer
    BY <2>1, <2>2, <1>0
  <2>4. (a + i + 1) * Connects <= n * Outer * Connects
    <3> DEFINE u == a + i + 1
               v == n * Outer
    <3>1. u \in Int /\ v \in Int /\ Connects \in Nat /\ u <= v
      BY <2>3, <1>0
    <3> HIDE DEF u, v
    <3>2. u * Connects <= v * Connects
      BY <3>1, TimesMonotone
    <3>. QED  BY <3>2 DEF u, v
  <2>5. (a + i + 1) * Connects = (a + i) * Connects + Connects
    BY <1>0
  <2>. QED  BY <2>4, <2>5, <1>0, <1>2 DEF ConnectsOver
<1>4. ASSUME type > n, i = 0, j = 0 PROVE ConnectsOver = n * Outer * Connects
  <2>1. type = n + 1
    BY <1>4
  <2>. QED  BY <2>1, <1>4, <1>0 DEF ConnectsOver
<1>5. ports \in Nat
  BY <1>0
<1>. QED  BY <1>2, <1>3, <1>4, <1>5, <1>0 DEF ConnectsOver

LEMMA V6CloseTypes ==
  ASSUME NEW c, NEW used, used \subseteq Fds, CloseOf(used, c), ports \in Nat, port \in [Fds -> 0..ports], queue \subseteq 1..ports,
         open \subseteq Fds
  PROVE  ports' = ports /\ port' \in [Fds -> 0..ports]
         /\ queue' \subseteq 1..ports /\ open' \subseteq Fds
<1>1. port' \in [Fds -> 0..ports]
  <2>1. \A f \in Fds : (IF f \in c THEN 0 ELSE port[f]) \in 0..ports
    OBVIOUS
  <2>2. port' = [f \in Fds |-> IF f \in c THEN 0 ELSE port[f]]
    BY DEF CloseOf
  <2>. QED  BY <2>1, <2>2
<1>2. queue' \subseteq queue /\ open' \subseteq used /\ ports' = ports
  BY DEF CloseOf
<1>. QED  BY <1>1, <1>2

\* Two descriptors in use leave one.
LEMMA V6Spare ==
  ASSUME NEW a, NEW b, NEW S, S \subseteq {a, b}
  PROVE  S # Fds
<1> SUFFICES ASSUME S = Fds PROVE FALSE
  OBVIOUS
<1>1. 3 \in S /\ 4 \in S /\ 5 \in S
  BY DEF Fds
<1>. QED  BY <1>1

LEMMA V6CreateServer ==
  ASSUME ConnectInv, CreateServer
  PROVE  ConnectInv'
<1> USE V6Sizes DEF CreateServer, Running, Serve, loopVars, sharedVars, netVars, localVars, Alive
<1>inv. ConnectTypeOK /\ SocketInv /\ HandInv /\ MainInv /\ PortsInv
  BY DEF ConnectInv
<1>0. open = {} /\ Listeners = {} /\ InUse = {}
  <2>1. server \in {"none", "ended"} /\ client_fd = None /\ accept_fd = None
    BY <1>inv DEF HandInv, SocketInv
  <2>2. Listeners = {} /\ InUse = {}
    BY <2>1 DEF Listeners, InUse
  <2>. QED  BY <1>inv, <2>2 DEF SocketInv
<1>new. NewFd \in Fds /\ NewFd \notin open
  <2>1. open # Fds
    BY <1>0 DEF Fds
  <2>. QED  BY <1>inv, <2>1, V6NewFd DEF ConnectTypeOK
<1>1. PortsInv'
  <2>1. ConnectsOver' = ConnectsOver /\ ports \in Nat /\ ConnectsOver \in Nat
    BY <1>inv, V6Over DEF ConnectsOver, ConnectTypeOK
  <2>2. ports <= ConnectsOver + 0
    BY <1>inv, <2>1 DEF PortsInv, Begun
  <2>3. Begun'
    BY <1>new DEF Begun, None, Fds
  <2>. QED  BY <1>inv, <2>1, <2>2, <2>3 DEF PortsInv
<1>2. SocketInv'
  <2>1. server' \in {"none", "ended"} /\ client_fd' = None /\ accept_fd' = None /\ queue' = {}
    BY <1>inv DEF HandInv, SocketInv
  <2>2. Listeners' = {NewFd} /\ InUse' = {NewFd}
    BY <2>1, <1>new DEF Listeners, InUse, None, Fds
  <2>3. open' = {NewFd}
    BY <1>0
  <2>4. \A f \in Fds : port'[f] # 0 <=> f \in Listeners'
    <3>1. \A f \in Fds : port[f] = 0
      BY <1>0, <1>inv DEF SocketInv
    <3>2. port' = [port EXCEPT ![NewFd] = ports + 1] /\ ports + 1 # 0 /\ port \in [Fds -> 0..ports]
      BY <1>inv DEF ConnectTypeOK
    <3>. QED  BY <1>new, <2>2, <3>1, <3>2
  <2>5. main' = "loop"
    OBVIOUS
  <2>6. None \notin {NewFd}
    BY <1>new DEF None, Fds
  <2>. QED  BY <2>1, <2>2, <2>3, <2>4, <2>5, <2>6 DEF SocketInv
<1>3. HandInv'
  BY <1>inv, <1>new DEF ConnectTypeOK, HandInv
<1>4. MainInv'
  BY <1>inv, <1>new DEF ConnectTypeOK, MainInv, HandInv, SocketInv, InUse, Listeners, None, Fds
<1>room. ports + 1 <= Len(Types) * Outer * Connects /\ ports \in Nat
  <2>1. ~Begun /\ type <= Len(Types)
    BY <1>inv DEF Begun, MainInv, PortsInv
  <2>2. ConnectsOver \in Nat /\ ConnectsOver + 1 <= Len(Types) * Outer * Connects /\ ports \in Nat
    BY <1>inv, <2>1, V6Over
  <2>3. ports <= ConnectsOver
    BY <1>inv, <2>1, <2>2 DEF PortsInv
  <2>. QED  BY <2>2, <2>3
<1>5. ConnectTypeOK'
  <2>1. ports' \in 0..(Len(Types) * Outer * Connects) /\ ports' = ports + 1
    BY <1>room
  <2>2. port' \in [Fds -> 0..ports'] /\ target' \in 0..ports' /\ queue' \subseteq 1..ports'
    <3>1. port \in [Fds -> 0..ports] /\ target \in 0..ports /\ queue \subseteq 1..ports
      BY <1>inv DEF ConnectTypeOK
    <3>2. 0..ports \subseteq 0..(ports + 1) /\ 1..ports \subseteq 1..(ports + 1)
          /\ ports + 1 \in 0..(ports + 1)
      BY <1>room
    <3>. QED  BY <1>new, <2>1, <3>1, <3>2
  <2>. QED  BY <1>inv, <1>new, <2>1, <2>2 DEF ConnectTypeOK
<1>. QED  BY <1>1, <1>2, <1>3, <1>4, <1>5 DEF ConnectInv

LEMMA V6ConnectAndAccept ==
  ASSUME ConnectInv, ConnectAndAccept
  PROVE  ConnectInv'
<1> USE V6Sizes DEF ConnectAndAccept, Running, loopVars, sharedVars, netVars, localVars, Alive
<1>inv. ConnectTypeOK /\ SocketInv /\ HandInv /\ MainInv /\ PortsInv
  BY DEF ConnectInv
<1>adv. /\ type' \in 1..(Len(Types) + 1) /\ i' \in 0..(Outer - 1) /\ j' \in 0..(Connects - 1)
        /\ ConnectsOver' = ConnectsOver + 1 /\ ConnectsOver \in Nat
        /\ (type' > Len(Types) => i' = 0 /\ j' = 0)
        /\ (j # Connects - 1 => type' = type)
  BY <1>inv, V6Advance, V6Over DEF ConnectTypeOK, PortsInv
<1>idle. /\ server \in {"none", "ended"} /\ client_fd = None /\ accept_fd = None /\ queue = {}
         /\ Listeners = {server_fd} /\ InUse = {server_fd} /\ open = {server_fd}
  <2>1. server \in {"none", "ended"} /\ client_fd = None /\ accept_fd = None /\ queue = {}
    BY <1>inv DEF HandInv, SocketInv
  <2>2. Listeners = {server_fd} /\ InUse = {server_fd}
    BY <2>1 DEF Listeners, InUse
  <2>. QED  BY <1>inv, <2>1, <2>2 DEF SocketInv
<1>fds. PICK client \in Fds, accepted \in Fds :
          /\ server_fd \in Fds /\ client # server_fd /\ accepted \notin {server_fd, client}
          /\ CloseOf({server_fd, client, accepted},
                     {client, accepted} \cup (IF j = Connects - 1 THEN {server_fd} ELSE {}))
  <2> DEFINE client == LowestFd(open)
             accepted == LowestFd(open \cup {client})
  <2>0. server_fd \in Fds
    BY <1>inv, <1>idle DEF ConnectTypeOK
  <2>1. client \in Fds /\ client \notin open
    BY <2>0, <1>idle, V6LowestFd, V6Spare
  <2>2. accepted \in Fds /\ accepted \notin open \cup {client}
    <3>1. open \cup {client} \subseteq Fds /\ open \cup {client} # Fds
      BY <2>0, <2>1, <1>idle, V6Spare
    <3>. QED  BY <3>1, V6LowestFd
  <2>3. CloseOf(open \cup {client, accepted},
               {client, accepted} \cup (IF j = Connects - 1 THEN {server_fd} ELSE {}))
    OBVIOUS
  <2>4. open \cup {client, accepted} = {server_fd, client, accepted}
    BY <1>idle
  <2> HIDE DEF client, accepted
  <2>5. CloseOf({server_fd, client, accepted},
               {client, accepted} \cup (IF j = Connects - 1 THEN {server_fd} ELSE {}))
    BY <2>3, <2>4 DEF CloseOf
  <2>. QED  BY <2>0, <2>1, <2>2, <2>5, <1>idle
<1>same. ports' = ports
  BY <1>fds DEF CloseOf
<1>1. PortsInv'
  BY <1>inv, <1>same, <1>adv DEF ConnectTypeOK, PortsInv, Begun, HandInv
<1>2. SocketInv'
  <2>1. port[client] = 0 /\ port[accepted] = 0
    BY <1>inv, <1>idle, <1>fds DEF SocketInv
  <2>2. CASE j = Connects - 1
    <3>1. Listeners' = {} /\ InUse' = {}
      BY <1>idle, <2>2 DEF Listeners, InUse
    <3>2. open' = {} /\ queue' = {}
      BY <1>idle, <1>fds, <2>2 DEF CloseOf
    <3>3. \A f \in Fds : port'[f] = 0
      BY <1>inv, <1>idle, <1>fds, <2>2 DEF SocketInv, CloseOf
    <3>. QED  BY <1>idle, <3>1, <3>2, <3>3 DEF SocketInv
  <2>3. CASE j # Connects - 1
    <3>1. Listeners' = Listeners /\ InUse' = InUse
      BY <2>3 DEF Listeners, InUse
    <3>2. open' = open /\ queue' = {}
      BY <1>idle, <1>fds, <2>3 DEF CloseOf
    <3>3. \A f \in Fds : port'[f] = port[f]
      BY <1>fds, <2>1, <2>3 DEF CloseOf
    <3>. QED  BY <1>inv, <1>idle, <2>3, <3>1, <3>2, <3>3 DEF SocketInv
  <2>. QED  BY <2>2, <2>3
<1>3. HandInv'
  BY <1>inv, <1>adv DEF ConnectTypeOK, HandInv
<1>4. MainInv'
  BY <1>inv, <1>adv DEF ConnectTypeOK, MainInv, HandInv, SocketInv, InUse, Listeners, None, Fds
<1>types. ports \in Nat /\ port \in [Fds -> 0..ports] /\ queue \subseteq 1..ports
          /\ open \subseteq Fds
  BY <1>inv, V6Over DEF ConnectTypeOK
<1>5. ConnectTypeOK'
  <2>1. port' \in [Fds -> 0..ports'] /\ queue' \subseteq 1..ports' /\ open' \subseteq Fds
    <3>1. {server_fd, client, accepted} \subseteq Fds
      BY <1>fds
    <3>. QED  BY <1>fds, <1>types, <3>1, V6CloseTypes
  <2>. QED  BY <1>inv, <1>same, <1>adv, <2>1 DEF ConnectTypeOK
<1>. QED  BY <1>1, <1>2, <1>3, <1>4, <1>5 DEF ConnectInv

LEMMA V6CreateServerConnectAndAccept ==
  ASSUME ConnectInv, CreateServerConnectAndAccept
  PROVE  ConnectInv'
<1> USE V6Sizes DEF CreateServerConnectAndAccept, Running, loopVars, sharedVars, netVars,
        localVars, Alive
<1>inv. ConnectTypeOK /\ SocketInv /\ HandInv /\ MainInv /\ PortsInv
  BY DEF ConnectInv
<1>adv. /\ type' \in 1..(Len(Types) + 1) /\ i' \in 0..(Outer - 1) /\ j' \in 0..(Connects - 1)
        /\ ConnectsOver' = ConnectsOver + 1 /\ ConnectsOver \in Nat
        /\ (type' > Len(Types) => i' = 0 /\ j' = 0)
        /\ (j # Connects - 1 => type' = type)
  BY <1>inv, V6Advance, V6Over DEF ConnectTypeOK, PortsInv
<1>open. open' = open
  <2> DEFINE listener == LowestFd(open)
             client == LowestFd(open \cup {listener})
             accepted == LowestFd(open \cup {listener, client})
             used == {listener, client, accepted}
  <2>1. open = {}
    <3>1. server_fd = None /\ server \in {"none", "ended"} /\ client_fd = None /\ accept_fd = None
      BY <1>inv DEF HandInv, SocketInv, MainInv
    <3>2. InUse = {}
      BY <3>1 DEF InUse, Listeners
    <3>. QED  BY <1>inv, <3>2 DEF SocketInv
  <2>2. open' = (open \cup used) \ used
    OBVIOUS
  <2>. QED  BY <2>1, <2>2
<1>1. PortsInv'
  BY <1>inv, <1>adv, <1>open DEF ConnectTypeOK, PortsInv, Begun, HandInv
<1>2. SocketInv'
  BY <1>inv, <1>adv, <1>open DEF ConnectTypeOK, SocketInv, HandInv, MainInv, InUse, Listeners, None, Fds
<1>3. HandInv'
  BY <1>inv, <1>adv, <1>open DEF ConnectTypeOK, HandInv
<1>4. MainInv'
  BY <1>inv, <1>adv, <1>open DEF ConnectTypeOK, MainInv, HandInv, SocketInv, InUse, Listeners, None, Fds
<1>room. ports + 1 <= Len(Types) * Outer * Connects /\ ports \in Nat
  <2>1. ~Begun /\ type <= Len(Types)
    BY <1>inv DEF Begun, MainInv, PortsInv
  <2>2. ConnectsOver \in Nat /\ ConnectsOver + 1 <= Len(Types) * Outer * Connects /\ ports \in Nat
    BY <1>inv, <2>1, V6Over
  <2>3. ports <= ConnectsOver
    BY <1>inv, <2>1, <2>2 DEF PortsInv
  <2>. QED  BY <2>2, <2>3
<1>5. ConnectTypeOK'
  <2>1. ports' \in 0..(Len(Types) * Outer * Connects) /\ ports' = ports + 1
    BY <1>room
  <2>2. port' \in [Fds -> 0..ports'] /\ target' \in 0..ports' /\ queue' \subseteq 1..ports'
    <3>1. port \in [Fds -> 0..ports] /\ target \in 0..ports /\ queue \subseteq 1..ports
      BY <1>inv DEF ConnectTypeOK
    <3>2. 0..ports \subseteq 0..(ports + 1) /\ 1..ports \subseteq 1..(ports + 1)
      BY <1>room
    <3>. QED  BY <2>1, <3>1, <3>2
  <2>. QED  BY <1>inv, <1>adv, <1>open, <2>1, <2>2 DEF ConnectTypeOK
<1>. QED  BY <1>1, <1>2, <1>3, <1>4, <1>5 DEF ConnectInv

LEMMA V6StartThread ==
  ASSUME ConnectInv, StartThread
  PROVE  ConnectInv'
<1> USE V6Sizes DEF StartThread, Running, loopVars, sharedVars, netVars, localVars, Alive
<1>inv. ConnectTypeOK /\ SocketInv /\ HandInv /\ MainInv /\ PortsInv
  BY DEF ConnectInv
<1>1. PortsInv'
  <2>1. ConnectsOver' = ConnectsOver /\ type <= Len(Types) /\ server_fd = None
    BY <1>inv DEF ConnectsOver, MainInv
  <2>2. ports <= ConnectsOver + 0
    BY <1>inv, <2>1 DEF PortsInv, Begun
  <2>3. ~Begun'
    BY <1>inv DEF Begun, HandInv
  <2>. QED  BY <1>inv, <2>1, <2>2, <2>3 DEF PortsInv
<1>2. SocketInv'
  BY <1>inv DEF ConnectTypeOK, SocketInv, HandInv, MainInv, InUse, Listeners, None, Fds
<1>3. HandInv'
  BY <1>inv DEF ConnectTypeOK, HandInv
<1>4. MainInv'
  BY <1>inv DEF ConnectTypeOK, MainInv, HandInv, SocketInv, InUse, Listeners, None, Fds
<1>5. ConnectTypeOK'
  <2>1. faults' \in 0..MaxFaults /\ server' \in {"listen", server}
    BY <1>inv DEF ConnectTypeOK
  <2>. QED  BY <1>inv, <2>1 DEF ConnectTypeOK
<1>. QED  BY <1>1, <1>2, <1>3, <1>4, <1>5 DEF ConnectInv

LEMMA V6Lock ==
  ASSUME ConnectInv, Lock
  PROVE  ConnectInv'
<1> USE V6Sizes DEF Lock, loopVars, sharedVars, netVars, localVars, Alive
<1>inv. ConnectTypeOK /\ SocketInv /\ HandInv /\ MainInv /\ PortsInv
  BY DEF ConnectInv
<1>1. PortsInv'
  BY <1>inv DEF ConnectTypeOK, PortsInv, ConnectsOver, Begun, HandInv
<1>2. SocketInv'
  BY <1>inv DEF ConnectTypeOK, SocketInv, HandInv, MainInv, InUse, Listeners, None, Fds
<1>3. HandInv'
  BY <1>inv DEF ConnectTypeOK, HandInv
<1>4. MainInv'
  BY <1>inv DEF ConnectTypeOK, MainInv, HandInv, SocketInv, InUse, Listeners, None, Fds
<1>5. ConnectTypeOK'
  BY <1>inv DEF ConnectTypeOK
<1>. QED  BY <1>1, <1>2, <1>3, <1>4, <1>5 DEF ConnectInv

LEMMA V6Wakeup ==
  ASSUME ConnectInv, Wakeup
  PROVE  ConnectInv'
<1> USE V6Sizes DEF Wakeup, loopVars, sharedVars, netVars, localVars, Alive
<1>inv. ConnectTypeOK /\ SocketInv /\ HandInv /\ MainInv /\ PortsInv
  BY DEF ConnectInv
<1>1. PortsInv'
  BY <1>inv DEF ConnectTypeOK, PortsInv, ConnectsOver, Begun, HandInv
<1>2. SocketInv'
  BY <1>inv DEF ConnectTypeOK, SocketInv, HandInv, MainInv, InUse, Listeners, None, Fds
<1>3. HandInv'
  BY <1>inv DEF ConnectTypeOK, HandInv
<1>4. MainInv'
  BY <1>inv DEF ConnectTypeOK, MainInv, HandInv, SocketInv, InUse, Listeners, None, Fds
<1>5. ConnectTypeOK'
  BY <1>inv DEF ConnectTypeOK
<1>. QED  BY <1>1, <1>2, <1>3, <1>4, <1>5 DEF ConnectInv

LEMMA V6SpuriousWakeup ==
  ASSUME ConnectInv, SpuriousWakeup
  PROVE  ConnectInv'
<1> USE V6Sizes DEF SpuriousWakeup, loopVars, sharedVars, netVars, localVars, Alive
<1>inv. ConnectTypeOK /\ SocketInv /\ HandInv /\ MainInv /\ PortsInv
  BY DEF ConnectInv
<1>1. PortsInv'
  BY <1>inv DEF ConnectTypeOK, PortsInv, ConnectsOver, Begun, HandInv
<1>2. SocketInv'
  BY <1>inv DEF ConnectTypeOK, SocketInv, HandInv, MainInv, InUse, Listeners, None, Fds
<1>3. HandInv'
  BY <1>inv DEF ConnectTypeOK, HandInv
<1>4. MainInv'
  BY <1>inv DEF ConnectTypeOK, MainInv, HandInv, SocketInv, InUse, Listeners, None, Fds
<1>5. ConnectTypeOK'
  BY <1>inv DEF ConnectTypeOK
<1>. QED  BY <1>1, <1>2, <1>3, <1>4, <1>5 DEF ConnectInv

LEMMA V6GetServerFD ==
  ASSUME ConnectInv, GetServerFD
  PROVE  ConnectInv'
<1> USE V6Sizes DEF GetServerFD, loopVars, sharedVars, netVars, localVars, Alive
<1>inv. ConnectTypeOK /\ SocketInv /\ HandInv /\ MainInv /\ PortsInv
  BY DEF ConnectInv
<1>1. PortsInv'
  BY <1>inv DEF ConnectTypeOK, PortsInv, ConnectsOver, Begun, HandInv
<1>2. SocketInv'
  BY <1>inv DEF ConnectTypeOK, SocketInv, HandInv, MainInv, InUse, Listeners, None, Fds
<1>3. HandInv'
  BY <1>inv DEF ConnectTypeOK, HandInv
<1>4. MainInv'
  BY <1>inv DEF ConnectTypeOK, MainInv, HandInv, SocketInv, InUse, Listeners, None, Fds
<1>5. ConnectTypeOK'
  BY <1>inv DEF ConnectTypeOK
<1>. QED  BY <1>1, <1>2, <1>3, <1>4, <1>5 DEF ConnectInv

LEMMA V6GetSockName ==
  ASSUME ConnectInv, GetSockName
  PROVE  ConnectInv'
<1> USE V6Sizes DEF GetSockName, loopVars, sharedVars, netVars, localVars, Alive
<1>inv. ConnectTypeOK /\ SocketInv /\ HandInv /\ MainInv /\ PortsInv
  BY DEF ConnectInv
<1>1. PortsInv'
  BY <1>inv DEF ConnectTypeOK, PortsInv, ConnectsOver, Begun, HandInv
<1>2. SocketInv'
  BY <1>inv DEF ConnectTypeOK, SocketInv, HandInv, MainInv, InUse, Listeners, None, Fds
<1>3. HandInv'
  BY <1>inv DEF ConnectTypeOK, HandInv
<1>4. MainInv'
  BY <1>inv DEF ConnectTypeOK, MainInv, HandInv, SocketInv, InUse, Listeners, None, Fds
<1>5. ConnectTypeOK'
  BY <1>inv DEF ConnectTypeOK
<1>. QED  BY <1>1, <1>2, <1>3, <1>4, <1>5 DEF ConnectInv

LEMMA V6Connect ==
  ASSUME ConnectInv, Connect
  PROVE  ConnectInv'
<1> USE V6Sizes DEF Connect, Listening, loopVars, sharedVars, netVars, localVars, Alive
<1>inv. ConnectTypeOK /\ SocketInv /\ HandInv /\ MainInv /\ PortsInv
  BY DEF ConnectInv
<1>0. /\ server = "accept" /\ client_fd = None /\ accept_fd = None /\ queue = {}
      /\ server_fd = threaded_server_fd /\ target = port[threaded_server_fd]
      /\ threaded_server_fd \in Fds
  BY <1>inv DEF HandInv, SocketInv, MainInv, ConnectTypeOK
<1>00. Listeners = {threaded_server_fd} /\ open = {threaded_server_fd}
  BY <1>inv, <1>0 DEF SocketInv, Listeners, InUse
<1>new. NewFd \in Fds /\ NewFd \notin open
  <2>1. open # Fds
    BY <1>00, V6Spare
  <2>. QED  BY <1>inv, <2>1, V6NewFd DEF ConnectTypeOK
<1>step. /\ main' = "close" /\ queue' = {port[threaded_server_fd]}
         /\ client_fd' = NewFd /\ open' = {threaded_server_fd, NewFd}
  BY <1>0, <1>00
<1>1. PortsInv'
  BY <1>inv, <1>new DEF ConnectTypeOK, PortsInv, ConnectsOver, Begun, HandInv
<1>2. SocketInv'
  <2>1. Listeners' = {threaded_server_fd}
    BY <1>0, <1>step DEF Listeners
  <2>2. InUse' = {threaded_server_fd, NewFd}
    BY <1>0, <1>new, <1>step, <2>1 DEF InUse, None, Fds
  <2>3. NewFd # None /\ NewFd # threaded_server_fd
    BY <1>00, <1>new DEF None, Fds
  <2>. QED  BY <1>inv, <1>0, <1>00, <1>step, <2>1, <2>2, <2>3 DEF SocketInv
<1>3. HandInv'
  BY <1>inv, <1>new DEF ConnectTypeOK, HandInv
<1>4. MainInv'
  BY <1>inv, <1>new DEF ConnectTypeOK, MainInv, HandInv, SocketInv, InUse, Listeners, None, Fds
<1>5. ConnectTypeOK'
  <2>1. port[threaded_server_fd] # 0 /\ port[threaded_server_fd] \in 0..ports /\ ports \in Nat
    BY <1>inv, <1>0, <1>00, V6Over DEF SocketInv, ConnectTypeOK
  <2>2. queue' \subseteq 1..ports' /\ open' \subseteq Fds
    BY <1>0, <1>new, <1>step, <2>1
  <2>. QED  BY <1>inv, <1>new, <1>step, <2>2 DEF ConnectTypeOK
<1>. QED  BY <1>1, <1>2, <1>3, <1>4, <1>5 DEF ConnectInv

LEMMA V6CloseClient ==
  ASSUME ConnectInv, CloseClient
  PROVE  ConnectInv'
<1> USE V6Sizes DEF CloseClient, loopVars, sharedVars, netVars, localVars, Alive
<1>inv. ConnectTypeOK /\ SocketInv /\ HandInv /\ MainInv /\ PortsInv
  BY DEF ConnectInv
<1>same. ports' = ports
  BY DEF Close, CloseOf
<1>1. PortsInv'
  BY <1>inv, <1>same DEF ConnectTypeOK, PortsInv, ConnectsOver, Begun, HandInv
<1>2. SocketInv'
  <2>0. client_fd # None /\ client_fd # accept_fd /\ client_fd \notin Listeners /\ client_fd \in Fds
    BY <1>inv DEF SocketInv, ConnectTypeOK
  <2>1. Listeners' = Listeners
    BY DEF Listeners
  <2>2. InUse' = InUse \ {client_fd}
    BY <1>inv, <2>0, <2>1 DEF InUse
  <2>3. port[client_fd] = 0
    BY <1>inv, <2>0 DEF SocketInv
  <2>4. 0 \notin queue /\ queue' = queue
    BY <1>inv, <2>3 DEF ConnectTypeOK, Close, CloseOf
  <2>5. \A f \in Fds : port'[f] = port[f]
    BY <1>inv, <2>3 DEF ConnectTypeOK, Close, CloseOf
  <2>6. server \in {"accept", "close"} => threaded_server_fd \in Fds
    BY <1>inv DEF SocketInv, ConnectTypeOK
  <2>7. open' = open \ {client_fd}
    BY DEF Close, CloseOf
  <2>. QED  BY <1>inv, <2>0, <2>1, <2>2, <2>4, <2>5, <2>6, <2>7 DEF SocketInv
<1>3. HandInv'
  BY <1>inv DEF ConnectTypeOK, HandInv
<1>4. MainInv'
  BY <1>inv DEF ConnectTypeOK, MainInv, HandInv, SocketInv, InUse, Listeners, None, Fds
<1>types. ports \in Nat /\ port \in [Fds -> 0..ports] /\ queue \subseteq 1..ports
          /\ open \subseteq Fds
  BY <1>inv, V6Over DEF ConnectTypeOK
<1>5. ConnectTypeOK'
  <2>1. port' \in [Fds -> 0..ports'] /\ queue' \subseteq 1..ports' /\ open' \subseteq Fds
    BY <1>inv, <1>types, V6CloseTypes DEF Close
  <2>2. target' \in 0..ports' /\ {server_fd', client_fd'} \subseteq {None}
    BY <1>same, <1>types
  <2>. QED  BY <1>inv, <1>same, <2>1, <2>2 DEF ConnectTypeOK
<1>. QED  BY <1>1, <1>2, <1>3, <1>4, <1>5 DEF ConnectInv

LEMMA V6Join ==
  ASSUME ConnectInv, Join
  PROVE  ConnectInv'
<1> USE V6Sizes DEF Join, Joined, loopVars, sharedVars, netVars, localVars, Alive
<1>inv. ConnectTypeOK /\ SocketInv /\ HandInv /\ MainInv /\ PortsInv
  BY DEF ConnectInv
<1>adv. /\ type' \in 1..(Len(Types) + 1) /\ i' \in 0..(Outer - 1) /\ j' \in 0..(Connects - 1)
        /\ ConnectsOver' = ConnectsOver + 1 /\ ConnectsOver \in Nat
        /\ (type' > Len(Types) => i' = 0 /\ j' = 0)
        /\ (j # Connects - 1 => type' = type)
  BY <1>inv, V6Advance, V6Over DEF ConnectTypeOK, PortsInv
<1>1. PortsInv'
  BY <1>inv, <1>adv DEF ConnectTypeOK, PortsInv, Begun, HandInv
<1>2. SocketInv'
  BY <1>inv, <1>adv DEF ConnectTypeOK, SocketInv, HandInv, MainInv, InUse, Listeners, None, Fds
<1>3. HandInv'
  BY <1>inv, <1>adv DEF ConnectTypeOK, HandInv
<1>4. MainInv'
  BY <1>inv, <1>adv DEF ConnectTypeOK, MainInv, HandInv, SocketInv, InUse, Listeners, None, Fds
<1>5. ConnectTypeOK'
  BY <1>inv, <1>adv DEF ConnectTypeOK
<1>. QED  BY <1>1, <1>2, <1>3, <1>4, <1>5 DEF ConnectInv

LEMMA V6Exit ==
  ASSUME ConnectInv, Exit
  PROVE  ConnectInv'
<1> USE V6Sizes DEF Exit, loopVars, sharedVars, netVars, localVars, Alive
<1>inv. ConnectTypeOK /\ SocketInv /\ HandInv /\ MainInv /\ PortsInv
  BY DEF ConnectInv
<1>1. PortsInv'
  BY <1>inv DEF ConnectTypeOK, PortsInv, ConnectsOver, Begun, HandInv
<1>2. SocketInv'
  BY <1>inv DEF ConnectTypeOK, SocketInv, HandInv, MainInv, InUse, Listeners, None, Fds
<1>3. HandInv'
  BY <1>inv DEF ConnectTypeOK, HandInv
<1>4. MainInv'
  BY <1>inv DEF ConnectTypeOK, MainInv, HandInv, SocketInv, InUse, Listeners, None, Fds
<1>5. ConnectTypeOK'
  BY <1>inv DEF ConnectTypeOK
<1>. QED  BY <1>1, <1>2, <1>3, <1>4, <1>5 DEF ConnectInv

LEMMA V6Listen ==
  ASSUME ConnectInv, Listen
  PROVE  ConnectInv'
<1> USE V6Sizes DEF Listen, Serve, loopVars, sharedVars, netVars, localVars, Alive
<1>inv. ConnectTypeOK /\ SocketInv /\ HandInv /\ MainInv /\ PortsInv
  BY DEF ConnectInv
<1>new. NewFd \in Fds /\ NewFd \notin open
  <2>1. main # "close" /\ main # "loop"
    BY <1>inv DEF HandInv
  <2>2. client_fd = None /\ accept_fd = None /\ open = InUse
    BY <1>inv, <2>1 DEF SocketInv
  <2>3. open = {}
    BY <2>1, <2>2 DEF InUse, Listeners
  <2>4. open \subseteq Fds /\ open # Fds
    BY <2>3 DEF Fds
  <2>. QED  BY <2>4, V6NewFd
<1>1. PortsInv'
  BY <1>inv, <1>new DEF ConnectTypeOK, PortsInv, ConnectsOver, Begun, HandInv
<1>2. SocketInv'
  BY <1>inv, <1>new DEF ConnectTypeOK, SocketInv, HandInv, MainInv, InUse, Listeners, None, Fds
<1>3. HandInv'
  BY <1>inv, <1>new DEF ConnectTypeOK, HandInv
<1>4. MainInv'
  BY <1>inv, <1>new DEF ConnectTypeOK, MainInv, HandInv, SocketInv, InUse, Listeners, None, Fds
<1>room. ports + 1 <= Len(Types) * Outer * Connects /\ ports \in Nat
  <2>1. ~Begun /\ type <= Len(Types)
    BY <1>inv DEF Begun, HandInv, PortsInv, ConnectTypeOK
  <2>2. ConnectsOver \in Nat /\ ConnectsOver + 1 <= Len(Types) * Outer * Connects /\ ports \in Nat
    BY <1>inv, <2>1, V6Over
  <2>3. ports <= ConnectsOver
    BY <1>inv, <2>1, <2>2 DEF PortsInv
  <2>. QED  BY <2>2, <2>3
<1>5. ConnectTypeOK'
  <2>1. ports' \in 0..(Len(Types) * Outer * Connects) /\ ports' = ports + 1
    BY <1>room
  <2>2. port' \in [Fds -> 0..ports'] /\ target' \in 0..ports' /\ queue' \subseteq 1..ports'
    <3>1. port \in [Fds -> 0..ports] /\ target \in 0..ports /\ queue \subseteq 1..ports
      BY <1>inv DEF ConnectTypeOK
    <3>2. 0..ports \subseteq 0..(ports + 1) /\ 1..ports \subseteq 1..(ports + 1)
          /\ ports + 1 \in 0..(ports + 1)
      BY <1>room
    <3>. QED  BY <1>new, <2>1, <3>1, <3>2
  <2>. QED  BY <1>inv, <1>new, <2>1, <2>2 DEF ConnectTypeOK
<1>. QED  BY <1>1, <1>2, <1>3, <1>4, <1>5 DEF ConnectInv

LEMMA V6Tell ==
  ASSUME ConnectInv, Tell
  PROVE  ConnectInv'
<1> USE V6Sizes DEF Tell, Signal, loopVars, sharedVars, netVars, localVars, Alive
<1>inv. ConnectTypeOK /\ SocketInv /\ HandInv /\ MainInv /\ PortsInv
  BY DEF ConnectInv
<1>1. PortsInv'
  BY <1>inv DEF ConnectTypeOK, PortsInv, ConnectsOver, Begun, HandInv
<1>2. SocketInv'
  BY <1>inv DEF ConnectTypeOK, SocketInv, HandInv, MainInv, InUse, Listeners, None, Fds
<1>3. HandInv'
  BY <1>inv DEF ConnectTypeOK, HandInv
<1>4. MainInv'
  BY <1>inv DEF ConnectTypeOK, MainInv, HandInv, SocketInv, InUse, Listeners, None, Fds
<1>5. ConnectTypeOK'
  BY <1>inv DEF ConnectTypeOK
<1>. QED  BY <1>1, <1>2, <1>3, <1>4, <1>5 DEF ConnectInv

LEMMA V6Accept ==
  ASSUME ConnectInv, Accept
  PROVE  ConnectInv'
<1> USE V6Sizes DEF Accept, loopVars, sharedVars, netVars, localVars, Alive
<1>inv. ConnectTypeOK /\ SocketInv /\ HandInv /\ MainInv /\ PortsInv
  BY DEF ConnectInv
<1>0. main \in {"close", "join"} /\ threaded_server_fd \in Fds /\ accept_fd = None
  BY <1>inv DEF SocketInv, ConnectTypeOK
<1>00. Listeners = {threaded_server_fd} /\ open \subseteq {threaded_server_fd, client_fd}
  BY <1>inv, <1>0 DEF SocketInv, Listeners, InUse
<1>new. NewFd \in Fds /\ NewFd \notin open
  <2>1. open # Fds
    BY <1>00, V6Spare
  <2>. QED  BY <1>inv, <2>1, V6NewFd DEF ConnectTypeOK
<1>1. PortsInv'
  BY <1>inv, <1>0 DEF PortsInv, Begun, ConnectsOver
<1>2. SocketInv'
  BY <1>inv, <1>new DEF ConnectTypeOK, SocketInv, HandInv, MainInv, InUse, Listeners, None, Fds
<1>3. HandInv'
  BY <1>inv, <1>0 DEF HandInv
<1>4. MainInv'
  BY <1>inv, <1>new DEF ConnectTypeOK, MainInv, HandInv, SocketInv, InUse, Listeners, None, Fds
<1>5. ConnectTypeOK'
  BY <1>inv, <1>new DEF ConnectTypeOK
<1>. QED  BY <1>1, <1>2, <1>3, <1>4, <1>5 DEF ConnectInv

LEMMA V6CloseServer ==
  ASSUME ConnectInv, CloseServer
  PROVE  ConnectInv'
<1> USE V6Sizes DEF CloseServer, ServerCloses, loopVars, sharedVars, netVars, localVars, Alive
<1>inv. ConnectTypeOK /\ SocketInv /\ HandInv /\ MainInv /\ PortsInv
  BY DEF ConnectInv
<1>same. ports' = ports
  BY DEF Close, CloseOf
<1>1. PortsInv'
  BY <1>inv, <1>same DEF ConnectTypeOK, PortsInv, ConnectsOver, Begun, HandInv
<1>2. SocketInv'
  <2>0. /\ threaded_server_fd \in Fds /\ accept_fd # None /\ main \in {"close", "join"}
        /\ queue = {} /\ (client_fd # accept_fd \/ client_fd = None)
    BY <1>inv DEF SocketInv, HandInv, ConnectTypeOK
  <2>1. Listeners = {threaded_server_fd} /\ Listeners' = {}
    BY <2>0 DEF Listeners
  <2>2. InUse' = InUse \ {threaded_server_fd, accept_fd}
    BY <1>inv, <2>0, <2>1 DEF InUse, SocketInv
  <2>3. open' = open \ {threaded_server_fd, accept_fd} /\ queue' \subseteq queue
    BY DEF Close, CloseOf
  <2>4. \A f \in Fds : port'[f] = 0
    BY <1>inv, <2>1 DEF SocketInv, Close, CloseOf
  <2>. QED  BY <1>inv, <2>0, <2>1, <2>2, <2>3, <2>4 DEF SocketInv
<1>3. HandInv'
  BY <1>inv DEF ConnectTypeOK, HandInv
<1>4. MainInv'
  BY <1>inv DEF ConnectTypeOK, MainInv, HandInv, SocketInv, InUse, Listeners, None, Fds
<1>types. ports \in Nat /\ port \in [Fds -> 0..ports] /\ queue \subseteq 1..ports
          /\ open \subseteq Fds
  BY <1>inv, V6Over DEF ConnectTypeOK
<1>5. ConnectTypeOK'
  <2>1. port' \in [Fds -> 0..ports'] /\ queue' \subseteq 1..ports' /\ open' \subseteq Fds
    BY <1>inv, <1>types, V6CloseTypes DEF Close
  <2>. QED  BY <1>inv, <1>same, <2>1 DEF ConnectTypeOK
<1>. QED  BY <1>1, <1>2, <1>3, <1>4, <1>5 DEF ConnectInv

LEMMA V6EndServer ==
  ASSUME ConnectInv, EndServer
  PROVE  ConnectInv'
<1> USE V6Sizes DEF EndServer, Reset, loopVars, sharedVars, netVars, localVars, Alive
<1>inv. ConnectTypeOK /\ SocketInv /\ HandInv /\ MainInv /\ PortsInv
  BY DEF ConnectInv
<1>1. PortsInv'
  BY <1>inv DEF ConnectTypeOK, PortsInv, ConnectsOver, Begun, HandInv
<1>2. SocketInv'
  BY <1>inv DEF ConnectTypeOK, SocketInv, HandInv, MainInv, InUse, Listeners, None, Fds
<1>3. HandInv'
  BY <1>inv DEF ConnectTypeOK, HandInv
<1>4. MainInv'
  BY <1>inv DEF ConnectTypeOK, MainInv, HandInv, SocketInv, InUse, Listeners, None, Fds
<1>5. ConnectTypeOK'
  BY <1>inv DEF ConnectTypeOK
<1>. QED  BY <1>1, <1>2, <1>3, <1>4, <1>5 DEF ConnectInv

LEMMA V6Fault ==
  ASSUME ConnectInv, Fault
  PROVE  ConnectInv'
<1> USE V6Sizes DEF Fault, loopVars, sharedVars, netVars, localVars, Alive
<1>inv. ConnectTypeOK /\ SocketInv /\ HandInv /\ MainInv /\ PortsInv
  BY DEF ConnectInv
<1>1. PortsInv'
  BY <1>inv DEF ConnectTypeOK, PortsInv, ConnectsOver, Begun, HandInv
<1>2. SocketInv'
  BY <1>inv DEF ConnectTypeOK, SocketInv, HandInv, MainInv, InUse, Listeners, None, Fds
<1>3. HandInv'
  BY <1>inv DEF ConnectTypeOK, HandInv
<1>4. MainInv'
  BY <1>inv DEF ConnectTypeOK, MainInv, HandInv, SocketInv, InUse, Listeners, None, Fds
<1>5. ConnectTypeOK'
  BY <1>inv DEF ConnectTypeOK
<1>. QED  BY <1>1, <1>2, <1>3, <1>4, <1>5 DEF ConnectInv

LEMMA V6Next ==
  ASSUME ConnectInv, [ConnectNext]_connectVars
  PROVE  ConnectInv'
<1>1. CASE UNCHANGED connectVars
  BY <1>1 DEF connectVars, loopVars, sharedVars, netVars, localVars, ConnectInv, ConnectTypeOK,
     SocketInv, HandInv, MainInv, PortsInv, ConnectsOver, Begun, InUse, Listeners, Alive
<1>2. CASE Main
  BY <1>2, V6CreateServer, V6ConnectAndAccept, V6CreateServerConnectAndAccept, V6StartThread,
     V6Lock, V6Wakeup, V6GetServerFD, V6GetSockName, V6Connect, V6CloseClient, V6Join,
     V6Exit DEF Main
<1>3. CASE Server
  BY <1>3, V6Listen, V6Tell, V6Accept, V6CloseServer, V6EndServer DEF Server
<1>. QED  BY <1>1, <1>2, <1>3, V6SpuriousWakeup, V6Fault DEF ConnectNext

LEMMA V6Invariant == ConnectSpec => []ConnectInv
<1>1. ConnectInit => ConnectInv
  BY V6Init
<1>2. ConnectInv /\ [ConnectNext]_connectVars => ConnectInv'
  BY V6Next
<1>. QED  BY <1>1, <1>2, PTL DEF ConnectSpec

\* The type invariant of ipv6connect, with the bound on the ports used.
THEOREM V6TypeCorrect == ConnectSpec => []ConnectTypeOK
<1>1. ConnectInv => ConnectTypeOK
  BY DEF ConnectInv
<1>. QED  BY <1>1, V6Invariant, PTL

\* The test exits with 1 only if a system call failed: the hand-over between
\* main and the server thread makes no call fail of itself.
THEOREM V6Failures == ConnectSpec => []FailureIsReal
<1>1. ConnectInv => FailureIsReal
  BY DEF ConnectInv, MainInv, FailureIsReal
<1>. QED  BY <1>1, V6Invariant, PTL

\* Between two connects no descriptor is open but that of the server of
\* ConnectAndAccept.
THEOREM V6Descriptors == ConnectSpec => []FdsConserved
<1>1. ASSUME ConnectInv, main = "loop"
      PROVE  open = (IF server_fd = None THEN {} ELSE {server_fd})
  <2>1. server \in {"none", "ended"} /\ client_fd = None /\ accept_fd = None /\ open = InUse
    BY <1>1 DEF ConnectInv, SocketInv, HandInv, Alive
  <2>. QED  BY <1>1, <2>1 DEF InUse, Listeners
<1>2. ConnectInv => FdsConserved
  BY <1>1 DEF FdsConserved
<1>. QED  BY <1>2, V6Invariant, PTL

-----------------------------------------------------------------------------
(***************************************************************************)
(* Hackbench: main opens the gate when it has read as many reports as      *)
(* there are workers, and no worker reports twice (GateInv).  The bytes on *)
(* their way to a receiver are counted as a set (FlowInv) that is part of  *)
(* a set of just the size the receiver waits for (Payload), so a sender    *)
(* that has bytes left has left them to a receiver that still wants them.  *)
(***************************************************************************)

WorkerPlaces == {"none", "ready", "poll", "run", "returned", "failed", "killed", "reaped"}

\* Byte b of sender s goes to Dest(s, b); the bytes written to a receiver so
\* far, and all that there are for it.
Dest(s, b) == ReceiverOf(s, (b \div DataSize) % NumFds)
Sent(r) == {x \in Senders \X Nat : x[2] < moved[x[1]] /\ Dest(x[1], x[2]) = r}
Payload(r) == {x \in Senders \X Nat : x[2] < Task(x[1]) /\ Dest(x[1], x[2]) = r}

Reported == {w \in Workers : state[w] \notin {"none", "ready"}}
Reaped == {w \in Workers : state[w] = "reaped"}

\* The gate: main has read or will find no more reports than workers have sent.
GateInv ==
  /\ mainpc = "create" => readypipe <= Cardinality(Reported)
  /\ mainpc = "create" => \A w \in Workers : w >= k => state[w] = "none"
  /\ mainpc = "collect" => k + readypipe <= Cardinality(Reported)
  /\ mainpc \in {"create", "collect"} => ~wakefds
  /\ wakefds => Reported = Workers
  /\ \A w \in Workers : state[w] = "run" \/ moved[w] > 0 => wakefds

\* main counts the workers it has reaped.
ReapInv ==
  /\ mainpc \in {"create", "collect"} => Reaped = {}
  /\ mainpc \in {"reap", "done"} => k = Cardinality(Reaped)
  /\ mainpc = "done" => k = total_children

\* No byte is lost: what was written to a receiver it has read, or it is in
\* the pipe.
FlowInv ==
  \A r \in Receivers : IsFiniteSet(Sent(r)) /\ Cardinality(Sent(r)) = moved[r] + pipe[r]

\* Without a failing call nobody ends before the work is done.
CleanInv ==
  faults = 0 => \A w \in Workers : /\ state[w] \notin {"failed", "killed"}
                                   /\ state[w] \in {"returned", "reaped"} => moved[w] = Task(w)

HackInv == HackTypeOK /\ moved \in [Workers -> Nat] /\ GateInv /\ ReapInv /\ FlowInv /\ CleanInv

-----------------------------------------------------------------------------
(* Division, and the numbering of the workers. *)

LEMMA Euclid ==
  ASSUME NEW a \in Nat, NEW d \in Nat, d > 0
  PROVE  /\ a \div d \in Nat /\ a % d \in 0..(d - 1)
         /\ a = d * (a \div d) + (a % d)
<1>1. a \div d \in Int /\ a % d \in 0..(d - 1) /\ a = d * (a \div d) + (a % d)
  OBVIOUS
<1>2. ASSUME a \div d < 0 PROVE FALSE
  <2>1. a \div d <= -1
    BY <1>1, <1>2
  <2>2. d * (a \div d) <= d * (-1)
    <3>1. (a \div d) * d <= (-1) * d
      BY <1>1, <2>1, TimesMonotone
    <3>. QED  BY <1>1, <3>1
  <2>. QED  BY <1>1, <2>2
<1>. QED  BY <1>1, <1>2

LEMMA EuclidOnce ==
  ASSUME NEW d \in Nat, NEW p \in Int, NEW q \in Int, NEW m \in 0..(d - 1), NEW n \in 0..(d - 1),
         d * p + m = d * q + n
  PROVE  p = q /\ m = n
<1>1. ASSUME NEW x \in Int, NEW y \in Int, NEW u \in 0..(d - 1), NEW v \in 0..(d - 1),
             d * x + u = d * y + v, x < y
      PROVE  FALSE
  <2>1. (x + 1) * d <= y * d
    BY <1>1, TimesMonotone
  <2>2. (x + 1) * d = d * x + d /\ y * d = d * y
    OBVIOUS
  <2>. QED  BY <1>1, <2>1, <2>2
<1>2. ~(p < q)
  BY <1>1
<1>3. ~(q < p)
  BY <1>1
<1>. QED  BY <1>2, <1>3

LEMMA HBSizes ==
  /\ NumGroups \in Nat /\ NumFds \in Nat /\ NumFds > 0 /\ 2 * NumFds \in Nat /\ Loops \in Nat
  /\ DataSize \in Nat /\ DataSize > 0 /\ Capacity \in Nat /\ ReadyCapacity \in Nat
  /\ MaxFaults \in Nat /\ total_children \in Nat
<1>1. NumGroups * NumFds \in Nat
  BY SizeAssumption
<1>. QED  BY <1>1, SizeAssumption DEF total_children

LEMMA HBWorkers ==
  IsFiniteSet(Workers) /\ Cardinality(Workers) = total_children
<1>1. total_children \in Nat
  BY HBSizes
<1>. QED  BY <1>1, FS_Interval DEF Workers

LEMMA HBPlace ==
  ASSUME NEW w \in Workers
  PROVE  /\ Group(w) \in Nat /\ Place(w) \in 0..(2 * NumFds - 1)
         /\ w = 2 * NumFds * Group(w) + Place(w)
         /\ w \in Receivers <=> Place(w) < NumFds
         /\ w \in Senders <=> ~(Place(w) < NumFds)
<1>1. w \in Nat
  BY HBSizes DEF Workers
<1>2. /\ Group(w) \in Nat /\ Place(w) \in 0..(2 * NumFds - 1)
      /\ w = 2 * NumFds * Group(w) + Place(w)
  BY <1>1, HBSizes, Euclid DEF Group, Place
<1>. QED  BY <1>2 DEF Receivers, Senders

LEMMA HBReceiverOf ==
  ASSUME NEW s \in Senders, NEW c \in 0..(NumFds - 1)
  PROVE  ReceiverOf(s, c) \in Receivers /\ ReceiverOf(s, c) = 2 * NumFds * Group(s) + c
<1> DEFINE r == ReceiverOf(s, c)
           g == Group(s)
<1>0. NumFds \in Nat /\ NumFds > 0 /\ 2 * NumFds \in Nat /\ total_children \in Nat /\ s \in Workers
  BY HBSizes DEF Senders
<1>1. g \in Nat /\ Place(s) >= NumFds /\ Place(s) \in Nat /\ s = 2 * NumFds * g + Place(s)
  BY <1>0, HBPlace
<1>2. r = 2 * NumFds * g + c /\ 2 * NumFds * g \in Nat
  BY <1>0, <1>1 DEF ReceiverOf
<1>3. r \in Workers
  BY <1>0, <1>1, <1>2 DEF Workers
<1>4. r = 2 * NumFds * Group(r) + Place(r) /\ Place(r) \in 0..(2 * NumFds - 1) /\ Group(r) \in Nat
  BY <1>3, HBPlace
<1> DEFINE d == 2 * NumFds
           h == Group(r)
           p == Place(r)
<1>5. /\ d \in Nat /\ c \in 0..(d - 1) /\ p \in 0..(d - 1) /\ g \in Int /\ h \in Int
      /\ d * h + p = d * g + c
  BY <1>0, <1>1, <1>2, <1>4
<1> HIDE DEF r, g, d, h, p
<1>6. p = c
  BY <1>5, EuclidOnce
<1>7. r \in Receivers
  BY <1>0, <1>3, <1>6, HBPlace DEF p
<1>. QED  BY <1>2, <1>7 DEF r, g

LEMMA HBDest ==
  ASSUME NEW s \in Senders, NEW b \in Nat
  PROVE  /\ Dest(s, b) \in Receivers
         /\ b \div DataSize \in Nat /\ (b \div DataSize) % NumFds \in 0..(NumFds - 1)
         /\ Dest(s, b) = 2 * NumFds * Group(s) + ((b \div DataSize) % NumFds)
BY HBSizes, HBReceiverOf, Euclid DEF Dest

-----------------------------------------------------------------------------
(* The bytes. *)

LEMMA HBTask ==
  ASSUME NEW w \in Workers
  PROVE  /\ Task(w) = DataSize * (NumFds * Loops) /\ Task(w) \in Nat
         /\ NumFds * Loops \in Nat /\ Task(w) = DataSize * Loops * NumFds
<1>0. NumFds \in Nat /\ Loops \in Nat /\ DataSize \in Nat
  BY HBSizes
<1>1. NumFds * Loops \in Nat /\ Loops * NumFds = NumFds * Loops
  BY <1>0
<1>2. Task(w) = DataSize * (NumFds * Loops)
  BY <1>1 DEF Task, num_packets
<1>3. DataSize * (NumFds * Loops) \in Nat
  BY <1>0, <1>1
<1>4. DataSize * Loops * NumFds = DataSize * (NumFds * Loops)
  BY <1>0
<1>. QED  BY <1>1, <1>2, <1>3, <1>4

\* The senders write no more to a receiver than it waits for: a byte for it
\* is told by its sender's place in the group, the loop and the offset.
LEMMA HBPayload ==
  ASSUME NEW r \in Receivers
  PROVE  IsFiniteSet(Payload(r)) /\ Cardinality(Payload(r)) <= DataSize * (NumFds * Loops)
<1> DEFINE Ends == 0..(NumFds - 1)
           Msgs == 0..(Loops - 1)
           Offs == 0..(DataSize - 1)
           Slots == Ends \X (Msgs \X Offs)
           msg(x) == x[2] \div DataSize
           f == [x \in Payload(r) |->
                   <<Place(x[1]) - NumFds, <<msg(x) \div NumFds, x[2] % DataSize>>>>]
<1>0. /\ NumFds \in Nat /\ NumFds > 0 /\ Loops \in Nat /\ DataSize \in Nat /\ DataSize > 0
      /\ NumFds * Loops \in Nat
  BY HBSizes
<1>1. IsFiniteSet(Slots) /\ Cardinality(Slots) = NumFds * (Loops * DataSize)
  <2>1. /\ IsFiniteSet(Ends) /\ Cardinality(Ends) = NumFds
        /\ IsFiniteSet(Msgs) /\ Cardinality(Msgs) = Loops
        /\ IsFiniteSet(Offs) /\ Cardinality(Offs) = DataSize
    <3>1. /\ IsFiniteSet(Ends) /\ Cardinality(Ends) = NumFds
      BY <1>0, FS_Interval
    <3>2. /\ IsFiniteSet(Msgs) /\ Cardinality(Msgs) = Loops
      BY <1>0, FS_Interval
    <3>3. /\ IsFiniteSet(Offs) /\ Cardinality(Offs) = DataSize
      BY <1>0, FS_Interval
    <3>. QED  BY <3>1, <3>2, <3>3
  <2> HIDE DEF Ends, Msgs, Offs
  <2>2. IsFiniteSet(Msgs \X Offs) /\ Cardinality(Msgs \X Offs) = Loops * DataSize
    BY <2>1, FS_Product
  <2>3. /\ IsFiniteSet(Ends \X (Msgs \X Offs))
        /\ Cardinality(Ends \X (Msgs \X Offs)) = Cardinality(Ends) * Cardinality(Msgs \X Offs)
    BY <2>1, <2>2, FS_Product
  <2>. QED  BY <2>1, <2>2, <2>3
<1>2. ASSUME NEW x \in Payload(r)
      PROVE  /\ x[1] \in Senders /\ x[1] \in Workers /\ x[2] \in Nat /\ x = <<x[1], x[2]>>
             /\ x[2] < DataSize * (NumFds * Loops) /\ Dest(x[1], x[2]) = r
             /\ Group(x[1]) \in Nat /\ Place(x[1]) \in Nat /\ Place(x[1]) - NumFds \in Ends
             /\ x[1] = 2 * NumFds * Group(x[1]) + Place(x[1])
             /\ msg(x) \in Nat /\ x[2] % DataSize \in Offs
             /\ x[2] = DataSize * msg(x) + (x[2] % DataSize)
             /\ msg(x) \div NumFds \in Msgs /\ msg(x) % NumFds \in Ends
             /\ msg(x) = NumFds * (msg(x) \div NumFds) + (msg(x) % NumFds)
             /\ r = 2 * NumFds * Group(x[1]) + (msg(x) % NumFds)
  <2>1. /\ x[1] \in Senders /\ x[2] \in Nat /\ x = <<x[1], x[2]>>
        /\ x[2] < Task(x[1]) /\ Dest(x[1], x[2]) = r /\ x[1] \in Workers
    BY DEF Payload, Senders
  <2>2. x[2] < DataSize * (NumFds * Loops)
    BY <2>1, HBTask
  <2>3. /\ Group(x[1]) \in Nat /\ Place(x[1]) \in 0..(2 * NumFds - 1) /\ ~(Place(x[1]) < NumFds)
        /\ x[1] = 2 * NumFds * Group(x[1]) + Place(x[1])
    BY <2>1, HBPlace
  <2>4. /\ msg(x) \in Nat /\ x[2] % DataSize \in Offs
        /\ x[2] = DataSize * msg(x) + (x[2] % DataSize)
    BY <1>0, <2>1, Euclid
  <2>5. /\ msg(x) \div NumFds \in Nat /\ msg(x) % NumFds \in Ends
        /\ msg(x) = NumFds * (msg(x) \div NumFds) + (msg(x) % NumFds)
    BY <1>0, <2>4, Euclid
  <2>6. msg(x) < NumFds * Loops
    <3> SUFFICES ASSUME NumFds * Loops <= msg(x) PROVE FALSE
      BY <1>0, <2>4
    <3>1. (NumFds * Loops) * DataSize <= msg(x) * DataSize
      BY <1>0, <2>4, TimesMonotone
    <3>. QED  BY <1>0, <2>2, <2>4, <3>1
  <2>7. msg(x) \div NumFds < Loops
    <3> SUFFICES ASSUME Loops <= msg(x) \div NumFds PROVE FALSE
      BY <1>0, <2>5
    <3>1. Loops * NumFds <= (msg(x) \div NumFds) * NumFds
      BY <1>0, <2>5, TimesMonotone
    <3>. QED  BY <1>0, <2>5, <2>6, <3>1
  <2>8. r = 2 * NumFds * Group(x[1]) + (msg(x) % NumFds)
    BY <2>1, HBDest
  <2>9. Place(x[1]) - NumFds \in Ends
    BY <1>0, <2>3
  <2>10. msg(x) \div NumFds \in Msgs
    BY <1>0, <2>5, <2>7
  <2>. QED  BY <2>1, <2>2, <2>3, <2>4, <2>5, <2>8, <2>9, <2>10
<1>3. f \in [Payload(r) -> Slots]
  <2>1. \A x \in Payload(r) :
          <<Place(x[1]) - NumFds, <<msg(x) \div NumFds, x[2] % DataSize>>>> \in Slots
    BY <1>2
  <2>. QED  BY <2>1
<1>4. ASSUME NEW x \in Payload(r), NEW y \in Payload(r), f[x] = f[y] PROVE x = y
  <2> HIDE DEF msg
  <2>1. /\ Place(x[1]) - NumFds = Place(y[1]) - NumFds
        /\ msg(x) \div NumFds = msg(y) \div NumFds /\ x[2] % DataSize = y[2] % DataSize
    BY <1>4
  <2>2. Group(x[1]) = Group(y[1]) /\ msg(x) % NumFds = msg(y) % NumFds
    <3> DEFINE d == 2 * NumFds
               g == Group(x[1])
               h == Group(y[1])
               m == msg(x) % NumFds
               n == msg(y) % NumFds
    <3>1. /\ d \in Nat /\ m \in 0..(d - 1) /\ n \in 0..(d - 1) /\ g \in Int /\ h \in Int
          /\ d * g + m = d * h + n
      BY <1>0, <1>2
    <3> HIDE DEF d, g, h, m, n
    <3>2. g = h /\ m = n
      BY <3>1, EuclidOnce
    <3>. QED  BY <3>2 DEF g, h, m, n
  <2>3. Place(x[1]) = Place(y[1])
    <3>1. Place(x[1]) \in Nat /\ Place(y[1]) \in Nat
      BY <1>2
    <3>. QED  BY <1>0, <2>1, <3>1
  <2>4. x[1] = y[1]
    BY <1>2, <2>2, <2>3
  <2>5. msg(x) = msg(y)
    BY <1>2, <2>1, <2>2
  <2>6. x[2] = y[2]
    BY <1>2, <2>1, <2>5
  <2>. QED  BY <1>2, <2>4, <2>6
<1>5. f \in Injection(Payload(r), Slots)
  BY <1>3, <1>4 DEF Injection, IsInjective
<1>6. IsFiniteSet(Payload(r)) /\ Cardinality(Payload(r)) <= NumFds * (Loops * DataSize)
  BY <1>1, <1>5, FS_Injection
<1>7. NumFds * (Loops * DataSize) = DataSize * (NumFds * Loops)
  BY <1>0
<1>. QED  BY <1>6, <1>7

LEMMA HBSentIsPayload ==
  ASSUME HackTypeOK, moved \in [Workers -> Nat], NEW r
  PROVE  Sent(r) \subseteq Payload(r)
<1> SUFFICES ASSUME NEW x \in Sent(r) PROVE x \in Payload(r)
  OBVIOUS
<1>1. x \in Senders \X Nat /\ x[2] < moved[x[1]] /\ Dest(x[1], x[2]) = r /\ x[1] \in Workers
  BY DEF Sent, Senders
<1>2. moved[x[1]] \in Nat /\ moved[x[1]] <= Task(x[1]) /\ Task(x[1]) \in Nat /\ x[2] \in Nat
  BY <1>1, HBTask DEF HackTypeOK
<1>. QED  BY <1>1, <1>2 DEF Payload

\* A sender with bytes left has left them to a receiver that waits for them.
LEMMA HBFallsShort ==
  ASSUME HackTypeOK, moved \in [Workers -> Nat], FlowInv,
         NEW s \in Senders, moved[s] < Task(s)
  PROVE  Target(s) \in Receivers /\ moved[Target(s)] < Task(Target(s))
<1> DEFINE r == Target(s)
           b == moved[s]
<1>0. s \in Workers /\ b \in Nat /\ r = Dest(s, b)
  BY DEF Senders, Target, Dest
<1>1. r \in Receivers /\ r \in Workers
  BY <1>0, HBDest DEF Receivers
<1>2. <<s, b>> \in Payload(r) /\ <<s, b>> \notin Sent(r)
  BY <1>0 DEF Payload, Sent
<1>3. Sent(r) \subseteq Payload(r)
  BY HBSentIsPayload
<1>4. /\ IsFiniteSet(Payload(r)) /\ Cardinality(Payload(r)) <= Task(r)
  BY <1>1, HBPayload, HBTask
<1>5. Cardinality(Sent(r)) < Cardinality(Payload(r)) /\ Cardinality(Payload(r)) \in Nat
  <2>1. Sent(r) # Payload(r)
    BY <1>2
  <2>2. Cardinality(Sent(r)) <= Cardinality(Payload(r))
        /\ Cardinality(Payload(r)) # Cardinality(Sent(r))
    BY <1>3, <1>4, <2>1, FS_Subset
  <2>3. IsFiniteSet(Sent(r))
    BY <1>1 DEF FlowInv
  <2>4. Cardinality(Sent(r)) \in Nat /\ Cardinality(Payload(r)) \in Nat
    BY <1>4, <2>3, FS_CardinalityType
  <2>. QED  BY <2>2, <2>4
<1>6. Cardinality(Sent(r)) = moved[r] + pipe[r] /\ pipe[r] \in Nat /\ moved[r] \in Nat
  BY <1>1, HBSizes DEF FlowInv, HackTypeOK
<1>7. Task(r) \in Nat
  BY <1>1, HBTask
<1>. QED  BY <1>1, <1>4, <1>5, <1>6, <1>7

-----------------------------------------------------------------------------
(* The steps. *)

LEMMA HBInit ==
  ASSUME HackInit
  PROVE  HackInv
<1> USE DEF HackInit
<1>0. /\ Capacity \in Nat /\ ReadyCapacity \in Nat /\ MaxFaults \in Nat /\ total_children \in Nat
  BY HBSizes
<1>1. HackTypeOK /\ moved \in [Workers -> Nat]
  <2>1. \A w \in Workers : moved[w] \in 0..Task(w)
    BY HBTask
  <2>2. pipe \in [Receivers -> 0..Capacity]
    BY <1>0
  <2>3. state \in [Workers -> WorkerPlaces] /\ moved \in [Workers -> Nat]
    BY DEF WorkerPlaces
  <2>4. k \in 0..total_children /\ readypipe \in 0..ReadyCapacity /\ faults \in 0..MaxFaults
    BY <1>0
  <2>. QED  BY <2>1, <2>2, <2>3, <2>4 DEF HackTypeOK, WorkerPlaces
<1>2. Reported = {} /\ Reaped = {}
  BY DEF Reported, Reaped
<1>3. GateInv
  BY <1>2, FS_EmptySet DEF GateInv
<1>4. ReapInv
  BY <1>2 DEF ReapInv
<1>5. FlowInv
  <2> SUFFICES ASSUME NEW r \in Receivers
               PROVE  IsFiniteSet(Sent(r)) /\ Cardinality(Sent(r)) = moved[r] + pipe[r]
    BY DEF FlowInv
  <2>1. Sent(r) = {}
    BY DEF Sent, Senders
  <2>2. moved[r] = 0 /\ pipe[r] = 0
    BY DEF Receivers
  <2>. QED  BY <2>1, <2>2, FS_EmptySet
<1>6. CleanInv
  BY DEF CleanInv
<1>. QED  BY <1>1, <1>3, <1>4, <1>5, <1>6 DEF HackInv

\* Finite sets of workers.
LEMMA HBCounts ==
  ASSUME NEW S, S \subseteq Workers
  PROVE  /\ IsFiniteSet(S) /\ Cardinality(S) \in Nat /\ Cardinality(S) <= total_children
         /\ Cardinality(S) = total_children => S = Workers
         /\ \A w \in Workers \ S : Cardinality(S \cup {w}) = Cardinality(S) + 1
<1>1. /\ IsFiniteSet(Workers) /\ Cardinality(Workers) = total_children
  BY HBWorkers
<1>2. IsFiniteSet(S) /\ Cardinality(S) <= total_children
  BY <1>1, FS_Subset
<1>3. Cardinality(S) = total_children => S = Workers
  BY <1>1, FS_Subset
<1>4. \A w \in Workers \ S : Cardinality(S \cup {w}) = Cardinality(S) + 1
  BY <1>2, FS_AddElement
<1>. QED  BY <1>2, <1>3, <1>4, FS_CardinalityType

\* A step of worker w that is not its last report to main.
LEMMA HBWorkerMoves ==
  ASSUME HackTypeOK, GateInv, ReapInv,
         NEW w \in Workers, state[w] \in {"ready", "poll", "run"},
         NEW to \in {"poll", "run", "returned", "failed", "killed"},
         state' = [state EXCEPT ![w] = to], to = "run" => wakefds,
         mainpc' \in {mainpc, "exit"}, UNCHANGED <<k, wakefds>>,
         \/ readypipe' = readypipe
         \/ state[w] = "ready" /\ readypipe' = readypipe + 1,
         \A v \in Workers : moved'[v] > 0 => moved[v] > 0 \/ wakefds
  PROVE  GateInv' /\ ReapInv'
<1>0. /\ state \in [Workers -> WorkerPlaces] /\ k \in Nat /\ readypipe \in Nat
  BY HBSizes DEF HackTypeOK, WorkerPlaces
<1>1. state'[w] = to /\ \A v \in Workers \ {w} : state'[v] = state[v]
  BY <1>0
<1>2. Reported' = Reported \cup {w} /\ Reaped' = Reaped
  BY <1>1 DEF Reported, Reaped
<1>3. /\ Cardinality(Reported) \in Nat /\ Cardinality(Reported') \in Nat
      /\ Cardinality(Reported) <= Cardinality(Reported')
      /\ w \notin Reported => Cardinality(Reported') = Cardinality(Reported) + 1
  <2>1. Reported \subseteq Workers /\ Reported' \subseteq Workers
    BY DEF Reported
  <2>2. Cardinality(Reported) \in Nat /\ Cardinality(Reported') \in Nat
    BY <2>1, HBCounts
  <2>3. w \notin Reported => Cardinality(Reported') = Cardinality(Reported) + 1
    BY <1>2, <2>1, HBCounts
  <2>4. w \in Reported => Reported' = Reported
    BY <1>2
  <2>. QED  BY <2>2, <2>3, <2>4
<1>4. readypipe' - readypipe <= Cardinality(Reported') - Cardinality(Reported) /\ readypipe' \in Nat
  <2>1. CASE readypipe' = readypipe
    BY <1>0, <1>3, <2>1
  <2>2. CASE state[w] = "ready" /\ readypipe' = readypipe + 1
    <3>1. w \notin Reported
      BY <2>2 DEF Reported
    <3>. QED  BY <1>0, <1>3, <2>2, <3>1
  <2>. QED  BY <2>1, <2>2
<1>5. mainpc' = "create" => readypipe' <= Cardinality(Reported')
  BY <1>0, <1>3, <1>4 DEF GateInv
<1>6. mainpc' = "create" => \A v \in Workers : v >= k' => state'[v] = "none"
  BY <1>1 DEF GateInv
<1>7. mainpc' = "collect" => k' + readypipe' <= Cardinality(Reported')
  BY <1>0, <1>3, <1>4 DEF GateInv
<1>8. mainpc' \in {"create", "collect"} => ~wakefds'
  BY DEF GateInv
<1>9. wakefds' => Reported' = Workers
  BY <1>2 DEF GateInv
<1>10. \A v \in Workers : state'[v] = "run" \/ moved'[v] > 0 => wakefds'
  BY <1>1 DEF GateInv
<1>11. GateInv'
  BY <1>5, <1>6, <1>7, <1>8, <1>9, <1>10 DEF GateInv
<1>12. ReapInv'
  BY <1>2 DEF ReapInv
<1>. QED  BY <1>11, <1>12

LEMMA HBFlowKept ==
  ASSUME FlowInv, UNCHANGED <<moved, pipe>>
  PROVE  FlowInv'
BY DEF FlowInv, Sent

LEMMA HBCreateWorker ==
  ASSUME HackInv, CreateWorker
  PROVE  HackInv'
<1> USE DEF CreateWorker
<1>inv. /\ HackTypeOK /\ GateInv /\ ReapInv /\ FlowInv /\ CleanInv /\ moved \in [Workers -> Nat]
        /\ state \in [Workers -> WorkerPlaces] /\ k \in Nat /\ total_children \in Nat
  BY HBSizes DEF HackInv, HackTypeOK, WorkerPlaces
<1>1. k \in Workers /\ state[k] = "none"
  BY <1>inv DEF Workers, GateInv
<1>2. state'[k] = "ready" /\ \A v \in Workers \ {k} : state'[v] = state[v]
  BY <1>inv, <1>1
<1>3. Reported' = Reported /\ Reaped' = Reaped
  BY <1>1, <1>2 DEF Reported, Reaped
<1>4. HackTypeOK'
  <2>1. state' \in [Workers -> WorkerPlaces]
    BY <1>inv DEF WorkerPlaces
  <2>2. k' \in 0..total_children
    BY <1>inv
  <2>. QED  BY <1>inv, <2>1, <2>2 DEF HackTypeOK, WorkerPlaces, Task
<1>5. GateInv'
  <2>1. \A w \in Workers : w >= k' => state'[w] = "none"
    <3> SUFFICES ASSUME NEW w \in Workers, w >= k + 1 PROVE state'[w] = "none"
      OBVIOUS
    <3>1. w \in Int /\ w # k /\ w >= k
      BY <1>inv DEF Workers
    <3>. QED  BY <1>inv, <1>2, <3>1 DEF GateInv
  <2>2. \A w \in Workers : state'[w] = "run" \/ moved'[w] > 0 => wakefds'
    BY <1>inv, <1>2 DEF GateInv
  <2>. QED  BY <1>inv, <1>3, <2>1, <2>2 DEF GateInv
<1>6. ReapInv'
  BY <1>inv, <1>3 DEF ReapInv
<1>7. FlowInv'
  BY <1>inv, HBFlowKept
<1>8. CleanInv'
  BY <1>inv, <1>2 DEF CleanInv, Task
<1>. QED  BY <1>inv, <1>4, <1>5, <1>6, <1>7, <1>8 DEF HackInv

\* The steps of main that leave the workers alone.
LEMMA HBMainSteps ==
  ASSUME HackInv,
         AllCreated \/ ReadReady \/ Wake \/ PrintTime \/ MainBarfs
  PROVE  HackInv'
<1> USE DEF AllCreated, ReadReady, Wake, AllReady, PrintTime, MainBarfs
<1>inv. /\ HackTypeOK /\ GateInv /\ ReapInv /\ FlowInv /\ CleanInv /\ moved \in [Workers -> Nat]
        /\ k \in Nat /\ total_children \in Nat /\ readypipe \in Nat /\ MaxFaults \in Nat
        /\ faults \in Nat /\ ReadyCapacity \in Nat
  BY HBSizes DEF HackInv, HackTypeOK
<1>0. UNCHANGED <<process_mode, state, moved, pipe>>
  OBVIOUS
<1>1. Reported' = Reported /\ Reaped' = Reaped
  BY <1>0 DEF Reported, Reaped
<1>2. Cardinality(Reported) \in Nat /\ Cardinality(Reported) <= total_children
      /\ (Cardinality(Reported) = total_children => Reported = Workers)
  <2>1. Reported \subseteq Workers
    BY DEF Reported
  <2>. QED  BY <2>1, HBCounts
<1>3. HackTypeOK'
  <2>1. k' \in 0..total_children
    BY <1>inv DEF HackTypeOK
  <2>2. readypipe' \in 0..ReadyCapacity
    BY <1>inv DEF HackTypeOK
  <2>3. faults' \in 0..MaxFaults
    BY <1>inv DEF HackTypeOK
  <2>4. wakefds' \in BOOLEAN /\ mainpc' \in {"create", "collect", "reap", "done", "exit"}
    BY <1>inv DEF HackTypeOK
  <2>. QED  BY <1>inv, <1>0, <2>1, <2>2, <2>3, <2>4 DEF HackTypeOK, Task
<1>4. GateInv'
  <2>1. CASE AllCreated \/ ReadReady
    BY <1>inv, <1>0, <1>1, <1>2, <2>1 DEF GateInv
  <2>2. CASE Wake
    <3>1. Reported = Workers
      BY <1>inv, <1>2, <2>2 DEF GateInv
    <3>. QED  BY <1>1, <2>2, <3>1 DEF GateInv
  <2>3. CASE PrintTime \/ MainBarfs
    BY <1>inv, <1>0, <1>1, <2>3 DEF GateInv
  <2>. QED  BY <2>1, <2>2, <2>3
<1>5. ReapInv'
  <2>1. CASE Wake
    BY <1>inv, <1>1, <2>1, FS_EmptySet DEF ReapInv
  <2>2. CASE ~Wake
    BY <1>inv, <1>1, <2>2 DEF ReapInv
  <2>. QED  BY <2>1, <2>2
<1>6. FlowInv'
  BY <1>inv, <1>0, HBFlowKept
<1>7. CleanInv'
  BY <1>inv, <1>0 DEF CleanInv, Task
<1>. QED  BY <1>inv, <1>0, <1>3, <1>4, <1>5, <1>6, <1>7 DEF HackInv

LEMMA HBReapWorker ==
  ASSUME HackInv, ReapWorker
  PROVE  HackInv'
<1>inv. /\ HackTypeOK /\ GateInv /\ ReapInv /\ FlowInv /\ CleanInv /\ moved \in [Workers -> Nat]
        /\ state \in [Workers -> WorkerPlaces] /\ k \in Nat /\ total_children \in Nat
  BY HBSizes DEF HackInv, HackTypeOK, WorkerPlaces
<1>0. PICK w \in Workers : /\ Ended(w) /\ state' = [state EXCEPT ![w] = "reaped"]
                           /\ mainpc' \in {mainpc, "exit"}
  BY DEF ReapWorker
<1>step. /\ mainpc = "reap" /\ k < total_children /\ k' = k + 1
         /\ UNCHANGED <<process_mode, readypipe, wakefds, moved, pipe, faults>>
  BY DEF ReapWorker
<1>1. state'[w] = "reaped" /\ \A v \in Workers \ {w} : state'[v] = state[v]
  BY <1>inv, <1>0
<1>2. Reported' = Reported \cup {w} /\ Reaped' = Reaped \cup {w} /\ w \notin Reaped
  BY <1>0, <1>1 DEF Reported, Reaped, Ended
<1>3. Cardinality(Reaped') = Cardinality(Reaped) + 1
  <2>1. Reaped \subseteq Workers
    BY DEF Reaped
  <2>. QED  BY <1>2, <2>1, HBCounts
<1>4. HackTypeOK'
  <2>1. state' \in [Workers -> WorkerPlaces] /\ k' \in 0..total_children
    BY <1>inv, <1>0, <1>step DEF WorkerPlaces
  <2>. QED  BY <1>inv, <1>0, <1>step, <2>1 DEF HackTypeOK, WorkerPlaces, Task
<1>5. GateInv'
  BY <1>inv, <1>0, <1>step, <1>1, <1>2 DEF GateInv
<1>6. ReapInv'
  BY <1>inv, <1>0, <1>step, <1>3 DEF ReapInv
<1>7. FlowInv'
  BY <1>inv, <1>step, HBFlowKept
<1>8. CleanInv'
  <2> SUFFICES ASSUME faults = 0, NEW v \in Workers
               PROVE  /\ state'[v] \notin {"failed", "killed"}
                      /\ state'[v] \in {"returned", "reaped"} => moved[v] = Task(v)
    BY <1>step DEF CleanInv, Task
  <2>1. CASE v = w
    BY <1>inv, <1>0, <1>1, <2>1 DEF CleanInv, Ended
  <2>2. CASE v # w
    BY <1>inv, <1>1, <2>2 DEF CleanInv
  <2>. QED  BY <2>1, <2>2
<1>. QED  BY <1>inv, <1>step, <1>4, <1>5, <1>6, <1>7, <1>8 DEF HackInv

\* The steps of a worker that move no bytes.
LEMMA HBWorkerSteps ==
  ASSUME HackInv, NEW w \in Workers,
         \/ SayReady(w) \/ SeeWake(w) \/ Return(w) \/ WorkerBarfs(w)
         \/ w \in Senders /\ WriteBroken(w)
  PROVE  HackInv'
<1>inv. /\ HackTypeOK /\ GateInv /\ ReapInv /\ FlowInv /\ CleanInv /\ moved \in [Workers -> Nat]
        /\ state \in [Workers -> WorkerPlaces] /\ readypipe \in Nat /\ faults \in Nat
        /\ MaxFaults \in Nat /\ ReadyCapacity \in Nat
  BY HBSizes DEF HackInv, HackTypeOK, WorkerPlaces
<1>0. PICK to \in {"poll", "run", "returned", "failed", "killed"} :
        /\ state' = [state EXCEPT ![w] = to] /\ state[w] \in {"ready", "poll", "run"}
        /\ to = "run" => wakefds
        /\ to = "returned" => moved[w] = Task(w)
        /\ to \in {"failed", "killed"} => faults' # 0
  <2>1. CASE SayReady(w)
    BY <2>1 DEF SayReady, WorkerGoto
  <2>2. CASE SeeWake(w)
    BY <2>2 DEF SeeWake, WorkerGoto
  <2>3. CASE Return(w)
    BY <2>3 DEF Return, WorkerGoto
  <2>4. CASE WorkerBarfs(w)
    <3>1. faults' # 0
      BY <1>inv, <2>4 DEF WorkerBarfs
    <3>. QED  BY <2>4, <3>1 DEF WorkerBarfs, WorkerGoto
  <2>5. CASE w \in Senders /\ WriteBroken(w)
    <3>1. Target(w) \in Receivers /\ moved[Target(w)] < Task(Target(w))
      BY <1>inv, <2>5, HBFallsShort DEF WriteBroken
    <3>2. Target(w) \in Workers /\ moved[Target(w)] \in Nat /\ Task(Target(w)) \in Nat
      BY <1>inv, <3>1, HBTask DEF Receivers
    <3>3. state[Target(w)] \in {"returned", "failed", "killed", "reaped"}
      BY <2>5 DEF WriteBroken, Gone
    <3>4. faults # 0
      BY <1>inv, <3>1, <3>2, <3>3 DEF CleanInv
    <3>. QED  BY <2>5, <3>4 DEF WriteBroken, WorkerGoto
  <2>. QED  BY <2>1, <2>2, <2>3, <2>4, <2>5
<1>step. /\ UNCHANGED <<process_mode, k, wakefds, moved, pipe>> /\ mainpc' \in {mainpc, "exit"}
         /\ \/ readypipe' = readypipe
            \/ state[w] = "ready" /\ readypipe' = readypipe + 1
         /\ readypipe' \in 0..ReadyCapacity
         /\ faults' \in {faults, faults + 1} /\ faults' \in 0..MaxFaults
  <2>1. CASE SayReady(w)
    BY <1>inv, <2>1 DEF SayReady, WorkerGoto, HackTypeOK
  <2>2. CASE SeeWake(w) \/ Return(w) \/ WriteBroken(w)
    BY <1>inv, <2>2 DEF SeeWake, Return, WriteBroken, HackTypeOK
  <2>3. CASE WorkerBarfs(w)
    BY <1>inv, <2>3 DEF WorkerBarfs, HackTypeOK
  <2>. QED  BY <2>1, <2>2, <2>3
<1>1. state'[w] = to /\ \A v \in Workers \ {w} : state'[v] = state[v]
  BY <1>inv, <1>0
<1>2. HackTypeOK'
  <2>1. state' \in [Workers -> WorkerPlaces]
    BY <1>inv, <1>0 DEF WorkerPlaces
  <2>. QED  BY <1>inv, <1>step, <2>1 DEF HackTypeOK, WorkerPlaces, Task
<1>3. GateInv' /\ ReapInv'
  <2>1. \A v \in Workers : moved'[v] > 0 => moved[v] > 0 \/ wakefds
    BY <1>step
  <2>. QED  BY <1>inv, <1>0, <1>step, <2>1, HBWorkerMoves
<1>4. FlowInv'
  BY <1>inv, <1>step, HBFlowKept
<1>5. CleanInv'
  <2> SUFFICES ASSUME faults' = 0, NEW v \in Workers
               PROVE  /\ state'[v] \notin {"failed", "killed"}
                      /\ state'[v] \in {"returned", "reaped"} => moved[v] = Task(v)
    BY <1>step DEF CleanInv, Task
  <2>1. faults = 0
    BY <1>inv, <1>step
  <2>2. CASE v = w
    BY <1>0, <1>1, <2>2
  <2>3. CASE v # w
    BY <1>inv, <1>1, <2>1, <2>3 DEF CleanInv
  <2>. QED  BY <2>2, <2>3
<1>. QED  BY <1>inv, <1>step, <1>2, <1>3, <1>4, <1>5 DEF HackInv

\* A call that stays in its message stays in the work.
LEMMA HBMessage ==
  ASSUME NEW w \in Workers, NEW b \in Nat, NEW ret \in Nat,
         b < Task(w), (b % DataSize) + ret <= DataSize
  PROVE  b + ret <= Task(w)
<1> DEFINE n == NumFds * Loops
           q == b \div DataSize
           e == b % DataSize
<1>0. DataSize \in Nat /\ DataSize > 0
  BY HBSizes
<1>1. q \in Nat /\ e \in 0..(DataSize - 1) /\ b = DataSize * q + e
  BY <1>0, Euclid
<1>2. n \in Nat /\ Task(w) = DataSize * n /\ Task(w) \in Nat
  BY HBTask
<1> HIDE DEF n, q
<1>3. q < n
  <2> SUFFICES ASSUME n <= q PROVE FALSE
    BY <1>1, <1>2
  <2>1. n * DataSize <= q * DataSize
    BY <1>0, <1>1, <1>2, TimesMonotone
  <2>. QED  BY <1>0, <1>1, <1>2, <2>1
<1>4. (q + 1) * DataSize <= n * DataSize
  BY <1>0, <1>1, <1>2, <1>3, TimesMonotone
<1>5. (q + 1) * DataSize = DataSize * q + DataSize
  BY <1>0, <1>1
<1>. QED  BY <1>0, <1>1, <1>2, <1>4, <1>5

\* A sender writes: the new bytes are of one message, so all for one receiver.
LEMMA HBWrite ==
  ASSUME HackInv, NEW s \in Senders, Write(s)
  PROVE  HackInv'
<1> DEFINE t == Target(s)
           b == moved[s]
           q == b \div DataSize
           e == b % DataSize
<1>inv. /\ HackTypeOK /\ GateInv /\ ReapInv /\ FlowInv /\ CleanInv /\ moved \in [Workers -> Nat]
        /\ state \in [Workers -> WorkerPlaces] /\ DataSize \in Nat /\ DataSize > 0
        /\ Capacity \in Nat
        /\ pipe \in [Receivers -> 0..Capacity]
  BY HBSizes DEF HackInv, HackTypeOK, WorkerPlaces
<1>0. s \in Workers /\ s \notin Receivers /\ b \in Nat
  BY <1>inv DEF Senders
<1>pick. PICK ret \in 1..Left(s) : /\ pipe[t] + ret <= Capacity
                                   /\ moved' = [moved EXCEPT ![s] = @ + ret]
                                   /\ pipe' = [pipe EXCEPT ![t] = @ + ret]
  BY DEF Write
<1>step. /\ state[s] = "run" /\ state' = [state EXCEPT ![s] = "run"] /\ b < Task(s)
         /\ UNCHANGED <<process_mode, mainpc, k, readypipe, wakefds, faults>>
  BY DEF Write, WorkerGoto
<1>1. q \in Nat /\ e \in 0..(DataSize - 1) /\ b = DataSize * q + e
  BY <1>inv, <1>0, Euclid
<1>2. ret \in Nat /\ ret > 0 /\ e + ret <= DataSize
  BY <1>inv, <1>1 DEF Left
<1>3. t \in Receivers /\ t = Dest(s, b) /\ t \in Workers
  BY <1>0, HBDest DEF Target, Dest, Receivers
<1>4. b + ret <= Task(s) /\ Task(s) \in Nat
  BY <1>0, <1>2, <1>step, HBMessage, HBTask
<1>5. ASSUME NEW c \in b..(b + ret - 1) PROVE Dest(s, c) = t
  <2> DEFINE p == c \div DataSize
             m == c % DataSize
             n == e + (c - b)
  <2>0. c \in Nat /\ b <= c /\ c < b + ret
    BY <1>0, <1>2
  <2>1. p \in Nat /\ m \in 0..(DataSize - 1) /\ c = DataSize * p + m
    BY <1>inv, <2>0, Euclid
  <2>2. n \in 0..(DataSize - 1) /\ c = b + n - e
    <3>1. DataSize \in Nat /\ e \in 0..(DataSize - 1) /\ b \in Nat
      BY <1>inv, <1>0, <1>1
    <3> HIDE DEF b, e
    <3>. QED  BY <1>2, <2>0, <3>1
  <2>3. DataSize * p + m = DataSize * q + n
    <3>1. DataSize * q \in Int /\ DataSize * p \in Int
      BY <1>inv, <1>1, <2>1
    <3> HIDE DEF p, m, n, q, e, b
    <3>. QED  BY <1>0, <1>1, <2>0, <2>1, <2>2, <3>1
  <2> HIDE DEF p, m, n, q
  <2>4. p = q
    BY <1>inv, <1>1, <2>1, <2>2, <2>3, EuclidOnce
  <2>. QED  BY <1>3, <2>4 DEF Dest, p, q
<1> DEFINE New == {s} \X (b..(b + ret - 1))
<1>6. IsFiniteSet(New) /\ Cardinality(New) = ret
  <2> DEFINE I == b..(b + ret - 1)
  <2>1. IsFiniteSet(I) /\ Cardinality(I) = ret
    <3> DEFINE hi == b + ret - 1
    <3>1. b \in Int /\ hi \in Int /\ ~(b > hi) /\ hi - b + 1 = ret
      BY <1>0, <1>2
    <3> HIDE DEF b, hi
    <3>2. IsFiniteSet(b..hi) /\ Cardinality(b..hi) = ret
      BY <3>1, FS_Interval
    <3>. QED  BY <3>2 DEF hi
  <2>2. IsFiniteSet({s}) /\ Cardinality({s}) = 1
    BY FS_Singleton
  <2> HIDE DEF I
  <2>3. IsFiniteSet({s} \X I) /\ Cardinality({s} \X I) = 1 * ret
    BY <2>1, <2>2, FS_Product
  <2>. QED  BY <1>2, <2>3 DEF I
<1>7. moved'[s] = b + ret /\ \A w \in Workers \ {s} : moved'[w] = moved[w]
  BY <1>inv, <1>0, <1>pick
<1>8. ASSUME NEW r \in Receivers, NEW x
      PROVE  x \in Sent(r)' <=> x \in Sent(r) \/ (r = t /\ x \in New)
  <2>1. x \in Sent(r)' <=> x \in Senders \X Nat /\ x[2] < moved'[x[1]] /\ Dest(x[1], x[2]) = r
    BY DEF Sent, Dest
  <2>2. x \in Sent(r) <=> x \in Senders \X Nat /\ x[2] < moved[x[1]] /\ Dest(x[1], x[2]) = r
    BY DEF Sent
  <2>3. x \in New <=> x \in Senders \X Nat /\ x[1] = s /\ x[2] >= b /\ x[2] < b + ret
    BY <1>0, <1>2
  <2>4. CASE x \in Senders \X Nat /\ x[1] = s
    <3>1. x[2] \in Nat /\ moved[x[1]] = b /\ moved'[x[1]] = b + ret
      BY <1>7, <2>4
    <3>2. x[2] >= b /\ x[2] < b + ret => Dest(x[1], x[2]) = t
      BY <1>0, <1>2, <1>5, <2>4, <3>1
    <3> HIDE DEF New, t, b
    <3>3. CASE x[2] < b
      BY <1>0, <1>2, <2>1, <2>2, <2>3, <2>4, <3>1, <3>3
    <3>4. CASE ~(x[2] < b)
      <4>1. x[2] >= b /\ x \notin Sent(r)
        BY <1>0, <2>2, <3>1, <3>4
      <4>. QED  BY <2>1, <2>3, <2>4, <3>1, <3>2, <4>1
    <3>. QED  BY <3>3, <3>4
  <2>5. CASE x \in Senders \X Nat /\ x[1] # s
    <3>1. x[1] \in Workers \ {s}
      BY <2>5 DEF Senders
    <3>2. moved'[x[1]] = moved[x[1]]
      BY <1>7, <3>1
    <3> HIDE DEF New
    <3>. QED  BY <2>1, <2>2, <2>3, <2>5, <3>2
  <2>6. CASE x \notin Senders \X Nat
    <3> HIDE DEF New
    <3>. QED  BY <2>1, <2>2, <2>3, <2>6
  <2>. QED  BY <2>4, <2>5, <2>6
<1>9. Sent(t) \cap New = {}
  <2> SUFFICES ASSUME NEW x \in Sent(t), x \in New PROVE FALSE
    OBVIOUS
  <2>1. x[1] = s /\ x[2] \in Nat /\ x[2] >= b
    BY <1>0, <1>2
  <2>2. x[2] < moved[x[1]]
    BY DEF Sent
  <2>. QED  BY <1>0, <2>1, <2>2
<1>10. FlowInv'
  <2> SUFFICES ASSUME NEW r \in Receivers
               PROVE  IsFiniteSet(Sent(r)') /\ Cardinality(Sent(r)') = moved'[r] + pipe'[r]
    BY DEF FlowInv
  <2>0. /\ IsFiniteSet(Sent(r)) /\ Cardinality(Sent(r)) = moved[r] + pipe[r]
        /\ moved'[r] = moved[r] /\ moved[r] \in Nat /\ pipe[r] \in Nat
    BY <1>inv, <1>0, <1>7 DEF FlowInv, Receivers
  <2>1. CASE r = t
    <3>1. Sent(r)' = Sent(r) \cup New
      BY <1>8, <2>1
    <3>2. IsFiniteSet(Sent(r) \cup New) /\ Sent(r) \cap New = {}
      BY <1>6, <1>9, <2>0, <2>1, FS_Union
    <3>3. Cardinality(Sent(r) \cup New) =
            Cardinality(Sent(r)) + Cardinality(New) - Cardinality(Sent(r) \cap New)
      BY <1>6, <2>0, FS_Union
    <3>4. Cardinality(Sent(r) \cap New) = 0
      BY <3>2, FS_EmptySet
    <3>5. pipe'[r] = pipe[r] + ret
      BY <1>inv, <1>pick, <2>1
    <3> HIDE DEF New, t
    <3>. QED  BY <1>2, <1>6, <2>0, <3>1, <3>2, <3>3, <3>4, <3>5
  <2>2. CASE r # t
    <3>1. Sent(r)' = Sent(r)
      BY <1>8, <2>2
    <3>2. pipe'[r] = pipe[r]
      BY <1>inv, <1>pick, <2>2
    <3>. QED  BY <2>0, <3>1, <3>2
  <2>. QED  BY <2>1, <2>2
<1>11. state' = state
  BY <1>inv, <1>0, <1>step
<1>12. HackTypeOK' /\ moved' \in [Workers -> Nat]
  <2>1. moved' \in [Workers -> Nat]
    BY <1>inv, <1>0, <1>2, <1>pick
  <2>2. \A w \in Workers : moved'[w] \in 0..Task(w)
    <3> SUFFICES ASSUME NEW w \in Workers PROVE moved'[w] \in 0..Task(w)
      OBVIOUS
    <3>1. CASE w = s
      BY <1>0, <1>2, <1>4, <1>7, <3>1
    <3>2. CASE w # s
      BY <1>inv, <1>7, <3>2 DEF HackTypeOK
    <3>. QED  BY <3>1, <3>2
  <2>3. pipe' \in [Receivers -> 0..Capacity]
    <3>1. pipe[t] \in Nat /\ pipe[t] + ret \in 0..Capacity
      BY <1>inv, <1>2, <1>3, <1>pick
    <3> HIDE DEF t
    <3>. QED  BY <1>inv, <1>3, <1>pick, <3>1
  <2>. QED  BY <1>inv, <1>11, <1>step, <2>1, <2>2, <2>3 DEF HackTypeOK, Task
<1>13. GateInv' /\ ReapInv'
  <2>1. wakefds
    BY <1>inv, <1>0, <1>step DEF GateInv
  <2>. QED  BY <1>inv, <1>0, <1>step, <2>1, HBWorkerMoves
<1>14. CleanInv'
  <2> SUFFICES ASSUME faults = 0, NEW w \in Workers
               PROVE  /\ state[w] \notin {"failed", "killed"}
                      /\ state[w] \in {"returned", "reaped"} => moved'[w] = Task(w)
    BY <1>11, <1>step DEF CleanInv, Task
  <2>. QED  BY <1>inv, <1>7, <1>step DEF CleanInv
<1>. QED  BY <1>10, <1>12, <1>13, <1>14 DEF HackInv

\* A receiver reads: what left its pipe it has.
LEMMA HBRead ==
  ASSUME HackInv, NEW r \in Receivers, Read(r)
  PROVE  HackInv'
<1> DEFINE b == moved[r]
           e == b % DataSize
<1>inv. /\ HackTypeOK /\ GateInv /\ ReapInv /\ FlowInv /\ CleanInv /\ moved \in [Workers -> Nat]
        /\ state \in [Workers -> WorkerPlaces] /\ DataSize \in Nat /\ DataSize > 0
        /\ Capacity \in Nat
        /\ pipe \in [Receivers -> 0..Capacity]
  BY HBSizes DEF HackInv, HackTypeOK, WorkerPlaces
<1>0. r \in Workers /\ r \notin Senders /\ b \in Nat
  BY <1>inv DEF Senders, Receivers
<1>pick. PICK ret \in 1..Left(r) : /\ ret <= pipe[r]
                                   /\ moved' = [moved EXCEPT ![r] = @ + ret]
                                   /\ pipe' = [pipe EXCEPT ![r] = @ - ret]
  BY DEF Read
<1>step. /\ state[r] = "run" /\ state' = [state EXCEPT ![r] = "run"] /\ b < Task(r)
         /\ UNCHANGED <<process_mode, mainpc, k, readypipe, wakefds, faults>>
  BY DEF Read, WorkerGoto
<1>1. e \in 0..(DataSize - 1)
  BY <1>inv, <1>0, Euclid
<1>2. ret \in Nat /\ ret > 0 /\ e + ret <= DataSize
  BY <1>inv, <1>1 DEF Left
<1>3. b + ret <= Task(r) /\ Task(r) \in Nat
  BY <1>0, <1>2, <1>step, HBMessage, HBTask
<1>4. moved'[r] = b + ret /\ \A w \in Workers \ {r} : moved'[w] = moved[w]
  BY <1>inv, <1>0, <1>pick
<1>5. pipe'[r] = pipe[r] - ret /\ pipe'[r] \in 0..Capacity
      /\ \A v \in Receivers \ {r} : pipe'[v] = pipe[v]
  <2>1. pipe[r] \in 0..Capacity
    BY <1>inv
  <2>. QED  BY <1>inv, <1>2, <1>pick, <2>1
<1>6. FlowInv'
  <2> SUFFICES ASSUME NEW v \in Receivers
               PROVE  IsFiniteSet(Sent(v)') /\ Cardinality(Sent(v)') = moved'[v] + pipe'[v]
    BY DEF FlowInv
  <2>1. Sent(v)' = Sent(v)
    <3>1. \A s \in Senders : moved'[s] = moved[s]
      BY <1>0, <1>4 DEF Senders
    <3>. QED  BY <3>1 DEF Sent, Dest
  <2>2. v \in Workers /\ moved[v] \in Nat /\ pipe[v] \in Nat
    BY <1>inv DEF Receivers
  <2>3. moved'[v] + pipe'[v] = moved[v] + pipe[v]
    <3>1. CASE v = r
      <4>1. moved'[v] = moved[v] + ret /\ pipe'[v] = pipe[v] - ret
        BY <1>4, <1>5, <3>1
      <4>. QED  BY <1>2, <2>2, <4>1
    <3>2. CASE v # r
      BY <1>4, <1>5, <2>2, <3>2
    <3>. QED  BY <3>1, <3>2
  <2>. QED  BY <1>inv, <2>1, <2>3 DEF FlowInv
<1>7. state' = state
  BY <1>inv, <1>0, <1>step
<1>8. HackTypeOK' /\ moved' \in [Workers -> Nat]
  <2>1. moved' \in [Workers -> Nat]
    BY <1>inv, <1>0, <1>2, <1>pick
  <2>2. \A w \in Workers : moved'[w] \in 0..Task(w)
    <3> SUFFICES ASSUME NEW w \in Workers PROVE moved'[w] \in 0..Task(w)
      OBVIOUS
    <3>1. CASE w = r
      BY <1>0, <1>2, <1>3, <1>4, <3>1
    <3>2. CASE w # r
      BY <1>inv, <1>4, <3>2 DEF HackTypeOK
    <3>. QED  BY <3>1, <3>2
  <2>3. pipe' \in [Receivers -> 0..Capacity]
    BY <1>inv, <1>5, <1>pick
  <2>. QED  BY <1>inv, <1>7, <1>step, <2>1, <2>2, <2>3 DEF HackTypeOK, Task
<1>9. GateInv' /\ ReapInv'
  <2>1. wakefds
    BY <1>inv, <1>0, <1>step DEF GateInv
  <2>. QED  BY <1>inv, <1>0, <1>step, <2>1, HBWorkerMoves
<1>10. CleanInv'
  <2> SUFFICES ASSUME faults = 0, NEW w \in Workers
               PROVE  /\ state[w] \notin {"failed", "killed"}
                      /\ state[w] \in {"returned", "reaped"} => moved'[w] = Task(w)
    BY <1>7, <1>step DEF CleanInv, Task
  <2>. QED  BY <1>inv, <1>4, <1>step DEF CleanInv
<1>. QED  BY <1>6, <1>8, <1>9, <1>10 DEF HackInv

LEMMA HBNext ==
  ASSUME HackInv, [HackNext]_hackVars
  PROVE  HackInv'
<1>1. CASE MainStep \/ MainBarfs
  BY <1>1, HBCreateWorker, HBMainSteps, HBReapWorker DEF MainStep
<1>2. ASSUME NEW w \in Workers, Worker(w) \/ WorkerBarfs(w) PROVE HackInv'
  <2>1. CASE w \in Senders /\ Write(w)
    BY <2>1, HBWrite
  <2>2. CASE w \in Receivers /\ Read(w)
    BY <2>2, HBRead
  <2>. QED  BY <1>2, <2>1, <2>2, HBWorkerSteps DEF Worker
<1>3. CASE UNCHANGED hackVars
  <2> USE <1>3 DEF hackVars
  <2>1. HackTypeOK' /\ moved' \in [Workers -> Nat]
    BY DEF HackInv, HackTypeOK, Task
  <2>2. GateInv' /\ ReapInv'
    BY DEF HackInv, GateInv, ReapInv, Reported, Reaped
  <2>3. FlowInv'
    BY HBFlowKept DEF HackInv
  <2>4. CleanInv'
    BY DEF HackInv, CleanInv, Task
  <2>. QED  BY <2>1, <2>2, <2>3, <2>4 DEF HackInv
<1>. QED  BY <1>1, <1>2, <1>3 DEF HackNext

LEMMA HBInvariant == HackSpec => []HackInv
<1>1. HackInit => HackInv
  BY HBInit
<1>2. HackInv /\ [HackNext]_hackVars => HackInv'
  BY HBNext
<1>. QED  BY <1>1, <1>2, PTL DEF HackSpec

\* The type invariant of hackbench: its counters, the bytes moved and the
\* pipes stay within their bounds.
THEOREM HBTypeCorrect == HackSpec => []HackTypeOK
<1>1. HackInv => HackTypeOK
  BY DEF HackInv
<1>. QED  BY <1>1, HBInvariant, PTL

\* The clock of main starts, and a worker moves a byte, only after every worker
\* has reported from ready().
THEOREM HBGate == HackSpec => []StartTogether
<1>1. HackInv => StartTogether
  BY DEF HackInv, GateInv, Reported, StartTogether
<1>. QED  BY <1>1, HBInvariant, PTL

\* If main prints a time, a sender that fell short stopped at a receiver that
\* did; without a failing call all was written and read.
THEOREM HBDelivered == HackSpec => []TimeMeansDelivered
<1>1. HackInv => TimeMeansDelivered
  <2> SUFFICES ASSUME HackInv, mainpc = "done" PROVE TimeMeansDelivered
    BY DEF TimeMeansDelivered
  <2>0. HackTypeOK /\ ReapInv /\ FlowInv /\ CleanInv /\ moved \in [Workers -> Nat]
        /\ Capacity \in Nat
    BY HBSizes DEF HackInv
  <2>1. \A w \in Workers : Task(w) = DataSize * Loops * NumFds /\ Task(w) \in Nat
    BY HBTask
  <2>2. ASSUME NEW s \in Senders, moved[s] < DataSize * Loops * NumFds
        PROVE  moved[Target(s)] < DataSize * Loops * NumFds
    <3>1. Target(s) \in Receivers /\ moved[Target(s)] < Task(Target(s))
      BY <2>0, <2>1, <2>2, HBFallsShort DEF Senders
    <3>. QED  BY <2>1, <3>1 DEF Receivers
  <2>3. ASSUME faults = 0 PROVE \A w \in Workers : moved[w] = Task(w)
    <3>1. Reaped = Workers
      <4>1. Reaped \subseteq Workers /\ Cardinality(Reaped) = total_children
        BY <2>0 DEF Reaped, ReapInv
      <4>. QED  BY <4>1, HBCounts
    <3>. QED  BY <2>0, <2>3, <3>1 DEF Reaped, CleanInv
  <2>4. ASSUME faults = 0, NEW r \in Receivers PROVE pipe[r] = 0
    <3>1. IsFiniteSet(Payload(r)) /\ Cardinality(Payload(r)) <= Task(r)
          /\ Sent(r) \subseteq Payload(r)
      BY <2>0, HBPayload, HBTask, HBSentIsPayload DEF Receivers
    <3>2. Cardinality(Sent(r)) <= Cardinality(Payload(r))
      BY <3>1, FS_Subset
    <3>3. /\ Cardinality(Sent(r)) = moved[r] + pipe[r] /\ moved[r] = Task(r) /\ Task(r) \in Nat
          /\ pipe[r] \in Nat /\ Cardinality(Payload(r)) \in Nat
      BY <2>0, <2>1, <2>3, <2>4, <3>1, FS_CardinalityType DEF FlowInv, HackTypeOK, Receivers
    <3>. QED  BY <3>1, <3>2, <3>3
  <2>5. \A s \in Senders : faults = 0 => moved[s] = DataSize * Loops * NumFds
    BY <2>1, <2>3 DEF Senders
  <2>. QED  BY <2>2, <2>4, <2>5 DEF TimeMeansDelivered
<1>2. HackSpec => []HackInv
  BY HBInvariant
<1>. QED  BY <1>1, <1>2, PTL
=============================================================================

------------------------------ MODULE NetBench ------------------------------
(***************************************************************************)
(* netperf2/netperf2.py and iperf/iperf.py: the same test run on two hosts *)
(* in the roles of server and client.  For every number of streams the     *)
(* server starts a daemon, the two meet at a barrier, the client runs its  *)
(* commands, they meet at a second one and the server stops the daemon.    *)
(*                                                                         *)
(* External: job.barrier(tag, id, timeout).rendezvous returns in both when *)
(* both wait under the same id and raises in one whose timeout is over.    *)
(* Time passes in ticks and only in waits: at a barrier and in the         *)
(* commands of the client.                                                 *)
(***************************************************************************)
EXTENDS Integers, Sequences, Faults

CONSTANTS
  StreamList,   \* stream_list
  StartWait,    \* timeout of start_N (600 seconds)
  ServerWait,   \* of stop_N or finish_N in the server (test_time + 300)
  ClientWait,   \* of stop_N or finish_N in the client (300)
  RunLimits     \* of the commands: [iperf |-> test_time + 60,
                \*                   netperf2 |-> test_time + 500]

Benches == {"iperf", "netperf2"}
Roles == {"server", "client"}

ASSUME NetBenchAssumption ==
  /\ StreamList \in Seq(Nat \ {0}) /\ StreamList # <<>>
  /\ {StartWait, ServerWait, ClientWait} \subseteq Nat \ {0}
  /\ RunLimits \in [Benches -> Nat \ {0}] /\ MaxFaults \in Nat
  /\ RunLimits["iperf"] < ServerWait

VARIABLES
  bench,     \* which of the two tests
  dev,       \* a device is to be configured
  pc,        \* of the two roles
  round,     \* their place in stream_list
  waited,    \* ticks in the present wait
  daemon,    \* netserver or iperf -s runs
  results,   \* of the client: "output", or "none" after a timeout
  netif      \* the roles whose interface is changed

vars == <<bench, dev, pc, round, waited, daemon, results, netif, faults>>

Init ==
  /\ bench \in Benches /\ dev \in BOOLEAN
  /\ pc = [r \in Roles |-> "idle"]
  /\ round = [r \in Roles |-> 1]
  /\ waited = [r \in Roles |-> 0]
  /\ daemon = FALSE /\ results = <<>> /\ netif = {} /\ faults = 0

Goto(r, place) ==
  /\ pc' = [pc EXCEPT ![r] = place]
  /\ waited' = [waited EXCEPT ![r] = 0]

Limit(r) ==
  CASE pc[r] = "start" -> StartWait
    [] pc[r] = "stop" /\ r = "server" -> ServerWait
    [] pc[r] = "stop" /\ r = "client" -> ClientWait
    [] pc[r] = "running" -> RunLimits[bench]

Waits(r) == pc[r] \in {"start", "stop", "running"}

\* The id of the barrier a role waits at: the phase and the stream count.
Tag(r) == <<pc[r], StreamList[round[r]]>>

-----------------------------------------------------------------------------
(* run_once. *)

\* configure_interface and, in netperf2, a ping of the peer, which may raise;
\* the server then goes to server_start.
Begin(r) ==
  /\ pc[r] = "idle"
  /\ \/ /\ Goto(r, IF r = "server" THEN "serve" ELSE "start")
        /\ UNCHANGED faults
     \/ /\ dev /\ faults < MaxFaults /\ faults' = faults + 1
        /\ Goto(r, "raised")
  /\ netif' = IF dev THEN netif \cup {r} ELSE netif
  /\ UNCHANGED <<bench, dev, round, daemon, results>>

\* server_start, which kills a daemon that may be left.
ServerStart ==
  /\ pc["server"] = "serve"
  /\ Goto("server", "start")
  /\ daemon' = TRUE
  /\ UNCHANGED <<bench, dev, round, results, netif, faults>>

\* Mutant: the client is let through alone.
Meet_clientOnly(phase) == pc["client"] = phase

\* Both wait under the same id.
Meet(phase) ==
  pc["server"] = phase /\ pc["client"] = phase /\ Tag("server") = Tag("client")

Started ==
  /\ Meet("start")
  /\ pc' = [server |-> "stop", client |-> "running"]
  /\ waited' = [r \in Roles |-> 0]
  /\ UNCHANGED <<bench, dev, round, daemon, results, netif, faults>>

\* The next stream count, or restore_interface and the end.
NextRound(r, first) == IF round[r] < Len(StreamList) THEN first ELSE "done"

\* The server stops its daemon in the finally clause.
Stopped ==
  /\ Meet("stop")
  /\ pc' = [server |-> NextRound("server", "serve"),
            client |-> NextRound("client", "start")]
  /\ waited' = [r \in Roles |-> 0]
  /\ round' = [r \in Roles |-> round[r] + 1]
  /\ daemon' = FALSE
  /\ netif' = {r \in netif : round[r] < Len(StreamList)}
  /\ UNCHANGED <<bench, dev, results, faults>>

\* Mutant: no finally clause.
StopDaemon_not(r) == UNCHANGED daemon

\* The finally clause is the server's.
StopDaemon(r) == daemon' = (daemon /\ r # "server")

\* An exception leaves run_once; restore_interface is not reached.
Raise(r) ==
  /\ Goto(r, "raised")
  /\ StopDaemon(r)
  /\ UNCHANGED <<bench, dev, round, results, netif>>

\* Mutant: the second barrier has no timeout.
BarrierTimeout_start(r) ==
  /\ pc[r] = "start" /\ waited[r] = Limit(r)
  /\ Raise(r)
  /\ UNCHANGED faults

\* A barrier times out.
BarrierTimeout(r) ==
  /\ pc[r] \in {"start", "stop"} /\ waited[r] = Limit(r)
  /\ Raise(r)
  /\ UNCHANGED faults

\* Any other error, in any of the calls.
Error(r) ==
  /\ Waits(r) \/ pc[r] = "serve"
  /\ faults < MaxFaults /\ faults' = faults + 1
  /\ Raise(r)

-----------------------------------------------------------------------------
(* client: the commands. *)

Result(value) ==
  /\ Goto("client", "stop")
  /\ results' = Append(results, value)
  /\ UNCHANGED <<bench, dev, round, daemon, netif, faults>>

\* Without a daemon the commands fail; netperf2 ignores their status.
Fails == ~daemon /\ bench = "iperf"

ClientOutput ==
  /\ pc["client"] = "running" /\ ~Fails
  /\ Result("output")

ClientFails ==
  /\ pc["client"] = "running" /\ Fails
  /\ Raise("client")
  /\ UNCHANGED faults

\* "did not complete within": caught, and recorded as no result.
ClientTimeout ==
  /\ pc["client"] = "running" /\ waited["client"] = Limit("client")
  /\ Result("none")

Tick ==
  /\ \E r \in Roles : Waits(r)
  /\ \A r \in Roles : Waits(r) => waited[r] < Limit(r)
  /\ ~Meet("start") /\ ~Meet("stop")
  /\ waited' = [r \in Roles |-> IF Waits(r) THEN waited[r] + 1 ELSE waited[r]]
  /\ UNCHANGED <<bench, dev, pc, round, daemon, results, netif, faults>>

Step ==
  \/ ServerStart \/ Started \/ Stopped
  \/ \E r \in Roles : BarrierTimeout(r)
  \/ ClientOutput \/ ClientFails \/ ClientTimeout

Next == Step \/ Tick \/ \E r \in Roles : Begin(r) \/ Error(r)

Spec == Init /\ [][Next]_vars

\* Time passes and what is due happens; that a role is ever started is not
\* promised, and neither is that a command of the client ends by itself.
FairSpec ==
  /\ Spec /\ WF_vars(Tick)
  /\ WF_vars(ServerStart) /\ WF_vars(Started) /\ WF_vars(Stopped)
  /\ \A r \in Roles : WF_vars(BarrierTimeout(r))
  /\ WF_vars(ClientFails) /\ WF_vars(ClientTimeout)

-----------------------------------------------------------------------------
(* Properties. *)

TypeOK ==
  /\ bench \in Benches /\ dev \in BOOLEAN
  /\ pc \in [Roles -> {"idle", "serve", "start", "running", "stop", "raised",
                       "done"}]
  /\ round \in [Roles -> 1..(Len(StreamList) + 1)]
  /\ waited \in [Roles -> Nat]
  /\ daemon \in BOOLEAN /\ results \in Seq({"output", "none"})
  /\ netif \subseteq Roles /\ faults \in 0..MaxFaults

Over(r) == pc[r] \in {"raised", "done"}

\* While the client runs its commands the daemon of the same round is up.
\* The exceptions are an error in the server, and a run of netperf2 that
\* takes longer than the server waits: its commands may take test_time + 500
\* seconds, the server leaves after test_time + 300.
ServerServesRun ==
  pc["client"] = "running" =>
    \/ daemon /\ round["server"] = round["client"]
    \/ faults > 0
    \/ bench = "netperf2" /\ waited["client"] >= ServerWait

\* However the server ends, it leaves no daemon behind; and one that ends well
\* has served a complete test: the client has a result for every entry of
\* stream_list, which postprocess insists on.
ServerEndsClean ==
  /\ Over("server") => ~daemon
  /\ pc["server"] = "done" => Len(results) = Len(StreamList)

\* Nobody waits for ever for a role that was never started or has gone: a
\* role that has begun is over some time.
RoleEnds == \A r \in Roles : pc[r] # "idle" ~> Over(r)

=============================================================================

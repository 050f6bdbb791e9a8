---------------------------- MODULE Ipv6connect ----------------------------
(***************************************************************************)
(* ipv6connect/src/ipv6connect.c: connect to a server socket of the same   *)
(* process over a loopback address, many times: with one server socket     *)
(* (type O), with one per connect (M), and with one per connect in a       *)
(* thread of its own (T), which tells main through a condition variable    *)
(* that it is listening.                                                   *)
(*                                                                         *)
(* The kernel gives out the lowest free descriptor and a port that was not *)
(* used before.  A connect is queued at a listening socket and needs no    *)
(* accept.  The loopback address of a connect makes no difference here; a  *)
(* system call that fails ends the program with exit(1).                   *)
(***************************************************************************)
EXTENDS Integers, Sequences, FiniteSetsExt, Faults

CONSTANTS
  Types,        \* a sequence of "O", "M" and "T"
  Outer, Inner  \* passes through the loops

ASSUME Ipv6connectAssumption ==
  /\ Types \in Seq({"O", "M", "T"})
  /\ Outer \in Nat \ {0} /\ Inner \in Nat \ {0} /\ MaxFaults \in Nat

\* Descriptors 0 to 2 are in use; three more are all that is needed.
Fds == 3..5

\* The three inner loops, one for each address.
Connects == 3 * Inner

VARIABLES
  main, type, i, j,     \* main, its place in types, the two loops
  server,               \* the server thread
  threaded_listening, threaded_server_fd, threaded_mutex,
  woken,                \* main waits at threaded_cond: FALSE until signalled
  server_fd, client_fd, accept_fd, \* locals of main and of the thread
  target,               \* the port main connects to
  port,                 \* the port of a socket; 0: no server socket
  open,                 \* the descriptors in use
  queue,                \* connections waiting to be accepted, by port
  ports                 \* ports given out so far

loopVars == <<type, i, j>>
sharedVars == <<threaded_listening, threaded_server_fd, threaded_mutex, woken>>
netVars == <<port, open, queue, ports>>
localVars == <<server_fd, client_fd, accept_fd, target>>
connectVars == <<main, loopVars, server, sharedVars, netVars, localVars, faults>>

None == -1

ConnectInit ==
  /\ main = "loop" /\ type = 1 /\ i = 0 /\ j = 0
  /\ server = "none"
  /\ threaded_listening = FALSE /\ threaded_server_fd = None
  /\ threaded_mutex = "free" /\ woken = FALSE
  /\ server_fd = None /\ client_fd = None /\ accept_fd = None /\ target = 0
  /\ port = [f \in Fds |-> 0] /\ open = {} /\ queue = {} /\ ports = 0
  /\ faults = 0

LowestFd(used) == Min(Fds \ used)
NewFd == LowestFd(open)

\* socket, bind and listen; the descriptor is f.
Serve(f) ==
  /\ open' = open \cup {f}
  /\ ports' = ports + 1
  /\ port' = [port EXCEPT ![f] = ports + 1]
  /\ UNCHANGED queue

\* close, of descriptors in use; with a listening socket its queue goes.
CloseOf(used, closed) ==
  /\ open' = used \ closed
  /\ port' = [f \in Fds |-> IF f \in closed THEN 0 ELSE port[f]]
  /\ queue' = queue \ {port[f] : f \in closed}
  /\ UNCHANGED ports
Close(closed) == CloseOf(open, closed)

Listening(p) == \E f \in open : port[f] = p

\* A system call fails for a reason of its own.
Fault ==
  /\ main \notin {"exit0", "exit1"} /\ faults < MaxFaults
  /\ faults' = faults + 1
  /\ main' = "exit1"
  /\ UNCHANGED <<loopVars, server, sharedVars, netVars, localVars>>

-----------------------------------------------------------------------------
(* main, RunWithOneServer, RunWithOneShotServers and RunMultiThreaded. *)

Running(t) == main = "loop" /\ type <= Len(Types) /\ Types[type] = t

\* The loops of all three functions.
Advance ==
  IF j < Connects - 1 THEN j' = j + 1 /\ UNCHANGED <<type, i>>
  ELSE /\ j' = 0
       /\ IF i < Outer - 1 THEN i' = i + 1 /\ UNCHANGED type
          ELSE i' = 0 /\ type' = type + 1

CreateServer ==
  /\ Running("O") /\ j = 0 /\ server_fd = None
  /\ server_fd' = NewFd
  /\ Serve(NewFd)
  /\ UNCHANGED <<main, loopVars, server, sharedVars, client_fd, accept_fd,
                 target, faults>>

\* The client socket and the accepted one are opened, and closed again; after
\* the last connect the server socket is closed too.
ConnectAndAccept ==
  LET client == LowestFd(open)
      accepted == LowestFd(open \cup {client})
      over == IF j = Connects - 1 THEN {server_fd} ELSE {} IN
  /\ Running("O") /\ server_fd # None
  /\ Advance
  /\ CloseOf(open \cup {client, accepted}, {client, accepted} \cup over)
  /\ server_fd' = IF j = Connects - 1 THEN None ELSE server_fd
  /\ UNCHANGED <<main, server, sharedVars, client_fd, accept_fd, target, faults>>

\* Server, client and accepted socket are opened, and closed again; with the
\* server its port is gone.
CreateServerConnectAndAccept ==
  LET listener == LowestFd(open)
      client == LowestFd(open \cup {listener})
      accepted == LowestFd(open \cup {listener, client})
      used == {listener, client, accepted} IN
  /\ Running("M")
  /\ Advance
  /\ open' = (open \cup used) \ used
  /\ ports' = ports + 1
  /\ UNCHANGED <<main, server, sharedVars, port, queue, localVars, faults>>

\* pthread_create, whose result nobody looks at.
StartThread ==
  /\ Running("T")
  /\ main' = "lock"
  /\ \/ server' = "listen" /\ UNCHANGED faults
     \/ faults < MaxFaults /\ faults' = faults + 1 /\ UNCHANGED server
  /\ UNCHANGED <<loopVars, sharedVars, netVars, localVars>>

\* ThreadedGetServerFD; the loop tests again after every wait.
Lock ==
  /\ main = "lock" /\ threaded_mutex = "free"
  /\ IF threaded_listening THEN main' = "get" /\ threaded_mutex' = "main"
     ELSE main' = "wait" /\ UNCHANGED threaded_mutex
  /\ woken' = FALSE
  /\ UNCHANGED <<loopVars, server, threaded_listening, threaded_server_fd,
                 netVars, localVars, faults>>

Wakeup ==
  /\ main = "wait" /\ woken
  /\ main' = "lock"
  /\ UNCHANGED <<loopVars, server, sharedVars, netVars, localVars, faults>>

\* A wait may also end by itself.
SpuriousWakeup ==
  /\ main = "wait" /\ ~woken
  /\ main' = "lock"
  /\ UNCHANGED <<loopVars, server, sharedVars, netVars, localVars, faults>>

\* The unlock, and after it the read of the descriptor.
GetServerFD ==
  /\ main = "get"
  /\ main' = "name" /\ threaded_mutex' = "free"
  /\ server_fd' = threaded_server_fd
  /\ UNCHANGED <<loopVars, server, threaded_listening, threaded_server_fd,
                 woken, netVars, client_fd, accept_fd, target, faults>>

\* getsockname fails for a descriptor that is not open.
GetSockName ==
  /\ main = "name"
  /\ IF server_fd \in open
       THEN main' = "connect" /\ target' = port[server_fd]
       ELSE main' = "exit1" /\ UNCHANGED target
  /\ UNCHANGED <<loopVars, server, sharedVars, netVars, server_fd, client_fd,
                 accept_fd, faults>>

\* socket and connect; nobody listening is an error.
Connect ==
  /\ main = "connect"
  /\ client_fd' = NewFd /\ open' = open \cup {NewFd}
  /\ IF Listening(target)
       THEN main' = "close" /\ queue' = queue \cup {target}
       ELSE main' = "exit1" /\ UNCHANGED queue
  /\ UNCHANGED <<loopVars, server, sharedVars, port, ports, server_fd,
                 accept_fd, target, faults>>

CloseClient ==
  /\ main = "close"
  /\ main' = "join"
  /\ Close({client_fd})
  /\ client_fd' = None /\ server_fd' = None /\ target' = 0
  /\ UNCHANGED <<loopVars, server, sharedVars, accept_fd, faults>>

\* pthread_join returns.
Joined == server = "ended"

Join ==
  /\ main = "join" /\ Joined
  /\ main' = "loop"
  /\ Advance
  /\ UNCHANGED <<server, sharedVars, netVars, localVars, faults>>

Exit ==
  /\ main = "loop" /\ type > Len(Types)
  /\ main' = "exit0"
  /\ UNCHANGED <<loopVars, server, sharedVars, netVars, localVars, faults>>

Main ==
  \/ CreateServer \/ ConnectAndAccept \/ CreateServerConnectAndAccept
  \/ StartThread \/ Lock \/ Wakeup \/ GetServerFD \/ GetSockName \/ Connect
  \/ CloseClient \/ Join \/ Exit

-----------------------------------------------------------------------------
(* ThreadedStartServer. *)

Alive == main \notin {"exit0", "exit1"}

\* socket, bind, listen.
Listen ==
  /\ server = "listen" /\ Alive
  /\ server' = "tell"
  /\ threaded_server_fd' = NewFd
  /\ Serve(NewFd)
  /\ UNCHANGED <<main, loopVars, threaded_listening, threaded_mutex, woken,
                 localVars, faults>>

\* Mutant: nobody is told.
Signal_none == UNCHANGED woken

\* pthread_cond_signal wakes main if it waits.
Signal == woken' = (main = "wait")

\* The flag is set and signalled with the mutex held.
Tell ==
  /\ server = "tell" /\ Alive /\ threaded_mutex = "free"
  /\ server' = "accept"
  /\ threaded_listening' = TRUE
  /\ Signal
  /\ UNCHANGED <<main, loopVars, threaded_server_fd, threaded_mutex, netVars,
                 localVars, faults>>

Accept ==
  /\ server = "accept" /\ Alive /\ port[threaded_server_fd] \in queue
  /\ server' = "close"
  /\ accept_fd' = NewFd /\ open' = open \cup {NewFd}
  /\ queue' = queue \ {port[threaded_server_fd]}
  /\ UNCHANGED <<main, loopVars, sharedVars, port, ports, server_fd, client_fd,
                 target, faults>>

\* Mutant: the accepted connection is forgotten.
ServerCloses_one == {threaded_server_fd}

ServerCloses == {threaded_server_fd, accept_fd}

CloseServer ==
  /\ server = "close" /\ Alive
  /\ server' = "reset"
  /\ Close(ServerCloses)
  /\ accept_fd' = None
  /\ UNCHANGED <<main, loopVars, sharedVars, server_fd, client_fd, target, faults>>

\* Mutant: the flag stays up.
Reset_not == UNCHANGED threaded_listening

\* threaded_listening = 0, without the mutex.
Reset == threaded_listening' = FALSE

EndServer ==
  /\ server = "reset" /\ Alive
  /\ server' = "ended"
  /\ Reset
  /\ UNCHANGED <<main, loopVars, threaded_server_fd, threaded_mutex, woken,
                 netVars, localVars, faults>>

Server == Listen \/ Tell \/ Accept \/ CloseServer \/ EndServer

ConnectNext == Main \/ SpuriousWakeup \/ Server \/ Fault

ConnectSpec == ConnectInit /\ [][ConnectNext]_connectVars

ConnectFairSpec == ConnectSpec /\ WF_connectVars(Main) /\ WF_connectVars(Server)

-----------------------------------------------------------------------------
(* Properties. *)

ConnectTypeOK ==
  /\ main \in {"loop", "lock", "wait", "get", "name", "connect", "close",
               "join", "exit0", "exit1"}
  /\ type \in 1..(Len(Types) + 1) /\ i \in 0..(Outer - 1)
  /\ j \in 0..(Connects - 1)
  /\ server \in {"none", "listen", "tell", "accept", "close", "reset", "ended"}
  /\ threaded_listening \in BOOLEAN /\ woken \in BOOLEAN
  /\ threaded_mutex \in {"free", "main"}
  /\ {threaded_server_fd, server_fd, client_fd, accept_fd}
       \subseteq Fds \cup {None}
  /\ ports \in 0..(Len(Types) * Outer * Connects)
  /\ target \in 0..ports /\ port \in [Fds -> 0..ports]
  /\ open \subseteq Fds /\ queue \subseteq 1..ports
  /\ faults \in 0..MaxFaults

\* The test fails only when the kernel does: main never asks for the name of
\* a closed descriptor and never connects to a server that is gone, although
\* it reads the descriptor after the unlock and the flag is taken back
\* without the mutex.
FailureIsReal == main = "exit1" => faults > 0

\* No descriptor is lost: when a connect is over only the server socket of
\* RunWithOneServer is open, so that no number of passes runs out of them.
FdsConserved ==
  main = "loop" => open = (IF server_fd = None THEN {} ELSE {server_fd})

NoThread == main = "wait" /\ faults > 0 /\ server \in {"none", "ended"}

\* The test ends, unless the server thread could not be created: then main
\* waits for a server that never listens.
EndsUnlessNoThread ==
  []<>(main \in {"exit0", "exit1"} \/ NoThread)

=============================================================================

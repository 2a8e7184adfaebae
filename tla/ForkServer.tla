------------------------------ MODULE ForkServer ------------------------------
(***************************************************************************)
(* The two forking servers of the repository: ServerSocket of cpp/sockets  *)
(* and its C twin, which also runs a command through a pipe for each       *)
(* client.  The parent accepts, forks and closes; each child serves one    *)
(* client; SIGCHLD interrupts either of them, also the children, which     *)
(* inherit the handler.  A signal that is pending already is not queued.   *)
(***************************************************************************)
EXTENDS Naturals, FiniteSets

CONSTANTS
  Server,     \* the parent process
  Pid,        \* the process table: a child that is reaped frees its entry
  Client,     \* peers; each may connect again after it was let go
  Bad,        \* the descriptor -1
  Addresses   \* bound: addresses that getaddrinfo returns

ASSUME ForkAssumption ==
  /\ Server \notin Pid
  /\ Bad \notin Client
  /\ Addresses \in Nat

VARIABLES
  usesPipe,  \* which program: FALSE is cpp/sockets/server, TRUE c/server.c
  main,      \* where the parent is
  address,   \* the addrinfo its set-up loop looks at
  sockets,   \* the listening sockets it has open, by address
  backlog,   \* connected clients that were not accepted yet
  clientSocket,  \* the parent's connectionFileDescriptor
  child,     \* where each child is, "zombie" or "free"
  serves,    \* the connectionFileDescriptor each child was forked with
  helper,    \* the process behind each child's pipe
  open,      \* the connections each process has a descriptor of
  pending,   \* whether SIGCHLD is pending, per process
  handling   \* whether the signal handler runs, per process

setupVars == <<usesPipe, address, sockets>>
signalVars == <<pending, handling>>
childVars == <<child, serves, helper>>
vars == <<main, backlog, clientSocket, open, setupVars, signalVars, childVars>>

Procs == Pid \cup {Server}

Alive(p) == p \notin {i \in Pid : child[i] \in {"free", "zombie"}}

(* The dead children of a process that nobody has waited for. *)
Zombies(p) == IF p = Server THEN {i \in Pid : child[i] = "zombie"}
                            ELSE {i \in {p} : helper[i] = "zombie"}

Init ==
  /\ usesPipe \in BOOLEAN
  /\ main = "getaddrinfo"
  /\ address = 1
  /\ sockets = {}
  /\ backlog = {}
  /\ clientSocket = Bad
  /\ child = [i \in Pid |-> "free"]
  /\ serves = [i \in Pid |-> Bad]
  /\ helper = [i \in Pid |-> "none"]
  /\ open = [p \in Procs |-> {}]
  /\ pending = [p \in Procs |-> FALSE]
  /\ handling = [p \in Procs |-> FALSE]
-----------------------------------------------------------------------------
(* The constructor ServerSocket(port), or server(port, ...) in C.  When the *)
(* program ends, its socket and the connections waiting there are closed.  *)

Quit(status) ==
  /\ main' = status
  /\ sockets' = {}
  /\ backlog' = {}
  /\ UNCHANGED address

GetAddrInfo ==
  /\ main = "getaddrinfo"
  /\ \/ main' = "bind" /\ UNCHANGED <<setupVars, backlog>>
     \/ Quit("exit 1")
  /\ UNCHANGED <<usesPipe, clientSocket, open, signalVars, childVars>>

NextAddress == main' = "bind" /\ address' = address + 1 /\ UNCHANGED backlog

(* Mutant of TryAddress: a socket that cannot be bound stays open. *)
KeepUnbound ==
  /\ main = "bind"
  /\ address <= Addresses
  /\ \/ NextAddress /\ UNCHANGED sockets
     \/ Quit("exit 1")
     \/ NextAddress /\ sockets' = sockets \cup {address}
     \/ /\ main' = "listen"
        /\ sockets' = sockets \cup {address}
        /\ UNCHANGED <<address, backlog>>
  /\ UNCHANGED <<usesPipe, clientSocket, open, signalVars, childVars>>

(* One round of the loop: socket() or bind() fail and the next address is  *)
(* tried, setsockopt() fails and the program ends, or the socket is bound. *)
TryAddress ==
  /\ main = "bind"
  /\ address <= Addresses
  /\ \/ NextAddress /\ UNCHANGED sockets
     \/ Quit("exit 1")
     \/ /\ main' = "listen"
        /\ sockets' = sockets \cup {address}
        /\ UNCHANGED <<address, backlog>>
  /\ UNCHANGED <<usesPipe, clientSocket, open, signalVars, childVars>>

NoAddress ==
  /\ main = "bind"
  /\ address > Addresses
  /\ Quit("exit 2")
  /\ UNCHANGED <<usesPipe, clientSocket, open, signalVars, childVars>>

Listen ==
  /\ main = "listen"
  /\ \/ main' = "sigaction" /\ UNCHANGED <<setupVars, backlog>>
     \/ Quit("exit 1")
  /\ UNCHANGED <<usesPipe, clientSocket, open, signalVars, childVars>>

SigAction ==
  /\ main = "sigaction"
  /\ \/ main' = "accept" /\ UNCHANGED <<setupVars, backlog>>
     \/ Quit("exit 1")
  /\ UNCHANGED <<usesPipe, clientSocket, open, signalVars, childVars>>
-----------------------------------------------------------------------------
(* acceptClient().  The parent is interrupted while its handler runs.      *)

Connected(c) == c \in backlog \/ \E p \in Procs : c \in open[p]

(* A peer connects as soon as the socket listens. *)
Arrive(c) ==
  /\ main \in {"sigaction", "accept", "fork", "close"}
  /\ ~Connected(c)
  /\ backlog' = backlog \cup {c}
  /\ UNCHANGED <<main, clientSocket, open, setupVars, signalVars, childVars>>

(* accept() returns a connection, or -1: then the code goes on all the     *)
(* same ("continue" is commented out).                                     *)
Accept ==
  /\ main = "accept"
  /\ ~handling[Server]
  /\ main' = "fork"
  /\ \/ \E c \in backlog : /\ backlog' = backlog \ {c}
                           /\ clientSocket' = c
                           /\ open' = [open EXCEPT ![Server] = @ \cup {c}]
     \/ clientSocket' = Bad /\ UNCHANGED <<backlog, open>>
  /\ UNCHANGED <<setupVars, signalVars, childVars>>

(* The child starts with the parent's descriptors and no pending signal.   *)
StartChild(i) ==
  /\ child[i] = "free"
  /\ child' = [child EXCEPT ![i] = "recv"]
  /\ serves' = [serves EXCEPT ![i] = clientSocket]
  /\ helper' = [helper EXCEPT ![i] = "none"]
  /\ open' = [open EXCEPT ![i] = open[Server]]
  /\ pending' = [pending EXCEPT ![i] = FALSE]
  /\ handling' = [handling EXCEPT ![i] = FALSE]

(* Mutant of Fork: after a failure the parent returns to accept() at once. *)
ForkOrReturn ==
  /\ main = "fork"
  /\ ~handling[Server]
  /\ \/ (\E i \in Pid : StartChild(i)) /\ main' = "close"
     \/ main' = "accept" /\ UNCHANGED <<open, signalVars, childVars>>
  /\ UNCHANGED <<setupVars, backlog, clientSocket>>

(* fork(), which may fail at any time and does when the table is full. *)
Fork ==
  /\ main = "fork"
  /\ ~handling[Server]
  /\ main' = "close"
  /\ \/ \E i \in Pid : StartChild(i)
     \/ UNCHANGED <<open, signalVars, childVars>>
  /\ UNCHANGED <<setupVars, backlog, clientSocket>>

(* Mutant of CloseConnection: the parent leaves closing to the child. *)
ChildWillClose ==
  /\ main = "close"
  /\ ~handling[Server]
  /\ main' = "accept"
  /\ clientSocket' = Bad
  /\ UNCHANGED <<open, setupVars, backlog, signalVars, childVars>>

(* close(connectionFileDescriptor); the next call has its own variable. *)
CloseConnection ==
  /\ main = "close"
  /\ ~handling[Server]
  /\ main' = "accept"
  /\ open' = [open EXCEPT ![Server] = @ \ {clientSocket}]
  /\ clientSocket' = Bad
  /\ UNCHANGED <<setupVars, backlog, signalVars, childVars>>
-----------------------------------------------------------------------------
(* clientHandler(), in a child.                                            *)

Running(i, where) == child[i] = where /\ ~handling[i]

(* The process ends: its descriptors are closed and its parent is told.    *)
Die(i) ==
  /\ child' = [child EXCEPT ![i] = "zombie"]
  /\ open' = [open EXCEPT ![i] = {}]
  /\ pending' = [pending EXCEPT ![Server] = TRUE]
  /\ UNCHANGED <<main, backlog, clientSocket, setupVars, serves, helper, handling>>

Step(i, where) ==
  /\ child' = [child EXCEPT ![i] = where]
  /\ UNCHANGED <<main, backlog, clientSocket, setupVars, serves, open, signalVars>>

(* recv().  An error only prints a message; the C server then, and after   *)
(* fewer than two bytes, asks strncpy for a negative length and is killed. *)
Recv(i) ==
  /\ Running(i, "recv")
  /\ \/ /\ serves[i] # Bad \/ ~usesPipe
        /\ Step(i, IF usesPipe THEN "popen" ELSE "send")
        /\ UNCHANGED helper
     \/ usesPipe /\ Die(i)

(* Mutant of OpenPipe: the pipe is read but never closed. *)
OpenWithoutClose(i) ==
  /\ Running(i, "popen")
  /\ Step(i, "send")
  /\ helper' = [helper EXCEPT ![i] = "running"]

(* popen(): a helper process, or an error that only prints a message. *)
OpenPipe(i) ==
  /\ Running(i, "popen")
  /\ \/ Step(i, "pclose") /\ helper' = [helper EXCEPT ![i] = "running"]
     \/ Step(i, "send") /\ UNCHANGED helper

(* The helper, /bin/date, ends; its parent is the child. *)
HelperExits(i) ==
  /\ Alive(i) /\ helper[i] = "running"
  /\ helper' = [helper EXCEPT ![i] = "zombie"]
  /\ pending' = [pending EXCEPT ![i] = TRUE]
  /\ UNCHANGED <<main, backlog, clientSocket, setupVars, child, serves, open, handling>>

(* pclose() waits for the helper, whom the handler may have reaped.        *)
ClosePipe(i) ==
  /\ Running(i, "pclose")
  /\ helper[i] # "running"
  /\ Step(i, "send")
  /\ helper' = [helper EXCEPT ![i] = "none"]

(* send(): done, failed with a message, or killed by SIGPIPE. *)
Send(i) ==
  /\ Running(i, "send")
  /\ \/ Step(i, "close") /\ UNCHANGED helper
     \/ serves[i] # Bad /\ Die(i)

(* close() and exit(clientHandlerFunction(...)). *)
Exit(i) == Running(i, "close") /\ Die(i)

ChildStep(i) == Recv(i) \/ OpenPipe(i) \/ ClosePipe(i) \/ Send(i) \/ Exit(i)
-----------------------------------------------------------------------------
(* ServerSocketSignalChildHandler, in whatever process the signal reaches. *)

(* The signal is delivered; it stays blocked until the handler returns.    *)
HandlerStarts(p) ==
  /\ Alive(p)
  /\ pending[p] /\ ~handling[p]
  /\ pending' = [pending EXCEPT ![p] = FALSE]
  /\ handling' = [handling EXCEPT ![p] = TRUE]
  /\ UNCHANGED <<main, backlog, clientSocket, open, setupVars, childVars>>

(* waitpid() returns a dead child. *)
Reap(p, z) ==
  IF p = Server
  THEN /\ child' = [child EXCEPT ![z] = "free"]
       /\ serves' = [serves EXCEPT ![z] = Bad]
       /\ UNCHANGED helper
  ELSE helper' = [helper EXCEPT ![z] = "none"] /\ UNCHANGED <<child, serves>>

(* Mutant of HandlerLoops: "if" for "while". *)
HandlerReapsOne(p) ==
  /\ Alive(p)
  /\ handling[p]
  /\ handling' = [handling EXCEPT ![p] = FALSE]
  /\ \/ \E z \in Zombies(p) : Reap(p, z)
     \/ Zombies(p) = {} /\ UNCHANGED childVars
  /\ UNCHANGED <<main, backlog, clientSocket, open, setupVars, pending>>

(* while (waitpid(-1, NULL, WNOHANG) > 0); *)
HandlerLoops(p) ==
  /\ Alive(p)
  /\ handling[p]
  /\ \/ (\E z \in Zombies(p) : Reap(p, z)) /\ UNCHANGED handling
     \/ /\ Zombies(p) = {}
        /\ handling' = [handling EXCEPT ![p] = FALSE]
        /\ UNCHANGED childVars
  /\ UNCHANGED <<main, backlog, clientSocket, open, setupVars, pending>>
-----------------------------------------------------------------------------
ServerStep == GetAddrInfo \/ TryAddress \/ NoAddress \/ Listen \/ SigAction
              \/ Accept \/ Fork \/ CloseConnection

Next ==
  \/ ServerStep
  \/ \E c \in Client : Arrive(c)
  \/ \E i \in Pid : ChildStep(i) \/ HelperExits(i)
  \/ \E p \in Procs : HandlerStarts(p) \/ HandlerLoops(p)

Spec == Init /\ [][Next]_vars

(* The scheduler runs every process that can go on and delivers signals;   *)
(* peers that were accepted speak or hang up in the end; date(1) ends.     *)
(* Nothing makes peers arrive, or accept() and fork() succeed.             *)
Fairness ==
  /\ WF_vars(Fork) /\ WF_vars(CloseConnection)
  /\ \A i \in Pid : WF_vars(ChildStep(i)) /\ WF_vars(HelperExits(i))
  /\ \A p \in Procs : WF_vars(HandlerStarts(p)) /\ WF_vars(HandlerLoops(p))

FairSpec == Spec /\ Fairness
-----------------------------------------------------------------------------
(* Every variable has its type. *)
TypeOK ==
  /\ usesPipe \in BOOLEAN
  /\ main \in {"getaddrinfo", "bind", "listen", "sigaction", "accept", "fork",
               "close", "exit 1", "exit 2"}
  /\ address \in 1 .. Addresses + 1
  /\ sockets \subseteq 1 .. Addresses
  /\ backlog \subseteq Client
  /\ clientSocket \in Client \cup {Bad}
  /\ child \in [Pid -> {"free", "recv", "popen", "pclose", "send", "close", "zombie"}]
  /\ serves \in [Pid -> Client \cup {Bad}]
  /\ helper \in [Pid -> {"none", "running", "zombie"}]
  /\ open \in [Procs -> SUBSET Client]
  /\ pending \in [Procs -> BOOLEAN]
  /\ handling \in [Procs -> BOOLEAN]

(* "reap all dead processes": a dead process that nobody waited for is     *)
(* announced to its parent by a pending signal or a handler that still     *)
(* loops, however many deaths share one signal.  Without this it would     *)
(* stay until some later child dies.                                       *)
ZombiesAreAnnounced ==
  \A p \in Procs : Alive(p) /\ Zombies(p) # {} => pending[p] \/ handling[p]

(* The parent has a descriptor of the connection it is busy with and of no *)
(* other, so that no child inherits the connection of another client.      *)
DescriptorsStayPrivate ==
  /\ open[Server] \subseteq {clientSocket}
  /\ main \notin {"fork", "close"} => open[Server] = {}
  /\ \A i \in Pid : open[i] \subseteq {serves[i]}

(* "bind to the first we can": a server that serves has one listening      *)
(* socket, and one that gave up has none.                                  *)
OneListener ==
  /\ main \in {"sigaction", "accept", "fork", "close"} => Cardinality(sockets) = 1
  /\ main \in {"exit 1", "exit 2"} => sockets = {}

(* The command a child runs for its client ends, and is waited for, before *)
(* the child ends, whether pclose() or the inherited handler is first.     *)
HelperNeverOutlivesChild == \A i \in Pid : ~Alive(i) => helper[i] = "none"

(* Every dead child is reaped. *)
EveryZombieIsReaped == \A i \in Pid : child[i] = "zombie" ~> child[i] = "free"

(* Every client that was accepted is let go: it sees the end of its        *)
(* connection only when no process has a descriptor of it any more.        *)
EveryClientIsLetGo ==
  \A c \in Client : (\E p \in Procs : c \in open[p])
                      ~> (\A p \in Procs : c \notin open[p])
=============================================================================

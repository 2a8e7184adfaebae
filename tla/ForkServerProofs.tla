--------------------------- MODULE ForkServerProofs ---------------------------
(***************************************************************************)
(* Proofs about ForkServer, for any process table, any number of clients   *)
(* and of addresses, with and without the pipe.                            *)
(***************************************************************************)
EXTENDS ForkServer, FiniteSetTheorems, TLAPS

LEMMA TypeInit == Init => TypeOK
BY ForkAssumption DEF Init, TypeOK, Procs

LEMMA ServerStepTypes == TypeOK /\ ServerStep => TypeOK'
<1> SUFFICES ASSUME TypeOK, ServerStep PROVE TypeOK'
  OBVIOUS
<1> USE ForkAssumption DEF setupVars, signalVars, childVars, Procs
<1>1. CASE GetAddrInfo
  BY <1>1 DEF GetAddrInfo, Quit, TypeOK
<1>2. CASE TryAddress
  <2>1. address + 1 \in 1 .. Addresses + 1 /\ address \in 1 .. Addresses
    <3>1. address \in 1 .. Addresses + 1
      BY DEF TypeOK
    <3>2. address <= Addresses
      BY <1>2 DEF TryAddress
    <3>3. QED BY <3>1, <3>2
  <2>2. sockets' \subseteq 1 .. Addresses /\ address' \in 1 .. Addresses + 1
    BY <1>2, <2>1 DEF TryAddress, NextAddress, Quit, TypeOK
  <2>3. backlog' \subseteq Client
    BY <1>2 DEF TryAddress, NextAddress, Quit, TypeOK
  <2>4. main' \in {"bind", "listen", "exit 1"}
    BY <1>2 DEF TryAddress, NextAddress, Quit
  <2>5. QED BY <1>2, <2>2, <2>3, <2>4 DEF TryAddress, TypeOK
<1>3. CASE NoAddress
  BY <1>3 DEF NoAddress, Quit, TypeOK
<1>4. CASE Listen
  BY <1>4 DEF Listen, Quit, TypeOK
<1>5. CASE SigAction
  BY <1>5 DEF SigAction, Quit, TypeOK
<1>6. CASE Accept
  BY <1>6 DEF Accept, TypeOK
<1>7. CASE Fork
  <2>1. ASSUME NEW i \in Pid, StartChild(i)
        PROVE  /\ child' \in [Pid -> {"free", "recv", "popen", "pclose", "send", "close", "zombie"}]
               /\ serves' \in [Pid -> Client \cup {Bad}]
               /\ helper' \in [Pid -> {"none", "running", "zombie"}]
               /\ open' \in [Procs -> SUBSET Client]
               /\ pending' \in [Procs -> BOOLEAN]
               /\ handling' \in [Procs -> BOOLEAN]
    BY <2>1 DEF StartChild, TypeOK
  <2>2. QED BY <1>7, <2>1 DEF Fork, TypeOK
<1>8. CASE CloseConnection
  BY <1>8 DEF CloseConnection, TypeOK
<1>9. QED BY <1>1, <1>2, <1>3, <1>4, <1>5, <1>6, <1>7, <1>8 DEF ServerStep

LEMMA ChildStepTypes ==
  ASSUME TypeOK, NEW i \in Pid, ChildStep(i) \/ HelperExits(i)
  PROVE  TypeOK'
<1> USE ForkAssumption DEF setupVars, signalVars, childVars, Procs
<1>1. CASE Recv(i)
  BY <1>1 DEF Recv, Running, Step, Die, TypeOK
<1>2. CASE OpenPipe(i)
  BY <1>2 DEF OpenPipe, Running, Step, TypeOK
<1>3. CASE ClosePipe(i)
  BY <1>3 DEF ClosePipe, Running, Step, TypeOK
<1>4. CASE Send(i)
  BY <1>4 DEF Send, Running, Step, Die, TypeOK
<1>5. CASE Exit(i)
  BY <1>5 DEF Exit, Running, Die, TypeOK
<1>6. CASE HelperExits(i)
  BY <1>6 DEF HelperExits, TypeOK
<1>7. QED BY <1>1, <1>2, <1>3, <1>4, <1>5, <1>6 DEF ChildStep

LEMMA HandlerTypes ==
  ASSUME TypeOK, NEW p \in Procs, HandlerStarts(p) \/ HandlerLoops(p)
  PROVE  TypeOK'
<1> USE ForkAssumption DEF setupVars, signalVars, childVars, Procs
<1>1. CASE HandlerStarts(p)
  BY <1>1 DEF HandlerStarts, TypeOK
<1>2. CASE HandlerLoops(p)
  BY <1>2 DEF HandlerLoops, Reap, Zombies, TypeOK
<1>3. QED BY <1>1, <1>2

LEMMA TypeInductive == TypeOK /\ [Next]_vars => TypeOK'
<1> SUFFICES ASSUME TypeOK, [Next]_vars PROVE TypeOK'
  OBVIOUS
<1>1. ASSUME NEW c \in Client, Arrive(c) PROVE TypeOK'
  BY <1>1 DEF Arrive, TypeOK, setupVars, signalVars, childVars
<1>2. CASE UNCHANGED vars
  BY <1>2 DEF vars, setupVars, signalVars, childVars, TypeOK
<1>3. QED BY <1>1, <1>2, ServerStepTypes, ChildStepTypes, HandlerTypes DEF Next

(* Every variable keeps its type. *)
THEOREM TypeCorrect == Spec => []TypeOK
BY TypeInit, TypeInductive, PTL DEF Spec
-----------------------------------------------------------------------------
(* A step that starts no process and lets nobody die leaves the living and *)
(* the dead children of a process as they were.                            *)
LEMMA SeenBefore ==
  ASSUME NEW p \in Procs, Alive(p)', Zombies(p)' # {},
         \A i \in Pid : i = p /\ child'[i] \notin {"free", "zombie"}
                       => child[i] \notin {"free", "zombie"},
         \A i \in Pid : child'[i] = "zombie" => child[i] = "zombie",
         p # Server /\ helper'[p] = "zombie" => helper[p] = "zombie"
  PROVE  Alive(p) /\ Zombies(p) # {}
<1>1. Alive(p)
  BY DEF Alive
<1>2. CASE p = Server
  <2>1. PICK i \in Pid : child'[i] = "zombie"
    BY <1>2 DEF Zombies
  <2>2. child[i] = "zombie"
    BY <2>1
  <2>3. QED BY <1>1, <1>2, <2>2 DEF Zombies
<1>3. CASE p # Server
  <2>1. Zombies(p) = {i \in {p} : helper[i] = "zombie"}
        /\ Zombies(p)' = {i \in {p} : helper'[i] = "zombie"}
    BY <1>3 DEF Zombies
  <2>2. helper'[p] = "zombie"
    BY <2>1
  <2>3. QED BY <1>1, <1>3, <2>1, <2>2
<1>4. QED BY <1>1, <1>2, <1>3

(* No zombie is forgotten.  A death sets the parent's pending bit; the bit *)
(* is cleared only by a handler that starts, and the handler stops only    *)
(* when waitpid finds nobody.                                              *)
LEMMA AnnouncedInductive ==
  TypeOK /\ ZombiesAreAnnounced /\ [Next]_vars => ZombiesAreAnnounced'
<1> SUFFICES ASSUME TypeOK, ZombiesAreAnnounced, [Next]_vars,
                    NEW p \in Procs, Alive(p)', Zombies(p)' # {}
             PROVE  pending'[p] \/ handling'[p]
  BY DEF ZombiesAreAnnounced
<1> USE ForkAssumption DEF setupVars, signalVars, childVars, Procs
<1>1. ASSUME UNCHANGED <<signalVars, childVars>> PROVE pending'[p] \/ handling'[p]
  BY <1>1 DEF ZombiesAreAnnounced, Alive, Zombies
<1>2. CASE ServerStep
  <2>1. CASE Fork
    <3>1. ASSUME NEW i \in Pid, StartChild(i) PROVE pending'[p] \/ handling'[p]
      <4>1. p # i
        BY <3>1 DEF StartChild, Zombies, TypeOK
      <4>2. Alive(p) /\ Zombies(p) # {}
        <5>1. child' = [child EXCEPT ![i] = "recv"] /\ helper' = [helper EXCEPT ![i] = "none"]
          BY <3>1 DEF StartChild
        <5>2. /\ \A j \in Pid : child'[j] = IF j = i THEN "recv" ELSE child[j]
              /\ \A j \in Pid : j # i => helper'[j] = helper[j]
          BY <5>1 DEF TypeOK
        <5>3. QED BY <4>1, <5>2, SeenBefore
      <4>3. pending'[p] = pending[p] /\ handling'[p] = handling[p]
        BY <3>1, <4>1 DEF StartChild, TypeOK
      <4>4. QED BY <4>2, <4>3 DEF ZombiesAreAnnounced
    <3>2. QED BY <2>1, <3>1, <1>1 DEF Fork
  <2>2. CASE ~Fork
    BY <1>1, <1>2, <2>2
       DEF ServerStep, GetAddrInfo, TryAddress, NoAddress, Listen, SigAction, Accept,
           CloseConnection
  <2>3. QED BY <2>1, <2>2
<1>3. ASSUME NEW c \in Client, Arrive(c) PROVE pending'[p] \/ handling'[p]
  BY <1>1, <1>3 DEF Arrive
<1>4. ASSUME NEW i \in Pid, ChildStep(i) PROVE pending'[p] \/ handling'[p]
  <2>1. CASE Die(i)
    <3>1. CASE p = Server
      BY <2>1, <3>1 DEF Die, TypeOK
    <3>2. CASE p # Server
      <4>1. Alive(p) /\ Zombies(p) # {}
        BY <2>1, <3>2 DEF Die, Alive, Zombies, TypeOK
      <4>2. pending'[p] = pending[p] /\ handling'[p] = handling[p]
        BY <2>1, <3>2 DEF Die, TypeOK
      <4>3. QED BY <4>1, <4>2 DEF ZombiesAreAnnounced
    <3>3. QED BY <3>1, <3>2
  <2>2. ASSUME NEW where \in {"popen", "pclose", "send", "close"}, Step(i, where),
               child[i] \notin {"free", "zombie"},
               UNCHANGED helper \/ \E h \in {"none", "running"} :
                                     helper' = [helper EXCEPT ![i] = h]
        PROVE  pending'[p] \/ handling'[p]
    <3>1. /\ \A j \in Pid : child'[j] = IF j = i THEN where ELSE child[j]
          /\ \A j \in Pid : helper'[j] = "zombie" => helper[j] = "zombie"
      BY <2>2 DEF Step, TypeOK
    <3>2. Alive(p) /\ Zombies(p) # {}
      BY <2>2, <3>1, SeenBefore
    <3>3. QED BY <2>2, <3>2 DEF Step, ZombiesAreAnnounced
  <2>3. CASE Recv(i)
    BY <2>1, <2>2, <2>3 DEF Recv, Running
  <2>4. CASE OpenPipe(i)
    BY <2>2, <2>4 DEF OpenPipe, Running
  <2>5. CASE ClosePipe(i)
    BY <2>2, <2>5 DEF ClosePipe, Running
  <2>6. CASE Send(i)
    BY <2>1, <2>2, <2>6 DEF Send, Running
  <2>7. CASE Exit(i)
    BY <2>1, <2>7 DEF Exit
  <2>8. QED BY <1>4, <2>3, <2>4, <2>5, <2>6, <2>7 DEF ChildStep
<1>5. ASSUME NEW i \in Pid, HelperExits(i) PROVE pending'[p] \/ handling'[p]
  <2>1. CASE p = i
    BY <1>5, <2>1 DEF HelperExits, TypeOK
  <2>2. CASE p # i
    <3>1. Alive(p) /\ Zombies(p) # {}
      <4>1. child' = child /\ helper' = [helper EXCEPT ![i] = "zombie"]
        BY <1>5 DEF HelperExits
      <4>2. \A j \in Pid : j # i => helper'[j] = helper[j]
        BY <4>1 DEF TypeOK
      <4>3. QED BY <2>2, <4>1, <4>2, SeenBefore
    <3>2. pending'[p] = pending[p] /\ handling'[p] = handling[p]
      BY <1>5, <2>2 DEF HelperExits, TypeOK
    <3>3. QED BY <3>1, <3>2 DEF ZombiesAreAnnounced
  <2>3. QED BY <2>1, <2>2
<1>6. ASSUME NEW q \in Procs, HandlerStarts(q) PROVE pending'[p] \/ handling'[p]
  <2>1. Alive(p) /\ Zombies(p) # {}
    BY <1>6 DEF HandlerStarts, Alive, Zombies
  <2>2. pending[p] \/ handling[p]
    BY <2>1 DEF ZombiesAreAnnounced
  <2>3. QED BY <1>6, <2>2 DEF HandlerStarts, TypeOK
<1>7. ASSUME NEW q \in Procs, HandlerLoops(q) PROVE pending'[p] \/ handling'[p]
  <2>1. CASE UNCHANGED handling /\ \E z \in Zombies(q) : Reap(q, z)
    <3>1. Alive(p) /\ Zombies(p) # {}
      <4>1. CASE q = Server
        BY <2>1, <4>1 DEF Reap, Alive, Zombies, TypeOK
      <4>2. CASE q # Server
        <5>1. child' = child /\ \A i \in Pid : helper'[i] = "zombie" => helper[i] = "zombie"
          BY <2>1, <4>2 DEF Reap, Zombies, TypeOK
        <5>2. QED BY <5>1 DEF Alive, Zombies
      <4>3. QED BY <4>1, <4>2
    <3>2. QED BY <1>7, <2>1, <3>1 DEF HandlerLoops, ZombiesAreAnnounced
  <2>2. CASE Zombies(q) = {} /\ handling' = [handling EXCEPT ![q] = FALSE]
                             /\ UNCHANGED childVars
    <3>1. Alive(p) /\ Zombies(p) # {} /\ p # q
      BY <2>2 DEF Alive, Zombies
    <3>2. QED BY <1>7, <2>2, <3>1 DEF HandlerLoops, ZombiesAreAnnounced, TypeOK
  <2>3. QED BY <1>7, <2>1, <2>2 DEF HandlerLoops
<1>8. CASE UNCHANGED vars
  BY <1>1, <1>8 DEF vars
<1>9. QED BY <1>2, <1>3, <1>4, <1>5, <1>6, <1>7, <1>8 DEF Next

(* A dead process is always announced to its living parent.                *)
THEOREM AnnouncedAlways == Spec => []ZombiesAreAnnounced
<1>1. Init => ZombiesAreAnnounced
  BY ForkAssumption DEF Init, ZombiesAreAnnounced, Zombies, Procs
<1>2. QED BY <1>1, TypeInit, TypeInductive, AnnouncedInductive, PTL DEF Spec
-----------------------------------------------------------------------------
(* Descriptors: the parent closes what it accepted on every way back to    *)
(* accept(), so it forks with one connection at most; a dead child has no  *)
(* descriptors when its table entry loses its client.                      *)
PrivateInv ==
  /\ DescriptorsStayPrivate
  /\ \A i \in Pid : ~Alive(i) => open[i] = {}

LEMMA PrivateInductive == TypeOK /\ PrivateInv /\ [Next]_vars => PrivateInv'
<1> SUFFICES ASSUME TypeOK, PrivateInv, [Next]_vars PROVE PrivateInv'
  OBVIOUS
<1> USE ForkAssumption
    DEF setupVars, signalVars, childVars, Procs, DescriptorsStayPrivate, PrivateInv, Alive
<1>1. CASE GetAddrInfo \/ TryAddress \/ NoAddress \/ Listen \/ SigAction
  BY <1>1 DEF GetAddrInfo, TryAddress, NextAddress, NoAddress, Listen, SigAction, Quit
<1>2. CASE Accept
  BY <1>2 DEF Accept, TypeOK
<1>3. CASE Fork
  <2>1. ASSUME NEW i \in Pid, StartChild(i), main' = "close", UNCHANGED clientSocket
        PROVE  PrivateInv'
    BY <2>1 DEF StartChild, TypeOK
  <2>2. QED BY <1>3, <2>1 DEF Fork
<1>4. CASE CloseConnection
  BY <1>4 DEF CloseConnection, TypeOK
<1>5. ASSUME NEW c \in Client, Arrive(c) PROVE PrivateInv'
  BY <1>5 DEF Arrive
<1>6. ASSUME NEW i \in Pid, ChildStep(i) PROVE PrivateInv'
  <2>1. CASE Die(i)
    BY <2>1 DEF Die, TypeOK
  <2>2. ASSUME NEW where \in {"popen", "pclose", "send", "close"}, Step(i, where),
               child[i] \notin {"free", "zombie"}
        PROVE  PrivateInv'
    BY <2>2 DEF Step, TypeOK
  <2>3. Die(i) \/ \E where \in {"popen", "pclose", "send", "close"} :
                    Step(i, where) /\ child[i] \notin {"free", "zombie"}
    BY <1>6 DEF ChildStep, Recv, OpenPipe, ClosePipe, Send, Exit, Running
  <2>4. QED BY <2>1, <2>2, <2>3
<1>7. ASSUME NEW i \in Pid, HelperExits(i) PROVE PrivateInv'
  BY <1>7 DEF HelperExits
<1>8. ASSUME NEW p \in Procs, HandlerStarts(p) PROVE PrivateInv'
  BY <1>8 DEF HandlerStarts
<1>9. ASSUME NEW p \in Procs, HandlerLoops(p) PROVE PrivateInv'
  <2>1. ASSUME NEW z \in Zombies(p), Reap(p, z), UNCHANGED <<main, clientSocket, open>>
        PROVE  PrivateInv'
    BY <2>1 DEF Reap, Zombies, TypeOK
  <2>2. QED BY <1>9, <2>1 DEF HandlerLoops
<1>10. CASE UNCHANGED vars
  BY <1>10 DEF vars
<1>11. QED
  BY <1>1, <1>2, <1>3, <1>4, <1>5, <1>6, <1>7, <1>8, <1>9, <1>10 DEF Next, ServerStep

(* The parent never holds a connection but the one it is busy with, and no *)
(* child inherits the connection of another client.                        *)
THEOREM PrivateAlways == Spec => []DescriptorsStayPrivate
<1>1. Init => PrivateInv
  BY ForkAssumption DEF Init, PrivateInv, DescriptorsStayPrivate, Procs
<1>2. PrivateInv => DescriptorsStayPrivate
  BY DEF PrivateInv
<1>3. QED BY <1>1, <1>2, TypeInit, TypeInductive, PrivateInductive, PTL DEF Spec
-----------------------------------------------------------------------------
(* Helpers: a child has one only between popen() and pclose().             *)
HelperInv == \A i \in Pid : helper[i] # "none" => child[i] = "pclose"

LEMMA HelperInductive == TypeOK /\ HelperInv /\ [Next]_vars => HelperInv'
<1> SUFFICES ASSUME TypeOK, HelperInv, [Next]_vars PROVE HelperInv'
  OBVIOUS
<1> USE ForkAssumption DEF setupVars, signalVars, childVars, Procs, HelperInv
<1>1. ASSUME UNCHANGED childVars PROVE HelperInv'
  BY <1>1
<1>2. CASE ServerStep
  <2>1. ASSUME NEW i \in Pid, StartChild(i) PROVE HelperInv'
    BY <2>1 DEF StartChild, TypeOK
  <2>2. QED
    BY <1>1, <1>2, <2>1
       DEF ServerStep, GetAddrInfo, TryAddress, NoAddress, Listen, SigAction, Accept, Fork,
           CloseConnection
<1>3. ASSUME NEW c \in Client, Arrive(c) PROVE HelperInv'
  BY <1>1, <1>3 DEF Arrive
<1>4. ASSUME NEW i \in Pid, ChildStep(i) PROVE HelperInv'
  <2>1. CASE Recv(i)
    BY <2>1 DEF Recv, Running, Step, Die, TypeOK
  <2>2. CASE OpenPipe(i)
    BY <2>2 DEF OpenPipe, Running, Step, TypeOK
  <2>3. CASE ClosePipe(i)
    BY <2>3 DEF ClosePipe, Running, Step, TypeOK
  <2>4. CASE Send(i)
    BY <2>4 DEF Send, Running, Step, Die, TypeOK
  <2>5. CASE Exit(i)
    BY <2>5 DEF Exit, Running, Die, TypeOK
  <2>6. QED BY <1>4, <2>1, <2>2, <2>3, <2>4, <2>5 DEF ChildStep
<1>5. ASSUME NEW i \in Pid, HelperExits(i) PROVE HelperInv'
  BY <1>5 DEF HelperExits, TypeOK
<1>6. ASSUME NEW p \in Procs, HandlerStarts(p) PROVE HelperInv'
  BY <1>6 DEF HandlerStarts
<1>7. ASSUME NEW p \in Procs, HandlerLoops(p) PROVE HelperInv'
  <2>1. ASSUME NEW z \in Zombies(p), Reap(p, z) PROVE HelperInv'
    BY <2>1 DEF Reap, Zombies, TypeOK
  <2>2. QED BY <1>1, <1>7, <2>1 DEF HandlerLoops
<1>8. CASE UNCHANGED vars
  BY <1>1, <1>8 DEF vars
<1>9. QED BY <1>2, <1>3, <1>4, <1>5, <1>6, <1>7, <1>8 DEF Next

(* No child ends before its command has ended and been waited for, also    *)
(* when the inherited SIGCHLD handler reaps the helper before pclose().    *)
THEOREM HelperAlways == Spec => []HelperNeverOutlivesChild
<1>1. Init => HelperInv
  BY DEF Init, HelperInv
<1>2. HelperInv => HelperNeverOutlivesChild
  BY DEF HelperInv, HelperNeverOutlivesChild, Alive
<1>3. QED BY <1>1, <1>2, TypeInit, TypeInductive, HelperInductive, PTL DEF Spec
-----------------------------------------------------------------------------
(* The set-up leaves the loop with the socket of the current address only. *)
SetupInv ==
  sockets = IF main \in {"getaddrinfo", "bind", "exit 1", "exit 2"} THEN {} ELSE {address}

LEMMA SetupInductive == SetupInv /\ [Next]_vars => SetupInv'
<1> SUFFICES ASSUME SetupInv, [Next]_vars PROVE SetupInv'
  OBVIOUS
<1> USE DEF SetupInv, setupVars
<1>1. CASE ServerStep
  BY <1>1
     DEF ServerStep, GetAddrInfo, TryAddress, NextAddress, NoAddress, Listen, SigAction, Quit,
         Accept, Fork, CloseConnection
<1>2. ASSUME NEW c \in Client, Arrive(c) PROVE SetupInv'
  BY <1>2 DEF Arrive
<1>3. ASSUME NEW i \in Pid, ChildStep(i) \/ HelperExits(i) PROVE SetupInv'
  BY <1>3 DEF ChildStep, Recv, OpenPipe, ClosePipe, Send, Exit, Step, Die, HelperExits
<1>4. ASSUME NEW p \in Procs, HandlerStarts(p) \/ HandlerLoops(p) PROVE SetupInv'
  BY <1>4 DEF HandlerStarts, HandlerLoops
<1>5. CASE UNCHANGED vars
  BY <1>5 DEF vars
<1>6. QED BY <1>1, <1>2, <1>3, <1>4, <1>5 DEF Next

(* A serving parent has one listening socket, a failed one none. *)
THEOREM ListenerAlways == Spec => []OneListener
<1>1. Init => SetupInv
  BY DEF Init, SetupInv
<1>2. SetupInv => OneListener
  <2>1. Cardinality({address}) = 1
    BY FS_Singleton
  <2>2. QED BY <2>1 DEF SetupInv, OneListener
<1>3. QED BY <1>1, <1>2, SetupInductive, PTL DEF Spec
=============================================================================

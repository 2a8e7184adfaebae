----------------------------- MODULE Application -----------------------------
(***************************************************************************)
(* The executable of cpp/gtp_library: what the linker takes into it, its   *)
(* static initialisers, application::run over the registered programs, and *)
(* the one program that is registered, real_socket_test, as the echo       *)
(* server, with its --client counterpart in a second process.              *)
(***************************************************************************)
EXTENDS Naturals, Sequences, SequencesExt

VARIABLES
  phase,         \* "startup", "run", "server", "exit" or "done"
  todo,          \* files whose static initialisers have not run
  sub_programs,  \* the global vector, by names
  library,       \* "down", "up" or "ended": mysql_library_init and _end
  next,          \* index of the program that run() calls next
  ran,           \* history: the programs run() has called
  server,        \* statement of real_socket_test --server
  client,        \* statement of real_socket_test --client; "away" before it
  wire,          \* pieces sent to the server and not read yet
  echo,          \* pieces sent to the client; it reads none of them
  link           \* the connection: "none", "up", "eof" or "reset"

startVars == <<todo, sub_programs, library, next, ran>>
netVars == <<server, client, wire, echo, link>>
vars == <<phase, startVars, netVars>>
-----------------------------------------------------------------------------
(* Mutant of Sources: the programs come before the file with the vector.   *)
SourcesSorted == <<"fast_query", "detailed_query", "real_socket_test", "application",
                   "main", "sub_program">>

(* The files of the executable in the order of the link line.              *)
Sources == <<"main", "application", "sub_program", "fast_query", "detailed_query",
             "real_socket_test">>

(* The members of the library it is linked with, a static archive: one is  *)
(* taken only if something that is linked refers to it.                    *)
Archive == <<"debugging_utils", "interface", "mysql_driver", "mysql_result_set",
             "mysql_connection">>

Refers(file) ==
  CASE file \in {"fast_query", "detailed_query"} -> {"mysql_connection", "mysql_result_set"}
    [] file = "mysql_connection" -> {"mysql_result_set", "interface"}
    [] file = "mysql_result_set" -> {"interface"}
    [] OTHER -> {}

Needed(files) == UNION {Refers(f) : f \in files}
Members ==
  LET direct == Needed(ToSet(Sources))
  IN  direct \cup Needed(direct) \cup Needed(Needed(direct))

Linked == ToSet(Sources) \cup (ToSet(Archive) \cap Members)

Precedes(f, g) ==
  LET line == Sources \o Archive
  IN \E i, j \in DOMAIN line : line[i] = f /\ line[j] = g /\ i < j

(* REGISTER_SUB_PROGRAM: commented out in the two query programs.          *)
Registering == {"real_socket_test"}
HasInitialiser == Registering \cup {"application", "mysql_driver"}
-----------------------------------------------------------------------------
Init ==
  /\ phase = "startup"
  /\ todo = Linked \cap HasInitialiser
  /\ sub_programs = <<>>
  /\ library = "down"
  /\ next = 1
  /\ ran = <<>>
  /\ server = "bind" /\ client = "away"
  /\ wire = 0 /\ echo = 0 /\ link = "none"

(* add_main_...(): push_back.  On a vector that is not constructed yet it  *)
(* works on the zeroes of static storage.                                  *)
Register(file) ==
  /\ file \in Registering
  /\ sub_programs' = Append(sub_programs, file)
  /\ UNCHANGED library

(* The constructor of sub_programs: what was pushed before is lost, unless *)
(* the compiler made it part of the static storage.                        *)
ConstructVector(file) ==
  /\ file = "application"
  /\ sub_programs' \in {<<>>, sub_programs}
  /\ UNCHANGED library

(* mysql_driver_is_initialized = mysql_driver::initialize().               *)
InitialiseDriver(file) ==
  /\ file = "mysql_driver"
  /\ library' = "up"
  /\ UNCHANGED sub_programs

(* The initialisers run in the order of the link line: so does the GNU     *)
(* linker arrange them, where C++ leaves the order of the files open.      *)
StaticInit ==
  /\ phase = "startup"
  /\ \E file \in todo :
       /\ \A g \in todo \ {file} : Precedes(file, g)
       /\ todo' = todo \ {file}
       /\ Register(file) \/ ConstructVector(file) \/ InitialiseDriver(file)
  /\ UNCHANGED <<phase, next, ran, netVars>>

(* main(), after every initialiser. *)
Main ==
  /\ phase = "startup"
  /\ todo = {}
  /\ phase' = "run"
  /\ UNCHANGED <<startVars, netVars>>

(* The loop of application::run: program.ptr(program.args). *)
RunProgram ==
  /\ phase = "run"
  /\ next <= Len(sub_programs)
  /\ ran' = Append(ran, sub_programs[next])
  /\ next' = next + 1
  /\ phase' = "server"
  /\ server' = "bind"
  /\ UNCHANGED <<todo, sub_programs, library, client, wire, echo, link>>

RunReturns ==
  /\ phase = "run"
  /\ next > Len(sub_programs)
  /\ phase' = "exit"
  /\ UNCHANGED <<startVars, netVars>>

(* Static destructors: that of the driver's singleton ends the library.    *)
Exit ==
  /\ phase = "exit"
  /\ phase' = "done"
  /\ library' = IF library = "up" THEN "ended" ELSE library
  /\ UNCHANGED <<todo, sub_programs, next, ran, netVars>>
-----------------------------------------------------------------------------
InServer(label) == phase = "server" /\ server = label

(* Every way out of the server program, the two catch blocks included,     *)
(* closes its sockets and returns EXIT_SUCCESS.                            *)
ServerReturns == server' = "returned" /\ phase' = "run"

(* The acceptor binds the port and listens, or throws. *)
Bind ==
  /\ InServer("bind")
  /\ \/ server' = "accept" /\ UNCHANGED phase
     \/ ServerReturns
  /\ UNCHANGED <<startVars, client, wire, echo, link>>

(* a.accept() waits for a client; the kernel completes its connection. *)
Accept ==
  /\ InServer("accept")
  /\ link # "none"
  /\ server' = "read"
  /\ UNCHANGED <<phase, startVars, client, wire, echo, link>>

(* Mutant of ReadSome: an error other than the end is not looked at.       *)
IgnoresErrors ==
  /\ InServer("read")
  /\ \/ \E n \in 1 .. wire :
          wire' = wire - n /\ server' = "write" /\ UNCHANGED phase
     \/ wire = 0 /\ link = "eof" /\ ServerReturns /\ UNCHANGED wire
     \/ link = "reset" /\ UNCHANGED <<server, phase, wire>>
  /\ UNCHANGED <<startVars, client, echo, link>>

(* sock.read_some(): some of what has arrived; the end of the stream once  *)
(* all of it was read; or an error, and with it what was not read is lost. *)
ReadSome ==
  /\ InServer("read")
  /\ \/ \E n \in 1 .. wire :
          wire' = wire - n /\ server' = "write" /\ UNCHANGED phase
     \/ wire = 0 /\ link = "eof" /\ ServerReturns /\ UNCHANGED wire
     \/ link = "reset" /\ ServerReturns /\ UNCHANGED wire
  /\ UNCHANGED <<startVars, client, echo, link>>

(* asio::write(): all of the buffer, or it throws.  Writing to a client    *)
(* that is gone may succeed; the answer is a reset, which may take a while.*)
Write ==
  /\ InServer("write")
  /\ \/ link = "up" /\ server' = "read" /\ echo' = echo + 1 /\ UNCHANGED <<phase, link>>
     \/ /\ link = "eof" /\ link' \in {"eof", "reset"}
        /\ server' = "read" /\ UNCHANGED <<phase, echo>>
     \/ link # "up" /\ ServerReturns /\ UNCHANGED <<echo, link>>
  /\ UNCHANGED <<startVars, client, wire>>
-----------------------------------------------------------------------------
(* A user starts the client: the other branch of the program, as a process *)
(* of its own.                                                             *)
ClientStarts ==
  /\ client = "away"
  /\ client' = "connect"
  /\ UNCHANGED <<phase, startVars, server, wire, echo, link>>

(* socket.connect() is refused unless the server listens. *)
ClientConnects ==
  /\ client = "connect"
  /\ IF InServer("accept")
     THEN client' = "send1" /\ link' = "up"
     ELSE client' = "gone" /\ UNCHANGED link
  /\ UNCHANGED <<phase, startVars, server, wire, echo>>

(* socket.send(): of the size first, of the text then.  With the server    *)
(* gone it throws.                                                         *)
ClientSends ==
  /\ client \in {"send1", "send2"}
  /\ \/ /\ link = "up"
        /\ wire' = wire + 1
        /\ client' = IF client = "send1" THEN "send2" ELSE "close"
     \/ link = "reset" /\ client' = "gone" /\ UNCHANGED wire
  /\ UNCHANGED <<phase, startVars, server, echo, link>>

(* The destructor closes the socket: a reset if an echo was not read, and  *)
(* the client reads none.                                                  *)
ClientCloses ==
  /\ client = "close"
  /\ client' = "gone"
  /\ link' = IF link = "up" /\ echo = 0 THEN "eof" ELSE "reset"
  /\ UNCHANGED <<phase, startVars, server, wire, echo>>

(* The network may break the connection. *)
LinkBreaks ==
  /\ link = "up"
  /\ link' = "reset"
  /\ UNCHANGED <<phase, startVars, server, client, wire, echo>>

Step ==
  \/ StaticInit \/ Main \/ RunProgram \/ RunReturns \/ Exit
  \/ Bind \/ Accept \/ ReadSome \/ Write
  \/ ClientConnects \/ ClientSends \/ ClientCloses

Next == Step \/ ClientStarts \/ LinkBreaks

Spec == Init /\ [][Next]_vars /\ WF_vars(Step)
-----------------------------------------------------------------------------
(* Every file that registers a program has it run, once, before the        *)
(* executable ends, as the list of sources in CMakeLists.txt and the order *)
(* of the link line have it: the vector has to be constructed before the   *)
(* first program is pushed, so application.cpp must stay before the        *)
(* programs.  "sub_programs Will be populated by each CPP that links into  *)
(* the executable.  The main function of the executable will start all     *)
(* these subprograms."                                                     *)
EveryProgramRuns ==
  phase \in {"exit", "done"} =>
    ToSet(ran) = Linked \cap Registering /\ IsInjective(ran)

(* The MySQL library is initialised whenever a program runs: the class     *)
(* mysql_driver "automatically initiates and ends the mysql library".      *)
LibraryIsUp == phase \in {"run", "server"} => library = "up"

Ended == phase = "done"
WaitsForClient == InServer("accept") /\ link = "none"
=============================================================================

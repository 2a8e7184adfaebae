---------------------------- MODULE PeriodicRunner ----------------------------
(***************************************************************************)
(* shell/crontab_second.sh, started again and again by cron: an instance   *)
(* gives up if there is a pid file, or creates it and runs a command every *)
(* few seconds; traps remove the file when the instance ends.              *)
(*                                                                         *)
(* Every line of the script is a step of its own, for instances overlap.   *)
(* A trap that ends with "exit" sets off the EXIT trap, and an rm that     *)
(* fails inside that one may set off the ERR trap: one end of an instance  *)
(* runs rm up to three times.                                              *)
(***************************************************************************)
EXTENDS Naturals

CONSTANTS
  Instance,    \* processes; one that is gone may be started again
  None,        \* no pid file
  MaxSignals   \* bound: signals sent to instances

RunnerAssumption ==
  /\ None \notin Instance
  /\ MaxSignals \in Nat

VARIABLES
  pid_file,   \* whose pid the file holds, or None
  at,         \* the next line of each instance, "gone" if there is none
  arguments,  \* whether cron's line gives a number and a command
  signals,    \* signals sent so far
  killed      \* history: whether one of them was SIGKILL

vars == <<pid_file, at, arguments, signals, killed>>

(* Mutant of Trapped: the trap is set after the checks of the parameters. *)
TrappedLate == {"command", "sleep"}

(* Where the trap is set, and has not run yet. *)
Trapped == {"create", "arguments", "command", "sleep"}

Init ==
  /\ pid_file = None
  /\ at = [i \in Instance |-> "gone"]
  /\ arguments \in {"good", "bad"}
  /\ signals = 0
  /\ killed = FALSE

Goto(i, line) == at' = [at EXCEPT ![i] = line] /\ UNCHANGED <<arguments, signals, killed>>

(* cron. *)
Start(i) == at[i] = "gone" /\ Goto(i, "check") /\ UNCHANGED pid_file

(* if [ -f $pid_file ]; then exit 1: no trap is set yet. *)
Check(i) ==
  /\ at[i] = "check"
  /\ Goto(i, IF pid_file = None THEN "trap" ELSE "gone")
  /\ UNCHANGED pid_file

SetTrap(i) == at[i] = "trap" /\ Goto(i, "create") /\ UNCHANGED pid_file

(* echo $$ > "$pid_file", which overwrites what is there. *)
Create(i) ==
  /\ at[i] = "create"
  /\ Goto(i, "arguments")
  /\ pid_file' = i

(* exit 2 or exit 3 set off the EXIT trap. *)
CheckArguments(i) ==
  /\ at[i] = "arguments"
  /\ Goto(i, IF arguments = "good" THEN "command" ELSE "exit trap")
  /\ UNCHANGED pid_file

(* The command fails or not; failure sets off the ERR trap. *)
Command(i) ==
  /\ at[i] = "command"
  /\ Goto(i, "sleep") \/ Goto(i, "first trap")
  /\ UNCHANGED pid_file

Sleep(i) == at[i] = "sleep" /\ Goto(i, "command") /\ UNCHANGED pid_file

(* rm $pid_file; exit, in the trap of a signal or of ERR ...               *)
FirstTrap(i) == at[i] = "first trap" /\ Goto(i, "exit trap") /\ pid_file' = None

(* Mutant of ExitTrap: it removes nothing. *)
ExitOnly(i) == at[i] = "exit trap" /\ Goto(i, "gone") /\ UNCHANGED pid_file

(* ... and in the EXIT trap, which may set off one more when it fails.     *)
ExitTrap(i) ==
  /\ at[i] = "exit trap"
  /\ \/ Goto(i, "gone")
     \/ pid_file = None /\ Goto(i, "last trap")
  /\ pid_file' = None

LastTrap(i) == at[i] = "last trap" /\ Goto(i, "gone") /\ pid_file' = None

(* SIGQUIT, SIGINT or SIGTERM.  Before the trap is set the process ends;   *)
(* while a trap runs, a signal is not modelled.                            *)
Signal(i) ==
  /\ signals < MaxSignals
  /\ signals' = signals + 1
  /\ at[i] \in {"check", "trap", "create", "arguments", "command", "sleep"}
  /\ at' = [at EXCEPT ![i] = IF at[i] \in Trapped THEN "first trap" ELSE "gone"]
  /\ UNCHANGED <<pid_file, arguments, killed>>

(* SIGKILL, or the power fails: no trap runs. *)
Kill(i) ==
  /\ signals < MaxSignals
  /\ signals' = signals + 1
  /\ at[i] # "gone"
  /\ at' = [at EXCEPT ![i] = "gone"]
  /\ killed' = TRUE
  /\ UNCHANGED <<pid_file, arguments>>

ScriptStep(i) == Check(i) \/ SetTrap(i) \/ Create(i) \/ CheckArguments(i) \/ Command(i)
                 \/ Sleep(i) \/ FirstTrap(i) \/ ExitTrap(i) \/ LastTrap(i)

Next == \E i \in Instance : Start(i) \/ ScriptStep(i) \/ Signal(i) \/ Kill(i)

Spec == Init /\ [][Next]_vars

(* cron starts the script every minute; processes run; the command ends.   *)
FairSpec ==
  /\ Spec
  /\ WF_vars(\E i \in Instance : Start(i))
  /\ \A i \in Instance : WF_vars(ScriptStep(i))
-----------------------------------------------------------------------------
Running(i) == at[i] \in {"command", "sleep"}

(* "remove it when process dies": as long as nothing was killed, a pid     *)
(* file means that the instance that wrote it last is alive and will still *)
(* remove it, however starts and ends of several instances overlap - so a  *)
(* start is refused only because of an instance that is there.             *)
FileHasOwner ==
  ~killed /\ pid_file # None =>
    at[pid_file] \in {"arguments", "command", "sleep", "first trap", "exit trap"}

(* After every stop but a kill an instance runs again, whatever the        *)
(* command returns.                                                        *)
StaysAliveUnlessKilled ==
  arguments = "good" /\ []~killed => []<>(\E i \in Instance : Running(i))

(* "There can be only one instance of this script, running". *)
OnlyOneInstance == \A i, j \in Instance : Running(i) /\ Running(j) => i = j
=============================================================================

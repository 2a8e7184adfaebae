------------------------------ MODULE MC_Programs ------------------------------
(* The programs that run on their own, for TLC: which one runs is chosen   *)
(* at the start, and the others stay where they begin.                     *)
EXTENDS BalanceIndex, Sequences

CONSTANTS
  Width, CharSize, MaxTyped,
  Chars, MaxLength, LongHalf, ShortHalf,
  conn, rs1, rs2, Programs, Result, NULL, MaxRows, MaxQueries,
  MaxImages, Heights,
  Jobs, MaxRegistrations

VARIABLES
  program,
  step, typed, bits, bit_position, shown, bitCode,
  input, version, running, pos, number, pow_of_ten, number_sign, test_status, testCode,
  live, is_initialized, mysql, result_set, heap, queries, promised, pc, crashed,
  phase, todo, sub_programs, library, next, ran, server, client, wire, echo, link,
  mode, images, current_row, scroll_top, h, remaining, success, errors,
  op, runner, registered, job, stage, containers, dirs, gone, ended

B == INSTANCE BitProcessor WITH value <- bits, code <- bitCode
D == INSTANCE DigitStrings WITH code <- testCode
Q == INSTANCE QueryPrograms WITH
       Conn <- {conn}, Rs <- {rs1, rs2}, InitMayFail <- FALSE, Reuse <- TRUE
A == INSTANCE Application
C == INSTANCE ImageCleaner
E == INSTANCE PodmanExecutor

ASSUME InputAssumption ==
  /\ B!BitAssumption /\ D!DigitAssumption
  /\ Q!WrapperAssumption /\ Q!ProgramAssumption
  /\ C!CleanerAssumption /\ E!ExecutorAssumption

bitVars == <<step, typed, bits, bit_position, shown, bitCode>>
digitVars == <<input, version, running, pos, number, pow_of_ten, number_sign,
               test_status, testCode>>
queryVars == <<live, is_initialized, mysql, result_set, heap, queries, promised,
               pc, crashed>>
applicationVars == <<phase, todo, sub_programs, library, next, ran, server, client,
                     wire, echo, link>>
cleanerVars == <<mode, images, current_row, scroll_top, h, remaining, success, errors>>
executorVars == <<op, runner, registered, job, stage, containers, dirs, gone, ended>>
allVars == <<program, vars, bitVars, digitVars, queryVars, applicationVars,
             cleanerVars, executorVars>>

(* A program that does not run stays where it begins, if there is a choice *)
(* at one fixed place.                                                     *)
MCInit ==
  /\ program \in {"balance", "bits", "digits", "query", "application", "cleaner",
                  "executor"}
  /\ program = "balance" \/ value = -1
  /\ program = "bits" \/ typed = <<0, 0>>
  /\ program = "digits" \/ input = <<>>
  /\ program = "query" \/ pc = "u_connection"
  /\ program = "cleaner" \/ (images = <<>> /\ h = 8)
  /\ Init /\ B!Init /\ D!Init /\ Q!ProgInit /\ A!Init /\ C!Init /\ E!Init

Others(name) ==
  /\ program = name
  /\ UNCHANGED program
  /\ name # "balance" => UNCHANGED vars
  /\ name # "bits" => UNCHANGED bitVars
  /\ name # "digits" => UNCHANGED digitVars
  /\ name # "query" => UNCHANGED queryVars
  /\ name # "application" => UNCHANGED applicationVars
  /\ name # "cleaner" => UNCHANGED cleanerVars
  /\ name # "executor" => UNCHANGED executorVars

(* Steps of programs that nobody has to ask for. *)
MCStep ==
  \/ Others("balance") /\ Next
  \/ Others("bits") /\ B!Next
  \/ Others("digits") /\ D!Next
  \/ Others("query") /\ Q!ProgNext
  \/ Others("application") /\ A!Step

(* Steps of users, of the network and of a menu. *)
MCNext ==
  \/ MCStep
  \/ Others("application") /\ (A!ClientStarts \/ A!LinkBreaks)
  \/ Others("cleaner") /\ C!Next
  \/ Others("executor") /\ E!Next

MCSpec == MCInit /\ [][MCNext]_allVars /\ WF_allVars(MCStep)
-----------------------------------------------------------------------------
OneBitChanges == B!OneBitChanges
DigitsAreRead == D!DigitsAreRead
DetailedNeverCrashes == Q!DetailedNeverCrashes
NothingLeaks == Q!NothingLeaks
EveryProgramRuns == A!EveryProgramRuns
MenuFits == C!MenuFits
JobsLeaveNothing == E!JobsLeaveNothing

(* Every loop ends, also when a position or a power of ten has overflown   *)
(* or a call has failed, and the programs return; a query program may      *)
(* crash instead.  So does the executable: the loop that echoes is left    *)
(* wherever the client stops sending, closes with the echo unread, or the  *)
(* connection breaks.  Only if no client ever comes does it wait for one   *)
(* for ever.                                                               *)
ProgramsReturn ==
  \/ <>(CASE program = "balance" -> line = "done"
          [] program = "bits" -> step = "done"
          [] program = "digits" -> testCode # -1
          [] program = "query" -> pc = "done" \/ crashed
          [] program = "application" -> A!Ended
          [] OTHER -> TRUE)
  \/ <>[]A!WaitsForClient
=============================================================================

--------------------------- MODULE CondVarBarrier ---------------------------
(***************************************************************************)
(* cpp/barrier_with_condition_variable.cpp: worker threads meet at a       *)
(* barrier made of a counter c, a mutex shared_mtx and a condition         *)
(* variable cv; every line of output is printed under a second mutex,      *)
(* cout_mtx, which LOG also takes while shared_mtx is held.                *)
(*                                                                         *)
(* The program starts two workers and waits for c == 2.  Here the workers  *)
(* are a set and Target is the literal of the predicate.                   *)
(***************************************************************************)
EXTENDS Integers, FiniteSets

CONSTANTS
  Workers,   \* the worker threads that main starts
  Main,      \* the main thread
  NoOwner,   \* the owner of a mutex nobody holds
  Target     \* the number the wait predicate compares c with

ASSUME ConstantsAssumption ==
  /\ IsFiniteSet(Workers)
  /\ Main \notin Workers
  /\ NoOwner \notin Workers \cup {Main}
  /\ Target = Cardinality(Workers)
  /\ Target # 0

Threads == Workers \cup {Main}

VARIABLES
  pc,           \* where each thread stands
  c,            \* the counter of arrivals
  shared_mtx,   \* the thread that holds shared_mtx
  cout_mtx      \* the thread that holds cout_mtx

vars == <<pc, c, shared_mtx, cout_mtx>>

(***************************************************************************)
(* LOG is two steps, taking cout_mtx and giving it back: Printing maps a   *)
(* label that waits for cout_mtx to the one that holds it, AfterPrinting   *)
(* the latter to the statement that follows the LOG.                       *)
(***************************************************************************)
Printing == [log_start |-> "out_start", log_end |-> "out_end",
             log_sleeping |-> "out_sleeping", log_reached |-> "out_reached",
             log_passed |-> "out_passed"]

AfterPrinting == [out_start |-> "spawn", out_end |-> "done",
                  out_sleeping |-> "sleeping", out_reached |-> "test",
                  out_passed |-> "done"]

\* Labels of a worker that owns shared_mtx, and of one that is past c++.
Holding == {"count", "notify", "log_reached", "out_reached", "test", "unlock"}
PastWait == {"unlock", "log_passed", "out_passed", "done"}
PastCount == (Holding \ {"count"}) \cup {"asleep", "relock"} \cup PastWait

Init ==
  /\ pc = [t \in Threads |-> IF t = Main THEN "log_start" ELSE "unborn"]
  /\ c = 0
  /\ shared_mtx = NoOwner
  /\ cout_mtx = NoOwner

Goto(t, label) == pc' = [pc EXCEPT ![t] = label]

(* LOG(msg): unique_lock on cout_mtx for the length of one print. *)
LogLock(t) ==
  /\ pc[t] \in DOMAIN Printing
  /\ cout_mtx = NoOwner
  /\ cout_mtx' = t
  /\ Goto(t, Printing[pc[t]])
  /\ UNCHANGED <<c, shared_mtx>>

LogUnlock(t) ==
  /\ pc[t] \in DOMAIN AfterPrinting
  /\ cout_mtx' = NoOwner
  /\ Goto(t, AfterPrinting[pc[t]])
  /\ UNCHANGED <<c, shared_mtx>>

(* main: thread t1(worker); thread t2(worker); the last one ends the list. *)
Spawn(w) ==
  /\ pc[Main] = "spawn"
  /\ pc[w] = "unborn"
  /\ pc' = [pc EXCEPT ![w] = "log_sleeping",
                      ![Main] = IF \A v \in Workers \ {w} : pc[v] # "unborn"
                                THEN "join" ELSE "spawn"]
  /\ UNCHANGED <<c, shared_mtx, cout_mtx>>

(* main: t1.join(); t2.join(); *)
Join ==
  /\ pc[Main] = "join"
  /\ \A w \in Workers : pc[w] = "done"
  /\ Goto(Main, "log_end")
  /\ UNCHANGED <<c, shared_mtx, cout_mtx>>

(* worker: sleep_for ends, at a time nobody controls. *)
WakeUp(w) ==
  /\ pc[w] = "sleeping"
  /\ Goto(w, "lock")
  /\ UNCHANGED <<c, shared_mtx, cout_mtx>>

(* worker: unique_lock<mutex> l(shared_mtx); *)
Lock(w) ==
  /\ pc[w] = "lock"
  /\ shared_mtx = NoOwner
  /\ shared_mtx' = w
  /\ Goto(w, "count")
  /\ UNCHANGED <<c, cout_mtx>>

(* worker: c++; *)
Count(w) ==
  /\ pc[w] = "count"
  /\ c' = c + 1
  /\ Goto(w, "notify")
  /\ UNCHANGED <<shared_mtx, cout_mtx>>

(* Mutants of NotifyAll: notify_one, and no notification at all. *)
NotifyOne(w) ==
  /\ pc[w] = "notify"
  /\ LET asleep == {v \in Workers : pc[v] = "asleep"}
     IN  \E v \in asleep \cup {w} :
           /\ v = w => asleep = {}
           /\ pc' = [pc EXCEPT ![v] = "relock", ![w] = "log_reached"]
  /\ UNCHANGED <<c, shared_mtx, cout_mtx>>

NotifyNobody(w) ==
  /\ pc[w] = "notify"
  /\ Goto(w, "log_reached")
  /\ UNCHANGED <<c, shared_mtx, cout_mtx>>

(* worker: cv.notify_all(); every sleeper now competes for shared_mtx. *)
NotifyAll(w) ==
  /\ pc[w] = "notify"
  /\ pc' = [t \in Threads |-> IF t = w THEN "log_reached"
                              ELSE IF pc[t] = "asleep" THEN "relock"
                              ELSE pc[t]]
  /\ UNCHANGED <<c, shared_mtx, cout_mtx>>

(* cv.wait(l, pred): the predicate holds, so wait returns with the lock... *)
WaitReturns(w) ==
  /\ pc[w] = "test"
  /\ c = Target
  /\ Goto(w, "unlock")
  /\ UNCHANGED <<c, shared_mtx, cout_mtx>>

(* Mutant of WaitSleeps: the thread goes to sleep with the lock. *)
SleepWithLock(w) ==
  /\ pc[w] = "test"
  /\ c # Target
  /\ Goto(w, "asleep")
  /\ UNCHANGED <<c, shared_mtx, cout_mtx>>

(* ... or it does not, and the thread unlocks and sleeps in one step. *)
WaitSleeps(w) ==
  /\ pc[w] = "test"
  /\ c # Target
  /\ shared_mtx' = NoOwner
  /\ Goto(w, "asleep")
  /\ UNCHANGED <<c, cout_mtx>>

(* A condition variable may wake a sleeper that nobody notified. *)
SpuriousWakeup(w) ==
  /\ pc[w] = "asleep"
  /\ Goto(w, "relock")
  /\ UNCHANGED <<c, shared_mtx, cout_mtx>>

(* Mutant of Relock: "if" instead of "while" around the wait. *)
RelockWithoutTest(w) ==
  /\ pc[w] = "relock"
  /\ shared_mtx = NoOwner
  /\ shared_mtx' = w
  /\ Goto(w, "unlock")
  /\ UNCHANGED <<c, cout_mtx>>

(* A woken thread takes the mutex back before it looks at the predicate. *)
Relock(w) ==
  /\ pc[w] = "relock"
  /\ shared_mtx = NoOwner
  /\ shared_mtx' = w
  /\ Goto(w, "test")
  /\ UNCHANGED <<c, cout_mtx>>

(* worker: the end of the scope of l. *)
Unlock(w) ==
  /\ pc[w] = "unlock"
  /\ shared_mtx' = NoOwner
  /\ Goto(w, "log_passed")
  /\ UNCHANGED <<c, cout_mtx>>

(* The process has returned from main. *)
Terminated == pc[Main] = "done" /\ UNCHANGED vars

WorkerStep(w) ==
  \/ WakeUp(w) \/ Lock(w) \/ Count(w) \/ NotifyAll(w)
  \/ WaitReturns(w) \/ WaitSleeps(w) \/ Relock(w) \/ Unlock(w)

MainStep == Join \/ \E w \in Workers : Spawn(w)

LogStep(t) == LogLock(t) \/ LogUnlock(t)

Next ==
  \/ MainStep
  \/ \E t \in Threads : LogStep(t)
  \/ \E w \in Workers : WorkerStep(w) \/ SpuriousWakeup(w)
  \/ Terminated

Spec == Init /\ [][Next]_vars

(***************************************************************************)
(* Every thread that can run is eventually scheduled.  A mutex need not be *)
(* handed over fairly: it is enough that the threads do not wake up for no *)
(* reason for ever, because every other step is taken finitely often.      *)
(***************************************************************************)
Fairness ==
  /\ WF_vars(MainStep)
  /\ \A t \in Threads : WF_vars(LogStep(t))
  /\ \A w \in Workers : WF_vars(WorkerStep(w))
  /\ <>[][\A w \in Workers : ~SpuriousWakeup(w)]_vars

FairSpec == Spec /\ Fairness
-----------------------------------------------------------------------------
(* Every variable stays in its range; the counter never exceeds Target. *)
MainLabels == {"log_start", "out_start", "spawn", "join", "log_end", "out_end", "done"}
WorkerLabels == {"unborn", "log_sleeping", "out_sleeping", "sleeping", "lock",
                 "count", "asleep", "relock"} \cup PastCount

TypeOK ==
  /\ pc \in [Threads -> MainLabels \cup WorkerLabels]
  /\ pc[Main] \in MainLabels
  /\ \A w \in Workers : pc[w] \in WorkerLabels
  /\ c \in 0 .. Target
  /\ shared_mtx \in Workers \cup {NoOwner}
  /\ cout_mtx \in Threads \cup {NoOwner}

Arrived == {w \in Workers : pc[w] \in PastCount}
Passed == {w \in Workers : pc[w] \in PastWait}

(* Both mutexes mean what they should: a thread stands inside a locked     *)
(* region exactly when it owns that mutex, so at most one does, also after *)
(* cv.wait released shared_mtx and took it back ("the mtx is used as a     *)
(* sync mechanism between threads, but also to protect the counter c").    *)
OwnersAreInside ==
  /\ \A w \in Workers : (shared_mtx = w) <=> (pc[w] \in Holding)
  /\ \A t \in Threads : (cout_mtx = t) <=> (pc[t] \in DOMAIN AfterPrinting)

(* The counter is exact: no increment is lost to a concurrent c++. *)
CounterIsExact == c = Cardinality(Arrived)

(* No wakeup is lost: once the last arrival has notified, nobody is left   *)
(* asleep on the condition variable, however arrivals, spurious wakeups    *)
(* and predicate tests interleave.                                         *)
NoLostWakeup ==
  (c = Target /\ \A w \in Workers : pc[w] # "notify")
     => \A w \in Workers : pc[w] # "asleep"

(* The program keeps the promise of a barrier. *)
R == INSTANCE Rendezvous WITH arrived <- Arrived, passed <- Passed
ImplementsRendezvous == R!Spec

(* main returns: no deadlock between the two mutexes, no lost wakeup and   *)
(* no join that waits for ever.                                            *)
MainReturns == <>(pc[Main] = "done")
=============================================================================

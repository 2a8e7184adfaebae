------------------------ MODULE CondVarBarrierProofs ------------------------
(***************************************************************************)
(* Proofs about CondVarBarrier for every finite set of workers.            *)
(***************************************************************************)
EXTENDS CondVarBarrier, FiniteSetTheorems, TLAPS

(* TypeOK with the counter left unbounded: its bound follows from the      *)
(* counter being exact.                                                    *)
Typed ==
  /\ pc \in [Threads -> MainLabels \cup WorkerLabels]
  /\ pc[Main] \in MainLabels
  /\ \A w \in Workers : pc[w] \in WorkerLabels
  /\ c \in Nat
  /\ shared_mtx \in Workers \cup {NoOwner}
  /\ cout_mtx \in Threads \cup {NoOwner}

(* A worker that is past cv.wait saw the predicate hold. *)
PassedMeansFull == Passed # {} => c = Target

IInv ==
  /\ Typed
  /\ OwnersAreInside
  /\ CounterIsExact
  /\ NoLostWakeup
  /\ PassedMeansFull
-----------------------------------------------------------------------------
(* What LOG does to a label, case by case. *)
LEMMA PrintingLabels ==
  /\ DOMAIN Printing = {"log_start", "log_end", "log_sleeping", "log_reached", "log_passed"}
  /\ DOMAIN AfterPrinting = {"out_start", "out_end", "out_sleeping", "out_reached", "out_passed"}
  /\ Printing["log_start"] = "out_start" /\ Printing["log_end"] = "out_end"
  /\ Printing["log_sleeping"] = "out_sleeping" /\ Printing["log_reached"] = "out_reached"
  /\ Printing["log_passed"] = "out_passed"
  /\ AfterPrinting["out_start"] = "spawn" /\ AfterPrinting["out_end"] = "done"
  /\ AfterPrinting["out_sleeping"] = "sleeping" /\ AfterPrinting["out_reached"] = "test"
  /\ AfterPrinting["out_passed"] = "done"
BY DEF Printing, AfterPrinting

(* A step of LOG keeps every thread on the side of c++ and of cv.wait where *)
(* it was: it never moves a worker into or out of a set of labels.          *)
LEMMA LogKeepsSides ==
  ASSUME Typed, NEW t \in Threads, LogStep(t)
  PROVE  /\ Typed'
         /\ c' = c /\ shared_mtx' = shared_mtx
         /\ \A w \in Workers : /\ (pc'[w] \in Holding) <=> (pc[w] \in Holding)
                               /\ (pc'[w] = "notify") <=> (pc[w] = "notify")
                               /\ (pc'[w] = "asleep") <=> (pc[w] = "asleep")
         /\ Arrived' = Arrived /\ Passed' = Passed
<1>1. CASE LogLock(t)
  BY <1>1, PrintingLabels, ConstantsAssumption
     DEF Typed, LogLock, Goto, Threads, MainLabels, WorkerLabels, PastCount, PastWait, Holding, Arrived, Passed
<1>2. CASE LogUnlock(t)
  BY <1>2, PrintingLabels, ConstantsAssumption
     DEF Typed, LogUnlock, Goto, Threads, MainLabels, WorkerLabels, PastCount, PastWait, Holding, Arrived, Passed
<1>3. QED BY <1>1, <1>2 DEF LogStep

(* The type part of the invariant is inductive by itself. *)
LEMMA TypedInductive == Typed /\ [Next]_vars => Typed'
<1> SUFFICES ASSUME Typed, [Next]_vars PROVE Typed'
  OBVIOUS
<1> USE ConstantsAssumption DEF Threads, MainLabels, WorkerLabels, PastCount, PastWait, Holding
<1>1. CASE Join
  BY <1>1 DEF Typed, Join, Goto
<1>2. ASSUME NEW w \in Workers, Spawn(w) PROVE Typed'
  BY <1>2 DEF Typed, Spawn
<1>3. ASSUME NEW t \in Threads, LogStep(t) PROVE Typed'
  BY <1>3, LogKeepsSides
<1>4. ASSUME NEW w \in Workers, WorkerStep(w) \/ SpuriousWakeup(w) PROVE Typed'
  <2>1. CASE WakeUp(w) BY <2>1 DEF Typed, WakeUp, Goto
  <2>2. CASE Lock(w) BY <2>2 DEF Typed, Lock, Goto
  <2>3. CASE Count(w) BY <2>3 DEF Typed, Count, Goto
  <2>4. CASE NotifyAll(w) BY <2>4 DEF Typed, NotifyAll
  <2>5. CASE WaitReturns(w) BY <2>5 DEF Typed, WaitReturns, Goto
  <2>6. CASE WaitSleeps(w) BY <2>6 DEF Typed, WaitSleeps, Goto
  <2>7. CASE Relock(w) BY <2>7 DEF Typed, Relock, Goto
  <2>8. CASE Unlock(w) BY <2>8 DEF Typed, Unlock, Goto
  <2>9. CASE SpuriousWakeup(w) BY <2>9 DEF Typed, SpuriousWakeup, Goto
  <2>10. QED BY <1>4, <2>1, <2>2, <2>3, <2>4, <2>5, <2>6, <2>7, <2>8, <2>9 DEF WorkerStep
<1>5. CASE UNCHANGED vars
  BY <1>5 DEF Typed, vars
<1>6. QED BY <1>1, <1>2, <1>3, <1>4, <1>5 DEF Next, MainStep, Terminated
-----------------------------------------------------------------------------
(* Counting: Arrived is finite, and full once its size reaches Target. *)
LEMMA ArrivedFinite ==
  /\ IsFiniteSet(Arrived)
  /\ Cardinality(Arrived) \in 0 .. Target
  /\ Cardinality(Arrived) = Target => Arrived = Workers
<1>1. Arrived \in SUBSET Workers
  BY DEF Arrived
<1>2. IsFiniteSet(Arrived) /\ Cardinality(Arrived) <= Cardinality(Workers)
      /\ (Cardinality(Workers) = Cardinality(Arrived) => Workers = Arrived)
  BY <1>1, FS_Subset, ConstantsAssumption
<1>3. Cardinality(Arrived) \in Nat /\ Cardinality(Workers) \in Nat
  BY <1>2, FS_CardinalityType, ConstantsAssumption
<1>4. QED BY <1>2, <1>3, ConstantsAssumption

(* Initially nobody has arrived. *)
LEMMA InitIInv == Init => IInv
<1> SUFFICES ASSUME Init PROVE IInv
  OBVIOUS
<1> USE ConstantsAssumption DEF Threads, MainLabels, WorkerLabels, PastCount, PastWait, Holding
<1>1. Typed
  BY DEF Init, Typed
<1>2. OwnersAreInside
  BY PrintingLabels DEF Init, OwnersAreInside
<1>3. Arrived = {} /\ Passed = {}
  BY DEF Init, Arrived, Passed
<1>4. CounterIsExact
  BY <1>3, FS_EmptySet DEF Init, CounterIsExact
<1>5. NoLostWakeup
  BY DEF Init, NoLostWakeup
<1>6. QED BY <1>1, <1>2, <1>3, <1>4, <1>5 DEF IInv, PassedMeansFull

(* Ownership of both mutexes is preserved by every step. *)
LEMMA OwnersInductive == Typed /\ OwnersAreInside /\ [Next]_vars => OwnersAreInside'
<1> SUFFICES ASSUME Typed, OwnersAreInside, [Next]_vars PROVE OwnersAreInside'
  OBVIOUS
<1> USE ConstantsAssumption, PrintingLabels
    DEF Typed, OwnersAreInside, Threads, MainLabels, WorkerLabels, PastCount, PastWait, Holding
<1>1. CASE Join
  BY <1>1 DEF Join, Goto
<1>2. ASSUME NEW w \in Workers, Spawn(w) PROVE OwnersAreInside'
  BY <1>2 DEF Spawn
<1>3. ASSUME NEW t \in Threads, LogStep(t) PROVE OwnersAreInside'
  BY <1>3 DEF LogStep, LogLock, LogUnlock, Goto
<1>4. ASSUME NEW w \in Workers, WorkerStep(w) \/ SpuriousWakeup(w) PROVE OwnersAreInside'
  <2>1. CASE WakeUp(w) BY <2>1 DEF WakeUp, Goto
  <2>2. CASE Lock(w) BY <2>2 DEF Lock, Goto
  <2>3. CASE Count(w) BY <2>3 DEF Count, Goto
  <2>4. CASE NotifyAll(w) BY <2>4 DEF NotifyAll
  <2>5. CASE WaitReturns(w) BY <2>5 DEF WaitReturns, Goto
  <2>6. CASE WaitSleeps(w) BY <2>6 DEF WaitSleeps, Goto
  <2>7. CASE Relock(w) BY <2>7 DEF Relock, Goto
  <2>8. CASE Unlock(w) BY <2>8 DEF Unlock, Goto
  <2>9. CASE SpuriousWakeup(w) BY <2>9 DEF SpuriousWakeup, Goto
  <2>10. QED BY <1>4, <2>1, <2>2, <2>3, <2>4, <2>5, <2>6, <2>7, <2>8, <2>9 DEF WorkerStep
<1>5. CASE UNCHANGED vars
  BY <1>5 DEF vars
<1>6. QED BY <1>1, <1>2, <1>3, <1>4, <1>5 DEF Next, MainStep, Terminated

(* Only Count changes who has arrived, only WaitReturns who has passed, and *)
(* the counter moves with the former.                                       *)
LEMMA SidesStep ==
  ASSUME Typed, [Next]_vars
  PROVE  \/ c' = c /\ Arrived' = Arrived /\ Passed' = Passed
         \/ \E w \in Workers : /\ c' = c + 1
                               /\ w \notin Arrived /\ Arrived' = Arrived \cup {w}
                               /\ Passed' = Passed
         \/ \E w \in Workers : /\ c' = c /\ c = Target
                               /\ Arrived' = Arrived
                               /\ w \notin Passed /\ Passed' = Passed \cup {w}
<1> DEFINE Same == c' = c /\ Arrived' = Arrived /\ Passed' = Passed
<1> USE ConstantsAssumption
    DEF Typed, Threads, MainLabels, WorkerLabels, PastCount, PastWait, Holding, Arrived, Passed
<1>1. CASE Join
  <2>1. Same BY <1>1 DEF Join, Goto
  <2>2. QED BY <2>1
<1>2. ASSUME NEW w \in Workers, Spawn(w) PROVE Same
  BY <1>2 DEF Spawn
<1>3. ASSUME NEW t \in Threads, LogStep(t) PROVE Same
  BY <1>3, LogKeepsSides
<1>4. ASSUME NEW w \in Workers,
             \/ WakeUp(w) \/ Lock(w) \/ NotifyAll(w) \/ WaitSleeps(w)
             \/ Relock(w) \/ Unlock(w) \/ SpuriousWakeup(w)
      PROVE Same
  <2>1. CASE WakeUp(w) BY <2>1 DEF WakeUp, Goto
  <2>2. CASE Lock(w) BY <2>2 DEF Lock, Goto
  <2>3. CASE NotifyAll(w) BY <2>3 DEF NotifyAll
  <2>4. CASE WaitSleeps(w) BY <2>4 DEF WaitSleeps, Goto
  <2>5. CASE Relock(w) BY <2>5 DEF Relock, Goto
  <2>6. CASE Unlock(w) BY <2>6 DEF Unlock, Goto
  <2>7. CASE SpuriousWakeup(w) BY <2>7 DEF SpuriousWakeup, Goto
  <2>8. QED BY <1>4, <2>1, <2>2, <2>3, <2>4, <2>5, <2>6, <2>7
<1>5. ASSUME NEW w \in Workers, Count(w)
      PROVE  /\ c' = c + 1
             /\ w \notin Arrived /\ Arrived' = Arrived \cup {w}
             /\ Passed' = Passed
  BY <1>5 DEF Count, Goto
<1>6. ASSUME NEW w \in Workers, WaitReturns(w)
      PROVE  /\ c' = c /\ c = Target
             /\ Arrived' = Arrived
             /\ w \notin Passed /\ Passed' = Passed \cup {w}
  BY <1>6 DEF WaitReturns, Goto
<1>7. CASE UNCHANGED vars
  <2>1. Same BY <1>7 DEF vars
  <2>2. QED BY <2>1
<1>8. QED
  <2>1. CASE \E w \in Workers : Count(w) BY <2>1, <1>5
  <2>2. CASE \E w \in Workers : WaitReturns(w) BY <2>2, <1>6
  <2>3. CASE \E w \in Workers :
               \/ WakeUp(w) \/ Lock(w) \/ NotifyAll(w) \/ WaitSleeps(w)
               \/ Relock(w) \/ Unlock(w) \/ SpuriousWakeup(w)
    BY <2>3, <1>4
  <2>4. CASE MainStep \/ \E t \in Threads : LogStep(t)
    BY <2>4, <1>1, <1>2, <1>3 DEF MainStep
  <2>5. QED BY <1>7, <2>1, <2>2, <2>3, <2>4 DEF Next, WorkerStep, Terminated

(* The counter counts; hence it reaches Target only with everyone there,   *)
(* and a worker that saw Target was not too early.                         *)
LEMMA CounterInductive ==
  Typed /\ CounterIsExact /\ PassedMeansFull /\ [Next]_vars
    => CounterIsExact' /\ PassedMeansFull'
<1> SUFFICES ASSUME Typed, CounterIsExact, PassedMeansFull, [Next]_vars
             PROVE  CounterIsExact' /\ PassedMeansFull'
  OBVIOUS
<1>1. CASE c' = c /\ Arrived' = Arrived /\ Passed' = Passed
  BY <1>1 DEF CounterIsExact, PassedMeansFull
<1>2. ASSUME NEW w \in Workers, c' = c + 1, w \notin Arrived,
             Arrived' = Arrived \cup {w}, Passed' = Passed
      PROVE  CounterIsExact' /\ PassedMeansFull'
  <2>1. Cardinality(Arrived \cup {w}) = Cardinality(Arrived) + 1
    BY <1>2, ArrivedFinite, FS_AddElement
  <2>2. c # Target
    BY <1>2, ArrivedFinite DEF CounterIsExact
  <2>3. QED BY <1>2, <2>1, <2>2 DEF CounterIsExact, PassedMeansFull
<1>3. CASE c' = c /\ c = Target /\ Arrived' = Arrived
  BY <1>3 DEF CounterIsExact, PassedMeansFull
<1>4. QED BY <1>1, <1>2, <1>3, SidesStep

(* A worker goes to sleep only while c # Target, and the one that makes     *)
(* them equal wakes every sleeper before anything else is said.             *)
LEMMA WakeupInductive == Typed /\ NoLostWakeup /\ [Next]_vars => NoLostWakeup'
<1> SUFFICES ASSUME Typed, NoLostWakeup, [Next]_vars PROVE NoLostWakeup'
  OBVIOUS
<1> USE ConstantsAssumption
    DEF Typed, NoLostWakeup, Threads, MainLabels, WorkerLabels, PastCount, PastWait, Holding
<1>1. CASE Join
  BY <1>1 DEF Join, Goto
<1>2. ASSUME NEW w \in Workers, Spawn(w) PROVE NoLostWakeup'
  BY <1>2 DEF Spawn
<1>3. ASSUME NEW t \in Threads, LogStep(t) PROVE NoLostWakeup'
  BY <1>3, LogKeepsSides
<1>4. ASSUME NEW w \in Workers, WorkerStep(w) \/ SpuriousWakeup(w) PROVE NoLostWakeup'
  <2>1. CASE WakeUp(w) BY <2>1 DEF WakeUp, Goto
  <2>2. CASE Lock(w) BY <2>2 DEF Lock, Goto
  <2>3. CASE Count(w) BY <2>3 DEF Count, Goto
  <2>4. CASE NotifyAll(w) BY <2>4 DEF NotifyAll
  <2>5. CASE WaitReturns(w) BY <2>5 DEF WaitReturns, Goto
  <2>6. CASE WaitSleeps(w) BY <2>6 DEF WaitSleeps, Goto
  <2>7. CASE Relock(w) BY <2>7 DEF Relock, Goto
  <2>8. CASE Unlock(w) BY <2>8 DEF Unlock, Goto
  <2>9. CASE SpuriousWakeup(w) BY <2>9 DEF SpuriousWakeup, Goto
  <2>10. QED BY <1>4, <2>1, <2>2, <2>3, <2>4, <2>5, <2>6, <2>7, <2>8, <2>9 DEF WorkerStep
<1>5. CASE UNCHANGED vars
  BY <1>5 DEF vars
<1>6. QED BY <1>1, <1>2, <1>3, <1>4, <1>5 DEF Next, MainStep, Terminated

(* IInv is an invariant of the program. *)
THEOREM InductiveInvariant == Spec => []IInv
<1>1. IInv /\ [Next]_vars => IInv'
  BY TypedInductive, OwnersInductive, CounterInductive, WakeupInductive DEF IInv
<1>2. QED BY InitIInv, <1>1, PTL DEF Spec

(* Type correctness: in particular c never exceeds the literal that the    *)
(* wait predicate compares it with.                                        *)
THEOREM TypeCorrect == Spec => []TypeOK
<1>1. IInv => TypeOK
  BY ArrivedFinite DEF IInv, Typed, TypeOK, CounterIsExact
<1>2. QED BY <1>1, InductiveInvariant, PTL

(* Both mutexes exclude. *)
THEOREM MutexesExclude == Spec => []OwnersAreInside
<1>1. IInv => OwnersAreInside
  BY DEF IInv
<1>2. QED BY <1>1, InductiveInvariant, PTL

(* No increment of c is lost. *)
THEOREM CounterCorrect == Spec => []CounterIsExact
<1>1. IInv => CounterIsExact
  BY DEF IInv
<1>2. QED BY <1>1, InductiveInvariant, PTL

(* No worker sleeps through the notification of the last arrival. *)
THEOREM WakeupsReach == Spec => []NoLostWakeup
<1>1. IInv => NoLostWakeup
  BY DEF IInv
<1>2. QED BY <1>1, InductiveInvariant, PTL
-----------------------------------------------------------------------------
(* The program implements the safety part of Rendezvous: c++ is Arrive,    *)
(* the return of cv.wait is Pass, everything else a stuttering step.       *)
THEOREM SafetyRefinement == Spec => R!SafetySpec
<1>1. Init => R!Init
  BY ConstantsAssumption DEF Init, R!Init, Arrived, Passed, PastCount, PastWait, Holding, Threads
<1>2. IInv /\ [Next]_vars => [R!Next]_(R!vars)
  <2> SUFFICES ASSUME IInv, [Next]_vars PROVE [R!Next]_(R!vars)
    OBVIOUS
  <2>1. CASE c' = c /\ Arrived' = Arrived /\ Passed' = Passed
    BY <2>1 DEF R!vars
  <2>2. ASSUME NEW w \in Workers, w \notin Arrived,
               Arrived' = Arrived \cup {w}, Passed' = Passed
        PROVE  R!Next
    BY <2>2 DEF R!Next, R!Arrive
  <2>3. ASSUME NEW w \in Workers, c = Target, Arrived' = Arrived,
               w \notin Passed, Passed' = Passed \cup {w}
        PROVE  R!Next
    <3>1. Arrived = Workers
      BY <2>3, ArrivedFinite DEF IInv, CounterIsExact
    <3>2. QED BY <2>3, <3>1 DEF R!Next, R!Pass
  <2>4. QED BY <2>1, <2>2, <2>3, SidesStep DEF IInv
<1>3. QED BY <1>1, <1>2, InductiveInvariant, PTL DEF Spec, R!SafetySpec
=============================================================================

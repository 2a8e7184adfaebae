---------------------------- MODULE ProgramsProofs ----------------------------
(***************************************************************************)
(* The programs that run on their own, for every value of their constants: *)
(* the balance index, the image cleaner, the jobs of the GitLab executor,  *)
(* the programs on the database, the application, the numbers of strings,  *)
(* the bits of an int, and the periodic runner, which has a run of its     *)
(* own.                                                                    *)
(***************************************************************************)
EXTENDS MC_Programs, MC_PeriodicRunner, FiniteSetTheorems, SequenceTheorems, TLAPS

-----------------------------------------------------------------------------
(* BalanceIndex: find_index() is right for arrays of any length.  Its loop *)
(* keeps the sum behind and the sum in front of the element it looks at,   *)
(* and has found no balance so far.                                        *)

(* A multiple of M that is less than M either way is zero. *)
LEMMA SmallMultiple ==
  ASSUME NEW M \in Nat, NEW q \in Int, q * M < M, -(q * M) < M
  PROVE  q = 0
<1>1. ASSUME q >= 1 PROVE q * M >= M
  BY <1>1
<1>2. ASSUME q <= -1 PROVE -(q * M) >= M
  BY <1>2
<1>3. QED  BY <1>1, <1>2

(* Division with remainder. *)
LEMMA Division ==
  ASSUME NEW M \in Nat, M > 0, NEW a \in Int
  PROVE  \E q \in Int : a = q * M + (a % M) /\ 0 <= a % M /\ a % M < M /\ a % M \in Int
<1>1. a = (a \div M) * M + (a % M) /\ (a \div M) \in Int
  OBVIOUS
<1>2. a % M \in Int /\ 0 <= a % M /\ a % M < M
  OBVIOUS
<1>3. QED  BY <1>1, <1>2

(* Numbers that are congruent and close to each other are equal. *)
LEMMA CloseResidues ==
  ASSUME NEW M \in Nat, NEW a \in Int, NEW b \in Int,
         M > 0, a - b < M, b - a < M, a % M = b % M
  PROVE  a = b
<1>1. PICK q \in Int : a = q * M + (a % M) /\ a % M \in Int
  BY Division
<1>2. PICK p \in Int : b = p * M + (b % M)
  BY Division
<1>3. a - b = q * M - p * M
  BY <1>1, <1>2
<1>4. q * M - p * M = (q - p) * M
  BY <1>1, <1>2
<1>5. q - p = 0
  <2>1. q - p \in Int /\ (q - p) * M < M /\ -((q - p) * M) < M
    BY <1>3, <1>4
  <2>2. QED  BY <2>1, SmallMultiple
<1>6. QED  BY <1>3, <1>4, <1>5

(* Numbers that differ by a multiple of M have the same residue. *)
LEMMA SameResidue ==
  ASSUME NEW M \in Nat, M > 0, NEW a \in Int, NEW b \in Int, NEW k \in Int, a - b = k * M
  PROVE  a % M = b % M
<1>1. PICK q \in Int : a = q * M + (a % M) /\ 0 <= a % M /\ a % M < M /\ a % M \in Int
  BY Division
<1>2. PICK p \in Int : b = p * M + (b % M) /\ 0 <= b % M /\ b % M < M /\ b % M \in Int
  BY Division
<1> DEFINE r == a % M
           s == b % M
<1> HIDE DEF r, s
<1>3. /\ r \in Int /\ s \in Int /\ 0 <= r /\ r < M /\ 0 <= s /\ s < M
      /\ a = q * M + r /\ b = p * M + s
  BY <1>1, <1>2 DEF r, s
<1>4. r - s = k * M - q * M + p * M
  BY <1>3
<1>5. k * M - q * M + p * M = (k - q + p) * M
  BY <1>1, <1>2
<1>6. k - q + p = 0
  <2>1. k - q + p \in Int /\ (k - q + p) * M < M /\ -((k - q + p) * M) < M
    BY <1>3, <1>4, <1>5
  <2>2. QED  BY <2>1, SmallMultiple
<1>7. r = s
  BY <1>3, <1>4, <1>5, <1>6
<1>8. QED  BY <1>7 DEF r, s

(* Adding to a residue is adding to the number. *)
LEMMA AddToResidue ==
  ASSUME NEW M \in Nat, M > 0, NEW a \in Int, NEW b \in Int
  PROVE  ((a % M) + b) % M = (a + b) % M
<1>1. PICK q \in Int : a = q * M + (a % M) /\ a % M \in Int
  BY Division
<1> DEFINE x == a + b
           y == (a % M) + b
<1>2. x \in Int /\ y \in Int /\ x - y = q * M
  BY <1>1
<1> HIDE DEF x, y
<1>3. x % M = y % M
  BY <1>2, SameResidue
<1>4. QED  BY <1>3 DEF x, y
-----------------------------------------------------------------------------
(* What find_index() has found when it is done. *)
Found ==
  \/ /\ index \in 0 .. value - 1
     /\ Balanced(index)
     /\ \A k \in 0 .. index - 1 : ~Balanced(k)
  \/ /\ index = -1
     /\ \A k \in 0 .. value - 1 : ~Balanced(k)

InputInv ==
  /\ value \in Int
  /\ upto \in [0 .. (IF value < 0 THEN 0 ELSE value) -> Sums]
  /\ upto[0] = 0

LoopInv ==
  /\ line \in {"start", "read", "find", "print", "done"}
  /\ i \in Int /\ 0 <= i
  /\ line = "start" => i = 0 /\ sum = 0
  /\ line \in {"start", "read", "find", "print"} => code = 0
  /\ line \in {"read", "find", "print"} => value >= 1
  /\ line = "read" => i <= value /\ sum = upto[i]
  /\ line = "find" =>
       /\ i <= value
       /\ sum = upto[value] - upto[i]
       /\ sum_before = upto[i] % Modulus
       /\ \A k \in 0 .. i - 1 : ~Balanced(k)
  /\ line = "print" => Found
  /\ line = "done" /\ code = 0 => Found /\ ~held

IInv == InputInv /\ LoopInv

(* The comparison in the loop is the one of the two sums. *)
LEMMA ComparesSums ==
  ASSUME IInv, line = "find", i < value
  PROVE  /\ (sum_before = (sum - Element(i)) % Modulus) <=> Balanced(i)
         /\ (sum_before + Element(i)) % Modulus = upto[i + 1] % Modulus
<1>1. /\ upto[i] \in Int /\ upto[i + 1] \in Int /\ upto[value] \in Int
      /\ -Bound <= upto[i] /\ upto[i] <= Bound
      /\ -Bound <= upto[i + 1] /\ upto[i + 1] <= Bound
      /\ -Bound <= upto[value] /\ upto[value] <= Bound
  <2>1. i \in 0 .. value /\ i + 1 \in 0 .. value /\ value \in 0 .. value /\ ~(value < 0)
    BY DEF IInv, InputInv, LoopInv
  <2>2. upto \in [0 .. value -> Sums]
    BY <2>1 DEF IInv, InputInv
  <2>3. upto[i] \in Sums /\ upto[i + 1] \in Sums /\ upto[value] \in Sums
    BY <2>1, <2>2
  <2>4. QED  BY <2>3, BalanceAssumption DEF Sums
<1> DEFINE a == upto[i]
           b == upto[i + 1]
           c == upto[value]
<1>2. /\ sum_before = a % Modulus
      /\ sum = c - a
      /\ Element(i) = b - a
      /\ Balanced(i) <=> a = c - b
  BY DEF IInv, LoopInv, Element, Balanced
<1> HIDE DEF a, b, c
<1>3. /\ a \in Int /\ b \in Int /\ c \in Int
      /\ -Bound <= a /\ a <= Bound /\ -Bound <= b /\ b <= Bound
      /\ -Bound <= c /\ c <= Bound
  BY <1>1 DEF a, b, c
<1>4. sum - Element(i) = c - b
  BY <1>2, <1>3
<1>5. a % Modulus = (c - b) % Modulus <=> a = c - b
  <2>1. a - (c - b) < Modulus /\ (c - b) - a < Modulus /\ Modulus > 0 /\ Modulus \in Nat
    BY <1>3, BalanceAssumption
  <2>2. QED  BY <2>1, <1>3, CloseResidues
<1>6. ((a % Modulus) + (b - a)) % Modulus = b % Modulus
  <2>1. Modulus > 0 /\ Modulus \in Nat
    BY BalanceAssumption
  <2> DEFINE d == b - a
  <2>2. d \in Int /\ a + d = b
    BY <1>3
  <2> HIDE DEF d
  <2>3. ((a % Modulus) + d) % Modulus = (a + d) % Modulus
    BY <2>1, <2>2, <1>3, AddToResidue
  <2>4. QED  BY <2>2, <2>3 DEF d
<1>7. QED  BY <1>2, <1>4, <1>5, <1>6 DEF b
-----------------------------------------------------------------------------
LEMMA InitHolds == Init => IInv
  BY DEF Init, Inputs, IInv, InputInv, LoopInv

LEMMA StepHolds == IInv /\ [Next]_vars => IInv'
<1> SUFFICES ASSUME IInv, [Next]_vars PROVE IInv'
  OBVIOUS
<1>1. CASE Refuse
  BY <1>1 DEF Refuse, Exit, IInv, InputInv, LoopInv
<1>2. CASE Allocate
  BY <1>2 DEF Allocate, Exit, IInv, InputInv, LoopInv
<1>3. CASE ReadInteger
  <2>1. InputInv'
    BY <1>3 DEF ReadInteger, IInv, InputInv
  <2>2. CASE i < value
    <3>1. upto[i] \in Int /\ upto[i + 1] \in Int
      BY <1>3, <2>2, BalanceAssumption DEF ReadInteger, IInv, InputInv, LoopInv, Sums
    <3>2. upto[i] + (upto[i + 1] - upto[i]) = upto[i + 1]
      BY <3>1
    <3>3. /\ line = "read" /\ line' = "read" /\ i' = i + 1 /\ value' = value
          /\ upto' = upto /\ code' = code /\ sum' = upto[i + 1]
      BY <1>3, <2>2, <3>2 DEF ReadInteger, IInv, LoopInv, Element
    <3>4. i + 1 <= value /\ value >= 1 /\ 0 <= i + 1 /\ i + 1 \in Int
      BY <2>2, <3>3 DEF IInv, InputInv, LoopInv
    <3>5. LoopInv'
      BY <3>3, <3>4 DEF IInv, LoopInv
    <3>6. QED  BY <2>1, <3>5 DEF IInv
  <2>3. CASE ~(i < value)
    <3>1. i = value /\ value \in Int /\ value >= 1
      BY <1>3, <2>3 DEF ReadInteger, IInv, InputInv, LoopInv
    <3>2. upto[value] \in Int /\ upto[0] = 0
      BY <3>1, BalanceAssumption DEF IInv, InputInv, Sums
    <3>3. upto[value] = upto[value] - upto[0]
      BY <3>2
    <3>4. 0 = upto[0] % Modulus
      BY <3>2, BalanceAssumption
    <3>5. LoopInv'
      BY <1>3, <2>3, <3>1, <3>3, <3>4 DEF ReadInteger, IInv, LoopInv
    <3>6. QED  BY <2>1, <3>5 DEF IInv
  <2>4. QED  BY <2>2, <2>3
<1>4. CASE FindStep
  <2>0. InputInv' /\ line = "find"
    BY <1>4 DEF FindStep, IInv, InputInv
  <2>1. CASE i < value /\ Balanced(i)
    <3>1. /\ index' = i /\ line' = "print" /\ i' = i /\ value' = value
          /\ upto' = upto /\ code' = code
      BY <1>4, <2>0, <2>1, ComparesSums DEF FindStep, Compare
    <3>2. Found'
      BY <3>1, <2>1, <2>0 DEF Found, Balanced, IInv, InputInv, LoopInv
    <3>3. LoopInv'
      BY <3>1, <3>2, <2>0 DEF IInv, LoopInv
    <3>4. QED  BY <2>0, <3>3 DEF IInv
  <2>2. CASE i < value /\ ~Balanced(i)
    <3>1. /\ i' = i + 1 /\ line' = "find" /\ value' = value
          /\ upto' = upto /\ code' = code
          /\ sum_before' = upto[i + 1] % Modulus
          /\ sum' = sum - Element(i)
      BY <1>4, <2>0, <2>2, ComparesSums DEF FindStep, Compare
    <3>2. i \in Int /\ 0 <= i /\ value \in Int /\ value >= 1 /\ i + 1 <= value
      BY <2>0, <2>2 DEF IInv, InputInv, LoopInv
    <3>3. sum' = upto[value] - upto[i + 1]
      <4>1. upto[i] \in Int /\ upto[i + 1] \in Int /\ upto[value] \in Int
        BY <3>2, BalanceAssumption DEF IInv, InputInv, Sums
      <4>2. sum' = (upto[value] - upto[i]) - (upto[i + 1] - upto[i])
        BY <3>1, <2>0 DEF IInv, LoopInv, Element
      <4>3. QED  BY <4>1, <4>2
    <3>4. \A k \in 0 .. i : ~Balanced(k)
      BY <3>2, <2>0, <2>2 DEF IInv, LoopInv
    <3>5. \A k \in 0 .. i' - 1 : ~Balanced(k)'
      BY <3>1, <3>2, <3>4 DEF Balanced
    <3>6. LoopInv'
      BY <3>1, <3>2, <3>3, <3>5, <2>0 DEF IInv, LoopInv
    <3>7. QED  BY <2>0, <3>6 DEF IInv
  <2>3. CASE ~(i < value)
    <3>1. /\ index' = -1 /\ line' = "print" /\ i' = i /\ value' = value
          /\ upto' = upto /\ code' = code
      BY <1>4, <2>3 DEF FindStep
    <3>2. Found'
      BY <3>1, <2>3, <2>0 DEF Found, Balanced, IInv, InputInv, LoopInv
    <3>3. LoopInv'
      BY <3>1, <3>2, <2>0 DEF IInv, LoopInv
    <3>4. QED  BY <2>0, <3>3 DEF IInv
  <2>4. QED  BY <2>1, <2>2, <2>3
<1>5. CASE Finish
  BY <1>5 DEF Finish, Exit, IInv, InputInv, LoopInv, Found, Balanced
<1>6. CASE UNCHANGED vars
  BY <1>6 DEF vars, IInv, InputInv, LoopInv, Found, Balanced
<1>7. QED  BY <1>1, <1>2, <1>3, <1>4, <1>5, <1>6 DEF Next

(* For every number of elements and every array whose sums fit, main()     *)
(* prints the index of the first element with the same sum on both sides,  *)
(* or that there is none.                                                  *)
THEOREM IndexAlways == Spec => []IndexIsFirstBalance
<1>1. IInv => IndexIsFirstBalance
  BY DEF IInv, LoopInv, Found, IndexIsFirstBalance
<1>2. QED  BY InitHolds, StepHolds, <1>1, PTL DEF Spec
-----------------------------------------------------------------------------
(* PodmanExecutor: there is one job at most, the only one that may have a  *)
(* container; a directory is that job's, or one that cleanup.sh gave up.   *)
JobInv ==
  /\ \A j, k \in job : j = k
  /\ job \cap ended = {}
  /\ containers \subseteq job
  /\ dirs \subseteq job \cup gone
  /\ stage = "none" => job = {}
  /\ stage = "remove" => containers = {}

LEMMA NoStageFollowsEnd ==
  \A s \in DOMAIN E!Following : E!Following[s] \notin {"none", "remove"}
  BY DEF E!Following

LEMMA JobInvNext == JobInv /\ [E!Next]_executorVars => JobInv'
<1> SUFFICES ASSUME JobInv, [E!Next]_executorVars PROVE JobInv'
  OBVIOUS
<1> USE DEF JobInv, E!jobVars, E!JobOnly, E!InStage
<1>1. CASE E!Register \/ E!Run \/ E!Unregister
  BY <1>1 DEF E!Register, E!Run, E!Unregister
<1>2. CASE E!Stop \/ E!RunnerDies
  BY <1>2 DEF E!Stop, E!RunnerDies, E!RunnerEnds
<1>3. CASE E!TakeJob
  BY <1>3 DEF E!TakeJob
<1>4. CASE E!PrepareDirectory \/ E!PrepareContainer
  BY <1>4 DEF E!PrepareDirectory, E!PrepareContainer
<1>5. CASE E!RunStage
  BY <1>5, NoStageFollowsEnd DEF E!RunStage
<1>6. CASE E!ContainerDies
  BY <1>6 DEF E!ContainerDies
<1>7. CASE E!CleanupStop
  BY <1>7 DEF E!CleanupStop, E!EndJob
<1>8. CASE E!CleanupRemove
  BY <1>8 DEF E!CleanupRemove, E!EndJob
<1>9. CASE UNCHANGED executorVars
  BY <1>9 DEF executorVars
<1>10. QED BY <1>1, <1>2, <1>3, <1>4, <1>5, <1>6, <1>7, <1>8, <1>9 DEF E!Next

(* However a job ends, its container is gone, and its directory is left    *)
(* behind only if there was no container to stop.                          *)
THEOREM JobsAlwaysLeave == E!Spec => []JobsLeaveNothing
<1>1. E!Init => JobInv
  BY DEF E!Init, JobInv
<1>2. JobInv /\ [E!Next]_E!executorVars => JobInv'
  BY JobInvNext DEF E!executorVars, E!jobVars, executorVars
<1>3. JobInv => JobsLeaveNothing
  BY DEF JobInv, JobsLeaveNothing, E!JobsLeaveNothing
<1>4. QED BY <1>1, <1>2, <1>3, PTL DEF E!Spec
-----------------------------------------------------------------------------
(* ImageCleaner: the arithmetic of the scroll bar.  Of m lines beside n    *)
(* rows, m * m / n are the slider's, and it begins at a line >= 0.      *)
LEMMA Quotient ==
  ASSUME NEW a \in Nat, NEW n \in Nat, n > 0
  PROVE  /\ a \div n \in Nat /\ (a \div n) * n <= a
         /\ a % n = 0 /\ a > 0 => a \div n > 0
<1> DEFINE q == a \div n
           r == a % n
<1>1. q \in Int /\ r \in Int /\ 0 <= r /\ r < n /\ a = q * n + r
  OBVIOUS
<1> HIDE DEF q, r
<1>2. ASSUME q < 0 PROVE FALSE
  <2>1. q * n <= -n
    <3>1. (q + 1) * n <= 0
      BY <1>1, <1>2
    <3>2. (q + 1) * n = q * n + n
      BY <1>1
    <3>3. QED BY <3>1, <3>2, <1>1
  <2>2. QED BY <1>1, <2>1
<1>3. q \in Nat /\ q * n <= a
  BY <1>1, <1>2
<1>4. r = 0 /\ a > 0 => q > 0
  BY <1>1, <1>3
<1>5. QED BY <1>3, <1>4 DEF q, r

LEMMA SliderIsShort ==
  ASSUME NEW m \in Nat, NEW n \in Nat, m > 0, n > m
  PROVE  (m * m) \div n < m
<1> DEFINE q == (m * m) \div n
<1>1. m * m \in Nat
  OBVIOUS
<1>2. q \in Nat /\ q * n <= m * m
  BY <1>1, Quotient
<1> HIDE DEF q
<1>3. ASSUME q >= m PROVE FALSE
  <2>1. q * n >= m * n
    BY <1>2, <1>3
  <2>2. m * n >= m * (m + 1)
    OBVIOUS
  <2>3. m * (m + 1) = m * m + m
    OBVIOUS
  <2>4. QED BY <1>1, <1>2, <2>1, <2>2, <2>3
<1>4. q < m
  BY <1>2, <1>3
<1>5. QED BY <1>4 DEF q

LEMMA TruncatedBounds ==
  ASSUME NEW a \in Nat, NEW b \in Nat, NEW c \in Nat, b > 0,
         NEW x \in C!Truncated(a, b, c)
  PROVE  x \in Nat /\ x <= (a * c) \div b
<1> DEFINE p == a * c
           q == p \div b
           full == p % b = 0 /\ p > 0
<1>1. x = q \/ (full /\ x = q - 1)
  <2>1. x \in {q} \cup (IF full THEN {q - 1} ELSE {})
    BY DEF C!Truncated
  <2> HIDE DEF full, q, p
  <2>2. x = q \/ x \in IF full THEN {q - 1} ELSE {}
    BY <2>1
  <2>3. full => x = q \/ x = q - 1
    BY <2>2
  <2>4. ~full => x = q
    BY <2>2
  <2>5. QED BY <2>3, <2>4
<1>2. p \in Nat
  OBVIOUS
<1> HIDE DEF p
<1>3. q \in Nat /\ (full => q > 0)
  BY <1>2, Quotient
<1> HIDE DEF q, full
<1>4. x \in Nat /\ x <= q
  BY <1>1, <1>3
<1>5. QED BY <1>4 DEF q, p

LEMMA MaxOfTwo == \A a, b \in Int : C!Max({a, b}) = IF a >= b THEN a ELSE b
  BY DEF C!Max
LEMMA MinOfTwo == \A a, b \in Int : C!Min({a, b}) = IF a <= b THEN a ELSE b
  BY DEF C!Min

(* Every slider that is drawn lies on the track. *)
LEMMA SliderOnTrack ==
  ASSUME NEW n \in Nat, NEW top \in Nat, NEW lines \in Nat, lines >= 7, C!HasBar(n, lines),
         NEW bar \in C!Bars(n, top, lines)
  PROVE  bar \subseteq 0 .. C!max_visible(lines) - 1
<1> DEFINE m == C!max_visible(lines)
           Height(x) == C!Max({1, x})
           Start(x, height) == IF x + height > m THEN m - height ELSE x
<1>1. m \in Nat /\ m > 0 /\ n > m
  BY DEF C!max_visible, C!HasBar
<1> DEFINE Slider(x, y) == Start(y, Height(x)) .. Start(y, Height(x)) + Height(x) - 1
<1>2. PICK x \in C!Truncated(m, n, m), y \in C!Truncated(top, n, m) : bar = Slider(x, y)
  <2>1. C!Bars(n, top, lines) =
          {Slider(x, y) : x \in C!Truncated(m, n, m), y \in C!Truncated(top, n, m)}
    BY DEF C!Bars
  <2> HIDE DEF m, Slider
  <2>2. QED BY <2>1
<1> HIDE DEF m
<1>3. x \in Nat /\ x < m
  <2>1. x \in Nat /\ x <= (m * m) \div n
    BY <1>1, TruncatedBounds
  <2>2. (m * m) \div n < m
    BY <1>1, SliderIsShort
  <2> DEFINE q == (m * m) \div n
  <2>3. q \in Nat
    BY <1>1, Quotient
  <2> HIDE DEF q
  <2>4. x \in Nat /\ x <= q /\ q < m
    BY <2>1, <2>2 DEF q
  <2>5. QED BY <1>1, <2>3, <2>4
<1>4. y \in Nat
  BY <1>1, TruncatedBounds
<1>5. Height(x) \in 1 .. m
  BY <1>1, <1>3, MaxOfTwo
<1>6. Start(y, Height(x)) \in Nat /\ Start(y, Height(x)) + Height(x) <= m
  BY <1>1, <1>4, <1>5
<1> HIDE DEF Height, Start
<1>7. bar \subseteq 0 .. m - 1
  BY <1>1, <1>2, <1>5, <1>6
<1>8. QED BY <1>7 DEF m

(* The list and its window, between two keys. *)
WindowFollows(row, top, lines) ==
  lines >= 7 => top <= row /\ row < top + C!max_visible(lines)

MenuInv ==
  /\ images \in Seq(BOOLEAN)
  /\ current_row \in Nat /\ (images # <<>> => current_row < Len(images))
  /\ scroll_top \in Nat
  /\ h \in Nat
  /\ WindowFollows(current_row, scroll_top, h)

LEMMA WindowAdjusted ==
  ASSUME NEW row \in Nat, NEW top \in Nat, NEW lines \in Nat
  PROVE  /\ C!Adjusted(row, top, lines) \in Nat
         /\ WindowFollows(row, C!Adjusted(row, top, lines), lines)
BY DEF C!Adjusted, C!max_visible, WindowFollows

LEMMA Redrawn ==
  ASSUME NEW list \in Seq(BOOLEAN), NEW row \in Nat, NEW top \in Nat, NEW lines \in Nat,
         list # <<>> => row < Len(list), C!Redraw(list, row, top, lines)
  PROVE  MenuInv'
<1>1. /\ images' = list /\ current_row' = row /\ h' = lines
      /\ scroll_top' = C!Adjusted(row, top, lines)
  BY DEF C!Redraw
<1>2. QED BY <1>1, WindowAdjusted DEF MenuInv, WindowFollows

LEMMA InventoryLists == C!Inventory \subseteq Seq(BOOLEAN)
<1> SUFFICES ASSUME NEW n \in 0 .. MaxImages, NEW list \in [1 .. n -> {FALSE}]
             PROVE  list \in Seq(BOOLEAN)
  BY DEF C!Inventory
<1>1. n \in Nat
  BY InputAssumption DEF C!CleanerAssumption
<1>2. list \in [1 .. n -> BOOLEAN]
  OBVIOUS
<1>3. QED BY <1>1, <1>2

LEMMA MenuInvInit == C!Init => MenuInv
<1> SUFFICES ASSUME C!Init PROVE MenuInv
  OBVIOUS
<1>1. images \in Seq(BOOLEAN) /\ current_row = 0 /\ h \in Nat
  BY InputAssumption, InventoryLists DEF C!Init, C!CleanerAssumption
<1>2. scroll_top = C!Adjusted(0, 0, h)
  BY DEF C!Init
<1>3. scroll_top \in Nat /\ WindowFollows(0, scroll_top, h)
  BY <1>1, <1>2, WindowAdjusted
<1>4. QED BY <1>1, <1>3 DEF MenuInv

LEMMA MenuInvNext == MenuInv /\ [C!Next]_cleanerVars => MenuInv'
<1> SUFFICES ASSUME MenuInv, [C!Next]_cleanerVars PROVE MenuInv'
  OBVIOUS
<1>1. ASSUME UNCHANGED <<images, current_row, scroll_top, h>> PROVE MenuInv'
  BY <1>1 DEF MenuInv, WindowFollows
<1>2. CASE C!KeyUp
  BY <1>2, Redrawn DEF C!KeyUp, MenuInv
<1>3. CASE C!KeyDown
  BY <1>3, Redrawn DEF C!KeyDown, MenuInv
<1>4. CASE C!Space
  <2> DEFINE list == [images EXCEPT ![current_row + 1] = ~@]
  <2>1. list \in Seq(BOOLEAN) /\ Len(list) = Len(images)
    <3>1. images \in Seq(BOOLEAN)
      BY DEF MenuInv
    <3>2. Len(images) \in Nat /\ images \in [1 .. Len(images) -> BOOLEAN]
      BY <3>1
    <3>3. list \in [1 .. Len(images) -> BOOLEAN]
      BY <3>2, Zenon
    <3> HIDE DEF list
    <3>4. QED BY <3>2, <3>3
  <2>2. images # <<>> /\ C!Redraw(list, current_row, scroll_top, h)
    BY <1>4 DEF C!Space
  <2> HIDE DEF list
  <2>3. QED BY <2>1, <2>2, Redrawn DEF MenuInv
<1>5. CASE C!OtherKey
  <2>1. PICK lines \in Heights : C!Redraw(images, current_row, scroll_top, lines)
    BY <1>5 DEF C!OtherKey
  <2>2. lines \in Nat
    BY InputAssumption DEF C!CleanerAssumption
  <2>3. QED BY <2>1, <2>2, Redrawn DEF MenuInv
<1>6. CASE C!Reload
  <2>1. ASSUME NEW list \in C!Inventory, NEW lines \in Heights, C!Redraw(list, 0, 0, lines)
        PROVE  MenuInv'
    <3>1. lines \in Nat /\ list \in Seq(BOOLEAN)
      BY InputAssumption, InventoryLists DEF C!CleanerAssumption
    <3>2. list # <<>> => 0 < Len(list)
      BY <3>1
    <3>3. QED BY <2>1, <3>1, <3>2, Redrawn
  <2>2. QED BY <1>1, <1>6, <2>1 DEF C!Reload
<1>7. CASE C!Enter \/ C!Confirm \/ C!Rmi \/ C!Summary \/ C!Quit
  BY <1>1, <1>7 DEF C!Enter, C!Confirm, C!Rmi, C!Summary, C!Quit
<1>8. CASE UNCHANGED cleanerVars
  BY <1>1, <1>8 DEF cleanerVars
<1>9. QED BY <1>2, <1>3, <1>4, <1>5, <1>6, <1>7, <1>8 DEF C!Next

(* In a terminal that has room for a row, the highlighted row is shown and *)
(* the slider lies beside the rows, for lists and terminals of any size.   *)
THEOREM MenuAlwaysFits == C!Spec => []MenuFits
<1>1. MenuInv /\ [C!Next]_C!cleanerVars => MenuInv'
  BY MenuInvNext DEF C!cleanerVars, cleanerVars
<1>2. MenuInv => MenuFits
  <2> SUFFICES ASSUME MenuInv, h >= 7
               PROVE  /\ images # <<>> =>
                           current_row \in C!Shown(Len(images), scroll_top, h)
                      /\ C!HasBar(Len(images), h) =>
                           \A bar \in C!Bars(Len(images), scroll_top, h) :
                             bar \subseteq 0 .. C!max_visible(h) - 1
    BY DEF MenuFits, C!MenuFits
  <2>1. ASSUME images # <<>> PROVE current_row \in C!Shown(Len(images), scroll_top, h)
    <3> DEFINE end == scroll_top + C!max_visible(h)
    <3>1. /\ end \in Nat /\ Len(images) \in Nat /\ current_row \in Nat
          /\ scroll_top \in Nat /\ scroll_top <= current_row
          /\ current_row < end /\ current_row < Len(images)
      BY <2>1 DEF MenuInv, WindowFollows, C!max_visible
    <3>2. C!Shown(Len(images), scroll_top, h) = scroll_top .. C!Min({Len(images), end}) - 1
      BY <3>1 DEF C!Shown
    <3> HIDE DEF end
    <3>3. QED BY <3>1, <3>2, MinOfTwo
  <2>2. QED BY <2>1, SliderOnTrack DEF MenuInv
<1>3. QED BY <1>1, <1>2, MenuInvInit, PTL DEF C!Spec
-----------------------------------------------------------------------------
(* QueryPrograms: what the tables of the programs have in common.  A       *)
(* wrapper may have a result at the labels between the store into it and   *)
(* the end of its scope, and nothing is stored into it there.              *)
HeldAt(r) ==
  IF r = rs1 THEN {"w_fetch", "w_lengths", "w_free", "f_fetch1", "f_query2", "f_store2",
                   "f_fetch2", "f_free2", "f_free1", "u_fetch", "u_free"}
             ELSE {"f_fetch2", "f_free2"}

StoresOnce(label, s) ==
  /\ s.do \in {"result", "store", "fetch", "lengths", "free"} => s.of \in {rs1, rs2}
  /\ s.do = "store" => label \notin HeldAt(s.of)
  /\ s.do = "store" => s.yes \in HeldAt(s.of) /\ s.no \in HeldAt(s.of)
  /\ \A r \in {rs1, rs2}, n \in {s.yes, s.no} \ {"crash"} :
       label \in HeldAt(r) /\ ~(s.do = "free" /\ s.of = r) => n \in HeldAt(r)

(* Detailed_query reads from what it has stored, and asks for lengths when *)
(* it has a row.                                                           *)
LooksBefore(label, s) ==
  /\ s.yes # "crash" /\ (s.no = "crash" => label \in {"w_lengths", "f_fetch2"})
  /\ "w_store" \in {s.yes, s.no} => s.do = "result" /\ s.of = rs1
  /\ s.no \notin {"w_fetch", "w_lengths"}
  /\ s.yes = "w_fetch" => label \in {"w_store", "w_lengths"}
  /\ s.yes = "w_lengths" => label = "w_fetch"
  /\ label \in {"w_store", "w_fetch", "w_lengths"} => s.of = rs1
  /\ (label = "w_store" <=> s.do = "store" /\ label \in DOMAIN Q!Detailed)
  /\ (label = "w_fetch" <=> s.do = "fetch" /\ label \in DOMAIN Q!Detailed)
  /\ (label = "w_lengths" <=> s.do = "lengths")

LEMMA DetailedTable ==
  \A l \in DOMAIN Q!Detailed :
    StoresOnce(l, Q!Detailed[l]) /\ LooksBefore(l, Q!Detailed[l])
<1> USE InputAssumption DEF Q!ProgramAssumption
<1>1. \A l \in DOMAIN Q!Detailed : StoresOnce(l, Q!Detailed[l])
  BY DEF Q!Detailed, StoresOnce, HeldAt
<1>2. \A l \in DOMAIN Q!Detailed : LooksBefore(l, Q!Detailed[l])
  BY DEF Q!Detailed, LooksBefore
<1>3. QED BY <1>1, <1>2

LEMMA FastTable ==
  \A l \in DOMAIN Q!Fast :
    l \notin DOMAIN Q!Detailed /\ StoresOnce(l, Q!Fast[l]) /\ LooksBefore(l, Q!Fast[l])
<1> USE InputAssumption DEF Q!ProgramAssumption
<1>1. \A l \in DOMAIN Q!Fast : l \notin DOMAIN Q!Detailed
  BY DEF Q!Detailed, Q!Fast
<1>2. \A l \in DOMAIN Q!Fast : StoresOnce(l, Q!Fast[l])
  BY DEF Q!Fast, StoresOnce, HeldAt
<1>3. \A l \in DOMAIN Q!Fast : LooksBefore(l, Q!Fast[l])
  BY <1>1 DEF Q!Fast, LooksBefore
<1>4. QED BY <1>1, <1>2, <1>3

LEMMA UserTable ==
  \A l \in DOMAIN Q!User :
    /\ l \notin DOMAIN Q!Detailed \cup DOMAIN Q!Fast
    /\ StoresOnce(l, Q!User[l]) /\ LooksBefore(l, Q!User[l])
<1> USE InputAssumption DEF Q!ProgramAssumption
<1>1. \A l \in DOMAIN Q!User : l \notin DOMAIN Q!Detailed \cup DOMAIN Q!Fast
  BY DEF Q!Detailed, Q!Fast, Q!User
<1>2. \A l \in DOMAIN Q!User : StoresOnce(l, Q!User[l])
  BY DEF Q!User, StoresOnce, HeldAt
<1>3. \A l \in DOMAIN Q!User : LooksBefore(l, Q!User[l])
  BY <1>1 DEF Q!User, LooksBefore
<1>4. QED BY <1>1, <1>2, <1>3

LEMMA Tables ==
  \A l \in Q!Labels : StoresOnce(l, Q!Code(l)) /\ LooksBefore(l, Q!Code(l))
<1> SUFFICES ASSUME NEW l \in Q!Labels
             PROVE  StoresOnce(l, Q!Code(l)) /\ LooksBefore(l, Q!Code(l))
  OBVIOUS
<1>1. Q!Code(l) = CASE l \in DOMAIN Q!Detailed -> Q!Detailed[l]
                    [] l \in DOMAIN Q!Fast -> Q!Fast[l]
                    [] l \in DOMAIN Q!User -> Q!User[l]
  BY DEF Q!Code, Q!Statements
<1>2. CASE l \in DOMAIN Q!Detailed
  BY <1>1, <1>2, DetailedTable, FastTable, UserTable
<1>3. CASE l \in DOMAIN Q!Fast
  BY <1>1, <1>3, DetailedTable, FastTable, UserTable
<1>4. CASE l \in DOMAIN Q!User
  BY <1>1, <1>4, DetailedTable, FastTable, UserTable
<1>5. QED BY <1>2, <1>3, <1>4 DEF Q!Labels

(* Where a statement goes, and where it may crash. *)
LEMMA Moves ==
  ASSUME pc \in Q!Labels, ~crashed, NEW n \in {Q!Code(pc).yes, Q!Code(pc).no}, Q!Goto(n)
  PROVE  \/ n # "crash" /\ pc' = n /\ ~crashed'
         \/ n = "crash" /\ n = Q!Code(pc).no /\ pc' = pc /\ crashed'
            /\ pc \in {"w_lengths", "f_fetch2"}
BY Tables DEF Q!Goto, LooksBefore

LEMMA Branches ==
  ASSUME NEW answer, Q!Branch(answer)
  PROVE  \/ answer /\ Q!Goto(Q!Code(pc).yes)
         \/ ~answer /\ Q!Goto(Q!Code(pc).no)
BY DEF Q!Branch

(* A wrapper that has a result is at a label where it may.                 *)
HeldInv ==
  /\ DOMAIN result_set = {rs1, rs2} /\ DOMAIN promised = {rs1, rs2}
  /\ \A r \in {rs1, rs2} : r \in live /\ result_set[r] # NULL => pc \in HeldAt(r)

(* A step that neither stores nor frees keeps what wrappers hold.          *)
LEMMA HeldMoves ==
  ASSUME HeldInv, pc \in Q!Labels, ~crashed,
         DOMAIN result_set' = {rs1, rs2}, DOMAIN promised' = {rs1, rs2},
         NEW n \in {Q!Code(pc).yes, Q!Code(pc).no}, Q!Goto(n),
         \A r \in {rs1, rs2} : r \in live' /\ result_set'[r] # NULL =>
           \/ r \in live /\ result_set[r] # NULL /\ ~(Q!Code(pc).do = "free" /\ Q!Code(pc).of = r)
           \/ Q!Code(pc).do = "store" /\ Q!Code(pc).of = r
  PROVE  HeldInv'
<1>1. StoresOnce(pc, Q!Code(pc))
  BY Tables
<1>2. ASSUME NEW r \in {rs1, rs2}, r \in live', result_set'[r] # NULL PROVE pc' \in HeldAt(r)
  <2>1. CASE Q!Code(pc).do = "store" /\ Q!Code(pc).of = r
    <3>1. n \in HeldAt(r)
      BY <1>1, <2>1 DEF StoresOnce
    <3>2. n # "crash"
      BY <3>1 DEF HeldAt
    <3>3. QED BY <3>1, <3>2, Moves
  <2>2. CASE r \in live /\ result_set[r] # NULL /\ ~(Q!Code(pc).do = "free" /\ Q!Code(pc).of = r)
    <3>1. pc \in HeldAt(r)
      BY <2>2 DEF HeldInv
    <3>2. QED BY <1>1, <2>2, <3>1, Moves DEF StoresOnce
  <2>3. QED BY <1>2, <2>1, <2>2
<1>3. QED BY <1>2 DEF HeldInv, HeldAt

LEMMA HeldInvNext == HeldInv /\ [Q!ProgNext]_queryVars => HeldInv'
<1> SUFFICES ASSUME HeldInv, [Q!ProgNext]_queryVars PROVE HeldInv'
  OBVIOUS
<1> USE DEF Q!At
<1>1. {conn} \cap {rs1, rs2} = {} /\ rs1 # rs2
  BY InputAssumption DEF Q!WrapperAssumption, Q!ProgramAssumption
<1>2. ASSUME Q!DeclareConnection \/ Q!LeaveConnection PROVE HeldInv'
  <2>1. Q!Goto(Q!Code(pc).yes) /\ pc \in Q!Labels /\ ~crashed
    BY <1>2, Branches DEF Q!DeclareConnection, Q!LeaveConnection
  <2>2. UNCHANGED <<result_set, promised>> /\ \A r \in {rs1, rs2} : r \in live' <=> r \in live
    BY <1>1, <1>2 DEF Q!DeclareConnection, Q!LeaveConnection, Q!ConstructConnection,
                      Q!DestroyConnection, Q!resultVars
  <2>3. Q!Code(pc).do \in {"connection", "close"}
    BY <1>2 DEF Q!DeclareConnection, Q!LeaveConnection
  <2>4. QED BY <2>1, <2>2, <2>3, HeldMoves DEF HeldInv
<1>3. ASSUME Q!CallConnect \/ Q!CallQuery PROVE HeldInv'
  <2>1. PICK n \in {Q!Code(pc).yes, Q!Code(pc).no} : Q!Goto(n)
    BY <1>3, Branches DEF Q!CallConnect, Q!CallQuery
  <2>2. UNCHANGED <<result_set, promised, live>> /\ pc \in Q!Labels /\ ~crashed
    BY <1>3 DEF Q!CallConnect, Q!CallQuery, Q!Connect, Q!Query, Q!resultVars
  <2>3. Q!Code(pc).do \in {"connect", "query"}
    BY <1>3 DEF Q!CallConnect, Q!CallQuery
  <2>4. QED BY <2>1, <2>2, <2>3, HeldMoves DEF HeldInv
<1>4. ASSUME Q!DeclareResult PROVE HeldInv'
  <2>1. Q!Goto(Q!Code(pc).yes) /\ pc \in Q!Labels /\ ~crashed /\ Q!Code(pc).do = "result"
    BY <1>4, Branches DEF Q!DeclareResult
  <2>2. /\ live' = live \cup {Q!Code(pc).of}
        /\ result_set' = [result_set EXCEPT ![Q!Code(pc).of] = NULL]
        /\ promised' = [promised EXCEPT ![Q!Code(pc).of] = 0]
    BY <1>4 DEF Q!DeclareResult, Q!ConstructResultSet
  <2>3. QED BY <2>1, <2>2, HeldMoves DEF HeldInv
<1>5. ASSUME Q!LeaveResult PROVE HeldInv'
  <2>1. Q!Goto(Q!Code(pc).yes) /\ pc \in Q!Labels /\ ~crashed
    BY <1>5, Branches DEF Q!LeaveResult
  <2>2. live' = live \ {Q!Code(pc).of} /\ UNCHANGED <<result_set, promised>>
    BY <1>5 DEF Q!LeaveResult, Q!DestroyResultSet
  <2>3. QED BY <2>1, <2>2, HeldMoves DEF HeldInv
<1>6. ASSUME Q!CallStore PROVE HeldInv'
  <2>1. PICK n \in {Q!Code(pc).yes, Q!Code(pc).no} : Q!Goto(n)
    BY <1>6, Branches DEF Q!CallStore
  <2>2. /\ pc \in Q!Labels /\ ~crashed /\ Q!Code(pc).do = "store" /\ live' = live
        /\ DOMAIN result_set' = DOMAIN result_set /\ DOMAIN promised' = DOMAIN promised
        /\ \A r \in {rs1, rs2} : r # Q!Code(pc).of => result_set'[r] = result_set[r]
    BY <1>6 DEF Q!CallStore, Q!StoreResult, Q!InitResultSet, HeldInv
  <2>3. QED BY <2>1, <2>2, HeldMoves DEF HeldInv
<1>7. ASSUME Q!CallFetch \/ Q!AskColumns \/ Q!AskLengths \/ Q!ShowAffected PROVE HeldInv'
  <2>1. PICK n \in {Q!Code(pc).yes, Q!Code(pc).no} : Q!Goto(n)
    BY <1>7, Branches DEF Q!CallFetch, Q!AskColumns, Q!AskLengths, Q!ShowAffected
  <2>2. UNCHANGED <<result_set, promised, live>> /\ pc \in Q!Labels /\ ~crashed
    BY <1>7 DEF Q!CallFetch, Q!FetchRow, Q!AskColumns, Q!AskLengths, Q!ShowAffected, Q!vars
  <2>3. Q!Code(pc).do \in {"fetch", "columns", "lengths", "affected"}
    BY <1>7 DEF Q!CallFetch, Q!AskColumns, Q!AskLengths, Q!ShowAffected
  <2>4. QED BY <2>1, <2>2, <2>3, HeldMoves DEF HeldInv
<1>8. ASSUME Q!CallFetchOnNull PROVE HeldInv'
  <2>1. UNCHANGED <<result_set, promised, live>> /\ pc \in Q!Labels /\ ~crashed
        /\ Q!Code(pc).do = "fetch"
    BY <1>8 DEF Q!CallFetchOnNull, Q!vars
  <2>2. CASE Q!Goto(Q!Code(pc).no)
    BY <2>1, <2>2, HeldMoves DEF HeldInv
  <2>3. CASE Q!Goto("crash")
    BY <2>1, <2>3 DEF Q!Goto, HeldInv, HeldAt
  <2>4. QED BY <1>8, <2>2, <2>3 DEF Q!CallFetchOnNull
<1>9. CASE UNCHANGED queryVars
  BY <1>9 DEF queryVars, HeldInv, HeldAt
<1>10. QED BY <1>2, <1>3, <1>4, <1>5, <1>6, <1>7, <1>8, <1>9 DEF Q!ProgNext

LEMMA HeldInvInit == Q!ProgInit => HeldInv
BY DEF Q!ProgInit, Q!Init, HeldInv

(* The client of MysqlWrappers that makes any calls but never stores into  *)
(* a wrapper that has a result, and what is proved of it.                  *)
W == INSTANCE MysqlWrappersProofs WITH
       Conn <- {conn}, Rs <- {rs1, rs2}, InitMayFail <- FALSE, Reuse <- FALSE

LEMMA WAssumption == W!WrapperAssumption
BY InputAssumption DEF Q!WrapperAssumption, W!WrapperAssumption

(* What the library and the objects do does not depend on the client.      *)
LEMMA SameObjects ==
  /\ Q!ConstructConnection(conn) => W!ConstructConnection(conn)
  /\ Q!DestroyConnection(conn) => W!DestroyConnection(conn)
  /\ \A r \in {rs1, rs2} :
       /\ Q!ConstructResultSet(r) => W!ConstructResultSet(r)
       /\ Q!FetchRow(r) => W!FetchRow(r)
       /\ Q!DestroyResultSet(r) => W!DestroyResultSet(r)
<1> USE DEF Q!connVars, W!connVars, Q!resultVars, W!resultVars
<1>1. Q!ConstructConnection(conn) => W!ConstructConnection(conn)
  BY DEF Q!ConstructConnection, W!ConstructConnection, Q!SetHandle, W!SetHandle,
         Q!Initialised, W!Initialised, Q!Raw, W!Raw
<1>2. Q!DestroyConnection(conn) => W!DestroyConnection(conn)
  BY DEF Q!DestroyConnection, W!DestroyConnection, Q!SetHandle, W!SetHandle,
         Q!Closed, W!Closed, Q!Raw, W!Raw
<1>3. \A r \in {rs1, rs2} : Q!ConstructResultSet(r) => W!ConstructResultSet(r)
  BY DEF Q!ConstructResultSet, W!ConstructResultSet
<1>4. \A r \in {rs1, rs2} : Q!FetchRow(r) => W!FetchRow(r)
  BY DEF Q!FetchRow, W!FetchRow, Q!NextRow, W!NextRow
<1>5. \A r \in {rs1, rs2} : Q!DestroyResultSet(r) => W!DestroyResultSet(r)
  BY DEF Q!DestroyResultSet, W!DestroyResultSet, Q!Free, W!Free
<1>6. QED BY <1>1, <1>2, <1>3, <1>4, <1>5

LEMMA SameCalls ==
  /\ Q!Connect(conn) => W!Connect(conn)
  /\ Q!Query(conn) => W!Query(conn)
  /\ \A r \in {rs1, rs2} :
       Q!StoreResult(conn, r) /\ result_set[r] = NULL => W!StoreResult(conn, r)
<1> USE DEF Q!connVars, W!connVars, Q!resultVars, W!resultVars, Q!SetHandle, W!SetHandle,
            Q!Lost, W!Lost, Q!Failed, W!Failed, Q!Empty, W!Empty
<1>1. Q!Connect(conn) => W!Connect(conn)
  BY DEF Q!Connect, W!Connect
<1>2. Q!Query(conn) => W!Query(conn)
  BY DEF Q!Query, W!Query
<1>3. \A r \in {rs1, rs2} :
        Q!StoreResult(conn, r) /\ result_set[r] = NULL => W!StoreResult(conn, r)
  BY DEF Q!StoreResult, W!StoreResult, Q!Download, W!Download, Q!InitResultSet, W!InitResultSet
<1>4. QED BY <1>1, <1>2, <1>3

(* A statement of a program is a call that client may make.                *)
LEMMA ProgramStep == HeldInv /\ [Q!ProgNext]_queryVars => [W!Next]_W!vars
<1> SUFFICES ASSUME HeldInv, [Q!ProgNext]_queryVars PROVE [W!Next]_W!vars
  OBVIOUS
<1> USE DEF Q!At
<1>1. ASSUME pc \in Q!Labels, Q!Code(pc).do \in {"result", "store", "fetch", "free"}
      PROVE  Q!Code(pc).of \in {rs1, rs2}
  BY <1>1, Tables DEF StoresOnce
<1>2. CASE Q!DeclareConnection \/ Q!LeaveConnection \/ Q!CallConnect \/ Q!CallQuery
  BY <1>2, SameObjects, SameCalls
     DEF Q!DeclareConnection, Q!LeaveConnection, Q!CallConnect, Q!CallQuery, W!Next
<1>3. CASE Q!DeclareResult \/ Q!LeaveResult \/ Q!CallFetch
  BY <1>1, <1>3, SameObjects DEF Q!DeclareResult, Q!LeaveResult, Q!CallFetch, W!Next
<1>4. CASE Q!CallStore
  <2>1. /\ pc \in Q!Labels /\ Q!Code(pc).do = "store" /\ Q!Code(pc).of \in {rs1, rs2}
        /\ Q!StoreResult(conn, Q!Code(pc).of)
    BY <1>1, <1>4 DEF Q!CallStore
  <2>2. result_set[Q!Code(pc).of] = NULL
    BY <2>1, Tables DEF StoresOnce, HeldInv, Q!StoreResult
  <2>3. QED BY <2>1, <2>2, SameCalls DEF W!Next
<1>5. CASE Q!CallFetchOnNull \/ Q!AskColumns \/ Q!AskLengths \/ Q!ShowAffected
  BY <1>5 DEF Q!CallFetchOnNull, Q!AskColumns, Q!AskLengths, Q!ShowAffected, Q!vars, W!vars
<1>6. CASE UNCHANGED queryVars
  BY <1>6 DEF queryVars, W!vars
<1>7. QED BY <1>2, <1>3, <1>4, <1>5, <1>6 DEF Q!ProgNext

LEMMA ProgramInit == Q!ProgInit => W!Init
BY DEF Q!ProgInit, Q!Init, W!Init, Q!Raw, W!Raw, Q!Free, W!Free

(* The programs of the repository are such clients, on every path through  *)
(* them, whatever fails: no wrapper is given a second result.              *)
THEOREM ProgramsStoreOnce == Q!ProgSpec => W!Spec
<1>1. HeldInv /\ [Q!ProgNext]_Q!progVars => HeldInv' /\ [W!Next]_W!vars
  BY HeldInvNext, ProgramStep DEF Q!progVars, Q!vars, queryVars
<1>2. QED BY <1>1, HeldInvInit, ProgramInit, PTL DEF Q!ProgSpec, W!Spec

(* So they lose neither a result nor a connection.                         *)
THEOREM ProgramsLeaveNothing == Q!ProgSpec => []NothingLeaks
<1>1. W!Spec => []W!NothingLeaks
  BY W!NoLeak, WAssumption
<1>2. W!NothingLeaks => NothingLeaks
  BY DEF W!NothingLeaks, NothingLeaks, Q!NothingLeaks, W!NoResultLeaks, Q!NoResultLeaks,
         W!DestroyedMeansClosed, Q!DestroyedMeansClosed, W!Owns, Q!Owns, W!Empty, Q!Empty
<1>3. QED BY <1>1, <1>2, ProgramsStoreOnce, PTL

(* detailed_query: the result is there when it is read, and the row when   *)
(* its lengths are.                                                        *)
LooksInv ==
  /\ pc = "w_store" => result_set[rs1] = NULL /\ promised[rs1] = 0
  /\ pc \in {"w_fetch", "w_lengths"} => result_set[rs1] # NULL
  /\ pc = "w_lengths" => heap[result_set[rs1]].current
  /\ crashed => pc \notin DOMAIN Q!Detailed

LEMMA LooksInvInit == Q!ProgInit => LooksInv
BY InputAssumption DEF Q!ProgInit, LooksInv, Q!ProgramAssumption

(* Where a step of detailed_query arrives, by where it was.                *)
LEMMA Arrivals ==
  ASSUME pc \in Q!Labels, ~crashed, NEW n \in {Q!Code(pc).yes, Q!Code(pc).no}, Q!Goto(n)
  PROVE  \/ /\ ~crashed'
            /\ pc' = "w_store" => Q!Code(pc).do = "result" /\ Q!Code(pc).of = rs1
            /\ pc' \in {"w_fetch", "w_lengths"} =>
                 Q!Code(pc).of = rs1 /\ n = Q!Code(pc).yes /\ n # Q!Code(pc).no
            /\ pc' = "w_fetch" => pc \in {"w_store", "w_lengths"}
            /\ pc' = "w_lengths" => pc = "w_fetch"
         \/ /\ crashed' /\ pc' = pc /\ n = "crash" /\ n = Q!Code(pc).no
            /\ n # Q!Code(pc).yes
            /\ pc = "w_lengths" \/ pc \notin DOMAIN Q!Detailed
<1>1. LooksBefore(pc, Q!Code(pc))
  BY Tables
<1>2. CASE n # "crash"
  <2>1. pc' = n /\ ~crashed'
    BY <1>2, Moves
  <2>2. QED BY <1>1, <2>1 DEF LooksBefore
<1>3. CASE n = "crash"
  <2>1. pc' = pc /\ crashed' /\ n = Q!Code(pc).no /\ pc \in {"w_lengths", "f_fetch2"}
    BY <1>3, Moves
  <2>2. "f_fetch2" \notin DOMAIN Q!Detailed
    BY DEF Q!Detailed
  <2>3. QED BY <1>1, <1>3, <2>1, <2>2 DEF LooksBefore
<1>4. QED BY <1>2, <1>3

LEMMA LooksInvNext == HeldInv /\ LooksInv /\ [Q!ProgNext]_queryVars => LooksInv'
<1> SUFFICES ASSUME HeldInv, LooksInv, [Q!ProgNext]_queryVars PROVE LooksInv'
  OBVIOUS
<1> USE DEF Q!At
<1>1. rs1 # rs2
  BY InputAssumption DEF Q!ProgramAssumption
<1>2. ASSUME Q!DeclareConnection \/ Q!LeaveConnection \/ Q!LeaveResult
             \/ Q!CallConnect \/ Q!CallQuery \/ Q!AskColumns \/ Q!ShowAffected
      PROVE  LooksInv'
  <2>1. PICK n \in {Q!Code(pc).yes, Q!Code(pc).no} : Q!Goto(n)
    BY <1>2, Branches DEF Q!DeclareConnection, Q!LeaveConnection, Q!LeaveResult,
       Q!CallConnect, Q!CallQuery, Q!AskColumns, Q!ShowAffected
  <2>2. /\ pc \in Q!Labels /\ ~crashed
        /\ Q!Code(pc).do \in {"connection", "close", "free", "connect", "query",
                              "columns", "affected"}
    BY <1>2 DEF Q!DeclareConnection, Q!LeaveConnection, Q!LeaveResult,
       Q!CallConnect, Q!CallQuery, Q!AskColumns, Q!ShowAffected
  <2>3. LooksBefore(pc, Q!Code(pc)) /\ (pc \in DOMAIN Q!Detailed => ~crashed')
        /\ pc' \notin {"w_store", "w_fetch", "w_lengths"}
    BY <2>1, <2>2, Tables, Arrivals DEF LooksBefore
  <2>4. QED BY <2>1, <2>2, <2>3, Arrivals DEF LooksInv
<1>3. ASSUME Q!DeclareResult PROVE LooksInv'
  <2>1. Q!Goto(Q!Code(pc).yes) /\ pc \in Q!Labels /\ ~crashed /\ Q!Code(pc).do = "result"
    BY <1>3, Branches DEF Q!DeclareResult
  <2>2. LooksBefore(pc, Q!Code(pc)) /\ (pc \in DOMAIN Q!Detailed => ~crashed')
        /\ pc' \notin {"w_fetch", "w_lengths"}
    BY <2>1, Tables, Arrivals DEF LooksBefore
  <2>3. /\ result_set' = [result_set EXCEPT ![Q!Code(pc).of] = NULL]
        /\ promised' = [promised EXCEPT ![Q!Code(pc).of] = 0]
    BY <1>3 DEF Q!DeclareResult, Q!ConstructResultSet
  <2>4. pc' = "w_store" => result_set'[rs1] = NULL /\ promised'[rs1] = 0
    BY <2>1, <2>2, <2>3, Arrivals DEF HeldInv
  <2>5. QED BY <2>1, <2>2, <2>4, Arrivals DEF LooksInv
<1>4. ASSUME Q!CallStore PROVE LooksInv'
  <2>1. PICK n \in {Q!Code(pc).yes, Q!Code(pc).no} : Q!Goto(n)
    BY <1>4, Branches DEF Q!CallStore
  <2>2. pc \in Q!Labels /\ ~crashed /\ Q!Code(pc).do = "store"
    BY <1>4 DEF Q!CallStore
  <2>3. LooksBefore(pc, Q!Code(pc)) /\ (pc \in DOMAIN Q!Detailed => ~crashed')
        /\ pc' \notin {"w_store", "w_lengths"}
    BY <2>1, <2>2, Tables, Arrivals DEF LooksBefore
  <2>4. ASSUME pc' = "w_fetch" PROVE result_set'[rs1] # NULL
    <3>1. pc = "w_store" /\ Q!Code(pc).of = rs1 /\ promised'[rs1] # 0
      BY <1>4, <2>1, <2>2, <2>3, <2>4, Arrivals, Branches DEF Q!CallStore, LooksBefore
    <3>2. result_set[rs1] = NULL /\ promised[rs1] = 0
      BY <3>1 DEF LooksInv
    <3>3. PICK res \in Result \cup {NULL} :
            /\ result_set' = [result_set EXCEPT ![rs1] = IF @ = NULL THEN res ELSE @]
            /\ promised' = [promised EXCEPT ![rs1] = IF res = NULL THEN @ ELSE mysql[conn].pending]
      BY <1>4, <3>1 DEF Q!CallStore, Q!StoreResult, Q!InitResultSet
    <3>4. QED BY <3>1, <3>2, <3>3 DEF HeldInv
  <2>5. QED BY <2>1, <2>2, <2>3, <2>4, Arrivals DEF LooksInv
<1>5. ASSUME Q!CallFetch PROVE LooksInv'
  <2>1. PICK n \in {Q!Code(pc).yes, Q!Code(pc).no} : Q!Goto(n)
    BY <1>5, Branches DEF Q!CallFetch
  <2>2. pc \in Q!Labels /\ ~crashed /\ Q!Code(pc).do = "fetch" /\ result_set' = result_set
    BY <1>5 DEF Q!CallFetch, Q!FetchRow
  <2>3. LooksBefore(pc, Q!Code(pc)) /\ (pc \in DOMAIN Q!Detailed => ~crashed')
        /\ pc' \notin {"w_store", "w_fetch"}
    BY <2>1, <2>2, Tables, Arrivals DEF LooksBefore
  <2>4. ASSUME pc' = "w_lengths" PROVE result_set[rs1] # NULL /\ heap'[result_set[rs1]].current
    <3>1. pc = "w_fetch" /\ Q!Code(pc).of = rs1 /\ heap'[result_set[rs1]].current
      BY <1>5, <2>1, <2>2, <2>3, <2>4, Arrivals, Branches DEF Q!CallFetch, LooksBefore
    <3>2. QED BY <3>1 DEF LooksInv
  <2>5. QED BY <2>1, <2>2, <2>3, <2>4, Arrivals DEF LooksInv
<1>6. ASSUME Q!CallFetchOnNull PROVE LooksInv'
  <2>1. /\ pc \in Q!Labels /\ ~crashed /\ Q!Code(pc).do = "fetch"
        /\ result_set[Q!Code(pc).of] = NULL
    BY <1>6 DEF Q!CallFetchOnNull
  <2>2. LooksBefore(pc, Q!Code(pc)) /\ pc \notin DOMAIN Q!Detailed
    BY <2>1, Tables DEF LooksBefore, LooksInv
  <2>3. pc \notin {"w_store", "w_fetch", "w_lengths"}
    BY <2>2 DEF Q!Detailed
  <2>4. CASE Q!Goto(Q!Code(pc).no)
    BY <2>1, <2>2, <2>3, <2>4, Arrivals DEF LooksInv, LooksBefore
  <2>5. CASE Q!Goto("crash")
    BY <2>2, <2>3, <2>5 DEF LooksInv, Q!Goto
  <2>6. QED BY <1>6, <2>4, <2>5 DEF Q!CallFetchOnNull
<1>7. ASSUME Q!AskLengths PROVE LooksInv'
  <2>1. /\ pc \in Q!Labels /\ ~crashed /\ Q!Code(pc).do = "lengths"
        /\ UNCHANGED <<result_set, heap>>
    BY <1>7 DEF Q!AskLengths, Q!vars
  <2>2. LooksBefore(pc, Q!Code(pc)) /\ pc = "w_lengths" /\ Q!Code(pc).of = rs1
    BY <2>1, Tables DEF LooksBefore
  <2>3. Q!HasLengths(Q!Code(pc).of)
    BY <2>2 DEF Q!HasLengths, LooksInv
  <2>4. Q!Goto(Q!Code(pc).yes)
    BY <1>7, <2>3, Branches DEF Q!AskLengths
  <2>5. pc' \notin {"w_store", "w_lengths"} /\ ~crashed'
    BY <2>1, <2>2, <2>4, Arrivals DEF LooksBefore
  <2>6. QED BY <2>1, <2>2, <2>5 DEF LooksInv
<1>8. CASE UNCHANGED queryVars
  BY <1>8 DEF queryVars, LooksInv
<1>9. QED BY <1>2, <1>3, <1>4, <1>5, <1>6, <1>7, <1>8 DEF Q!ProgNext

(* detailed_query looks at rows and lengths only when there are some, on   *)
(* every path, for tables of any size and any number of failures.          *)
THEOREM DetailedIsSafe == Q!ProgSpec => []DetailedNeverCrashes
<1>1. HeldInv /\ LooksInv /\ [Q!ProgNext]_Q!progVars => HeldInv' /\ LooksInv'
  BY HeldInvNext, LooksInvNext DEF Q!progVars, Q!vars, queryVars
<1>2. LooksInv => DetailedNeverCrashes
  BY DEF LooksInv, DetailedNeverCrashes, Q!DetailedNeverCrashes
<1>3. QED BY <1>1, <1>2, HeldInvInit, LooksInvInit, PTL DEF Q!ProgSpec
-----------------------------------------------------------------------------
(* Application: the files with initialisers that the linker takes, and the *)
(* order of the link line, in which the vector comes before the file that  *)
(* registers a program.                                                    *)
LEMMA LinkedFiles ==
  /\ A!Linked \cap A!HasInitialiser = {"application", "real_socket_test"}
  /\ A!Linked \cap A!Registering = {"real_socket_test"}
<1>1. A!ToSet(A!Sources) = {"main", "application", "sub_program", "fast_query", "detailed_query",
                          "real_socket_test"}
  BY DEF A!Sources, A!ToSet
<1>2. "mysql_driver" \notin A!Members
  BY DEF A!Members, A!Needed, A!Refers
<1>3. QED BY <1>1, <1>2 DEF A!Linked, A!HasInitialiser, A!Registering, A!Archive, A!ToSet

LEMMA VectorFirst == ~A!Precedes("real_socket_test", "application")
BY DEF A!Precedes, A!Sources, A!Archive

(* What has been registered when, and what has run.                        *)
ApplicationInv ==
  /\ phase \in {"startup", "run", "server", "exit", "done"}
  /\ todo \in {{"application", "real_socket_test"}, {"real_socket_test"}, {}}
  /\ phase # "startup" => todo = {}
  /\ sub_programs = IF todo = {} THEN <<"real_socket_test">> ELSE <<>>
  /\ next \in {1, 2}
  /\ phase = "startup" => next = 1
  /\ phase \in {"exit", "done"} => next = 2
  /\ ran = IF next = 1 THEN <<>> ELSE <<"real_socket_test">>

LEMMA ApplicationInvInit == A!Init => ApplicationInv
BY LinkedFiles DEF A!Init, ApplicationInv

LEMMA ApplicationInvNext ==
  ApplicationInv /\ [A!Next]_applicationVars => ApplicationInv'
<1> SUFFICES ASSUME ApplicationInv, [A!Next]_applicationVars PROVE ApplicationInv'
  OBVIOUS
<1>1. CASE A!StaticInit
  <2>1. PICK f \in todo :
          /\ \A g \in todo \ {f} : A!Precedes(f, g)
          /\ todo' = todo \ {f}
          /\ A!Register(f) \/ A!ConstructVector(f) \/ A!InitialiseDriver(f)
    BY <1>1 DEF A!StaticInit
  <2>2. phase = "startup" /\ UNCHANGED <<phase, next, ran>>
    BY <1>1 DEF A!StaticInit
  <2>3. CASE todo = {"application", "real_socket_test"}
    <3>1. f = "application"
      BY <2>1, <2>3, VectorFirst
    <3>2. todo' = {"real_socket_test"} /\ sub_programs' = <<>>
      BY <2>1, <2>3, <3>1 DEF A!Register, A!ConstructVector, A!InitialiseDriver,
         A!Registering, ApplicationInv
    <3>3. QED BY <2>2, <3>2 DEF ApplicationInv
  <2>4. CASE todo = {"real_socket_test"}
    <3>1. todo' = {} /\ sub_programs' = <<"real_socket_test">>
      BY <2>1, <2>4 DEF A!Register, A!ConstructVector, A!InitialiseDriver, ApplicationInv
    <3>2. QED BY <2>2, <3>1 DEF ApplicationInv
  <2>5. QED BY <2>1, <2>3, <2>4 DEF ApplicationInv
<1>2. CASE A!Main \/ A!RunReturns \/ A!Exit
  <2>1. \/ phase = "startup" /\ todo = {} /\ phase' = "run"
        \/ phase = "run" /\ next > Len(sub_programs) /\ phase' = "exit"
        \/ phase = "exit" /\ phase' = "done"
    BY <1>2 DEF A!Main, A!RunReturns, A!Exit
  <2>2. UNCHANGED <<todo, sub_programs, next, ran>>
    BY <1>2 DEF A!Main, A!RunReturns, A!Exit, A!startVars
  <2>3. next > Len(sub_programs) /\ todo = {} => next = 2
    BY DEF ApplicationInv
  <2>4. QED BY <2>1, <2>2, <2>3 DEF ApplicationInv
<1>3. CASE A!RunProgram
  BY <1>3 DEF A!RunProgram, ApplicationInv
<1>4. CASE A!Bind \/ A!Accept \/ A!ReadSome \/ A!Write
  <2>1. phase = "server" /\ phase' \in {"server", "run"} /\ UNCHANGED A!startVars
    BY <1>4 DEF A!Bind, A!Accept, A!ReadSome, A!Write, A!InServer, A!ServerReturns
  <2>2. QED BY <2>1 DEF A!startVars, ApplicationInv
<1>5. CASE \/ A!ClientStarts \/ A!ClientConnects \/ A!ClientSends \/ A!ClientCloses
           \/ A!LinkBreaks \/ UNCHANGED applicationVars
  <2>1. UNCHANGED <<phase, todo, sub_programs, next, ran>>
    BY <1>5 DEF A!ClientStarts, A!ClientConnects, A!ClientSends, A!ClientCloses,
       A!LinkBreaks, A!startVars, applicationVars
  <2>2. QED BY <2>1 DEF ApplicationInv
<1>6. QED BY <1>1, <1>2, <1>3, <1>4, <1>5 DEF A!Next, A!Step

(* The program that is registered runs, once, whatever happens to its      *)
(* sockets; fairness is not needed for it.                                 *)
THEOREM ProgramAlwaysRuns ==
  A!Init /\ [][A!Next]_A!vars => []EveryProgramRuns
<1>1. ApplicationInv /\ [A!Next]_A!vars => ApplicationInv'
  BY ApplicationInvNext DEF A!vars, A!startVars, A!netVars, applicationVars
<1>2. ApplicationInv => EveryProgramRuns
  <2>1. /\ A!ToSet(<<"real_socket_test">>) = {"real_socket_test"}
        /\ A!IsInjective(<<"real_socket_test">>)
    BY DEF A!ToSet, A!IsInjective
  <2>2. ApplicationInv /\ phase \in {"exit", "done"} => ran = <<"real_socket_test">>
    BY DEF ApplicationInv
  <2>3. QED BY <2>1, <2>2, LinkedFiles DEF EveryProgramRuns, A!EveryProgramRuns
<1>3. QED BY <1>1, <1>2, ApplicationInvInit, PTL
-----------------------------------------------------------------------------
(* Induction over a set of numbers: those below the first that is missing  *)
(* would be a smallest interval.                                           *)
LEMMA SetInduction ==
  ASSUME NEW K \in SUBSET Nat, 0 \in K, \A n \in K : n + 1 \in K
  PROVE  K = Nat
<1> DEFINE U == {1 .. n : n \in Nat \ K}
<1> SUFFICES ASSUME Nat \ K # {} PROVE FALSE
  OBVIOUS
<1>1. U \subseteq FiniteSubsetsOf(Nat)
  <2>1. \A n \in Nat : IsFiniteSet(1 .. n) /\ 1 .. n \subseteq Nat
    BY FS_Interval
  <2>2. QED BY <2>1 DEF FiniteSubsetsOf
<1>2. PICK x \in U : \A y \in U : <<y, x>> \notin StrictSubsetOrdering(Nat)
  <2>1. U # {}
    OBVIOUS
  <2> HIDE DEF U
  <2>2. IsWellFoundedOn(StrictSubsetOrdering(Nat), FiniteSubsetsOf(Nat))
    BY FS_StrictSubsetOrderingWellFounded
  <2>3. QED BY <1>1, <2>1, <2>2, WFMin
<1>3. PICK n \in Nat \ K : x = 1 .. n
  OBVIOUS
<1>4. n # 0 /\ n - 1 \in Nat /\ n - 1 \notin K
  BY <1>3
<1>5. 1 .. n - 1 \in U
  BY <1>4
<1>6. <<1 .. n - 1, x>> \in StrictSubsetOrdering(Nat)
  <2>1. n \in x /\ n \notin 1 .. n - 1 /\ 1 .. n - 1 \subseteq x /\ x \subseteq Nat
    BY <1>3, <1>4
  <2>2. QED BY <2>1, <1>3, <1>4 DEF StrictSubsetOrdering
<1>7. QED BY <1>2, <1>5, <1>6
-----------------------------------------------------------------------------
(* DigitStrings: the number of a string is a fold, a recursive function on *)
(* the sets of its positions, of which the last is taken.                  *)
ReadStep(f, s, P) ==
  IF P = {} THEN 0 ELSE D!AppendDigit(f[P \ {D!Max(P)}], s[D!Max(P)])
IsRead(f, s, n) == f = [P \in SUBSET (1 .. n) |-> ReadStep(f, s, P)]

LEMMA DigitAdds ==
  ASSUME NEW n \in Nat, NEW c \in Int
  PROVE  /\ D!AppendDigit(n, c) \in Nat /\ n <= D!AppendDigit(n, c)
         /\ ~D!is_digit(c) => D!AppendDigit(n, c) = n
         /\ D!is_digit(c) => /\ D!char_to_digit(c) \in Nat
                             /\ D!AppendDigit(n, c) = n * 10 + D!char_to_digit(c)
BY DEF D!AppendDigit, D!is_digit, D!char_to_digit, D!Zero

LEMMA LastOf ==
  ASSUME NEW n \in Nat, NEW P \in SUBSET (1 .. n + 1), n + 1 \in P
  PROVE  D!Max(P) = n + 1
<1>1. \A x \in P : x \in Int /\ x <= n + 1
  OBVIOUS
<1>2. \A y \in P : n + 1 >= y
  BY <1>1
<1>3. D!Max(P) \in P /\ \A y \in P : D!Max(P) >= y
  BY <1>2 DEF D!Max
<1>4. D!Max(P) >= n + 1 /\ D!Max(P) \in Int /\ D!Max(P) <= n + 1
  BY <1>1, <1>3
<1>5. QED BY <1>4

LEMMA ReadAt ==
  ASSUME NEW f, NEW s, NEW n, IsRead(f, s, n)
  PROVE  \A P \in SUBSET (1 .. n) : f[P] = ReadStep(f, s, P)
BY DEF IsRead

LEMMA ReadExists ==
  ASSUME NEW s, NEW n \in Nat
  PROVE  \E f : IsRead(f, s, n)
<1> DEFINE K == {m \in Nat : \E f : IsRead(f, s, m)}
<1>1. 0 \in K
  <2> DEFINE z == [P \in {{}} |-> 0]
  <2>1. SUBSET (1 .. 0) = {{}}
    OBVIOUS
  <2>2. z = [P \in {{}} |-> ReadStep(z, s, P)]
    BY DEF ReadStep
  <2> HIDE DEF z
  <2>3. IsRead(z, s, 0)
    BY <2>1, <2>2 DEF IsRead
  <2>4. QED BY <2>3
<1>2. ASSUME NEW m \in K PROVE m + 1 \in K
  <2>1. m \in Nat
    OBVIOUS
  <2>2. PICK f : IsRead(f, s, m)
    OBVIOUS
  <2> DEFINE g == [P \in SUBSET (1 .. m + 1) |->
                     IF m + 1 \in P THEN D!AppendDigit(f[P \ {m + 1}], s[m + 1]) ELSE f[P]]
  <2>3. \A P \in SUBSET (1 .. m) : g[P] = f[P] /\ f[P] = ReadStep(f, s, P)
    <3>1. \A P \in SUBSET (1 .. m) : f[P] = ReadStep(f, s, P)
      BY <2>2, ReadAt, Zenon
    <3>2. \A P \in SUBSET (1 .. m) : P \in SUBSET (1 .. m + 1) /\ m + 1 \notin P
      BY <2>1
    <3>3. QED BY <3>1, <3>2
  <2>4. ASSUME NEW P \in SUBSET (1 .. m + 1) PROVE g[P] = ReadStep(g, s, P)
    <3>1. CASE m + 1 \in P
      <4>1. D!Max(P) = m + 1 /\ P # {}
        BY <2>1, <3>1, LastOf
      <4>2. P \ {m + 1} \in SUBSET (1 .. m)
        BY <2>1
      <4>3. g[P \ {m + 1}] = f[P \ {m + 1}]
        BY <2>3, <4>2
      <4>4. g[P] = D!AppendDigit(f[P \ {m + 1}], s[m + 1])
        BY <3>1
      <4> HIDE DEF g
      <4>5. QED BY <4>1, <4>3, <4>4 DEF ReadStep
    <3>2. CASE m + 1 \notin P
      <4>1. P \in SUBSET (1 .. m)
        BY <2>1, <3>2
      <4>2. g[P] = ReadStep(f, s, P)
        BY <2>3, <4>1
      <4>3. P \ {D!Max(P)} \in SUBSET (1 .. m)
        BY <4>1
      <4>4. g[P \ {D!Max(P)}] = f[P \ {D!Max(P)}]
        BY <2>3, <4>3
      <4> HIDE DEF g
      <4>5. QED BY <4>2, <4>4 DEF ReadStep
    <3>3. QED BY <3>1, <3>2
  <2>5. g = [P \in SUBSET (1 .. m + 1) |-> g[P]]
    OBVIOUS
  <2> HIDE DEF g
  <2>6. IsRead(g, s, m + 1)
    BY <2>4, <2>5 DEF IsRead
  <2>7. QED BY <2>1, <2>6
<1>3. K \in SUBSET Nat
  OBVIOUS
<1> HIDE DEF K
<1>4. K = Nat
  BY <1>1, <1>2, <1>3, SetInduction
<1>5. QED BY <1>4 DEF K

LEMMA ValueIsRead ==
  ASSUME NEW s, DOMAIN s = 1 .. Len(s), Len(s) \in Nat
  PROVE  \E f : IsRead(f, s, Len(s)) /\ D!Value(s) = f[1 .. Len(s)]
<1> DEFINE f == CHOOSE g : g = [P \in SUBSET DOMAIN s |-> ReadStep(g, s, P)]
<1>1. D!Value(s) = f[DOMAIN s]
  BY DEF D!Value, D!FoldLeft, D!MapThenFoldSet, ReadStep
<1>2. \E g : g = [P \in SUBSET DOMAIN s |-> ReadStep(g, s, P)]
  <2>1. \E g : IsRead(g, s, Len(s))
    BY ReadExists, Zenon
  <2>2. QED BY <2>1 DEF IsRead
<1>3. f = [P \in SUBSET DOMAIN s |-> ReadStep(f, s, P)]
  BY <1>2
<1> HIDE DEF f
<1>4. QED BY <1>1, <1>3 DEF IsRead

(* A character more is a digit more, or nothing.                           *)
LEMMA ValueAppend ==
  ASSUME NEW s \in Seq(Int), NEW c \in Int
  PROVE  /\ D!Value(<<>>) = 0 /\ D!Value(s) \in Nat
         /\ D!Value(Append(s, c)) = D!AppendDigit(D!Value(s), c)
<1> DEFINE n == Len(s)
           longer == Append(s, c)
<1>1. /\ n \in Nat /\ longer \in Seq(Int) /\ Len(longer) = n + 1
      /\ \A k \in 1 .. n : longer[k] = s[k] /\ s[k] \in Int
      /\ longer[n + 1] = c
      /\ DOMAIN s = 1 .. n /\ DOMAIN longer = 1 .. n + 1
  BY AppendProperties
<1> HIDE DEF longer, n
<1>2. PICK f : IsRead(f, s, n) /\ D!Value(s) = f[1 .. n]
  BY <1>1, ValueIsRead DEF n
<1>3. PICK g : IsRead(g, longer, n + 1) /\ D!Value(longer) = g[1 .. n + 1]
  <2>1. Len(longer) \in Nat /\ DOMAIN longer = 1 .. Len(longer)
    BY <1>1
  <2>2. QED BY <1>1, <2>1, ValueIsRead
<1>4. /\ \A P \in SUBSET (1 .. n) : f[P] = ReadStep(f, s, P)
      /\ \A P \in SUBSET (1 .. n + 1) : g[P] = ReadStep(g, longer, P)
  BY <1>2, <1>3, ReadAt, Zenon
<1>5. ASSUME NEW k \in Nat
      PROVE  /\ D!Max(1 .. k + 1) = k + 1 /\ 1 .. k + 1 # {}
             /\ (1 .. k + 1) \ {k + 1} = 1 .. k
  <2>1. 1 .. k + 1 \in SUBSET (1 .. k + 1) /\ k + 1 \in 1 .. k + 1
    OBVIOUS
  <2>2. D!Max(1 .. k + 1) = k + 1
    BY <2>1, LastOf, Zenon
  <2>3. QED BY <2>1, <2>2
<1>6. \A k \in Nat : k + 1 <= n + 1 =>
        g[1 .. k + 1] = D!AppendDigit(g[1 .. k], longer[k + 1])
  <2>1. TAKE k \in Nat
  <2>2. HAVE k + 1 <= n + 1
  <2>3. 1 .. k + 1 \in SUBSET (1 .. n + 1)
    BY <1>1, <2>2
  <2>4. g[1 .. k + 1] = ReadStep(g, longer, 1 .. k + 1)
    BY <1>4, <2>3
  <2>5. QED BY <1>5, <2>4 DEF ReadStep
<1>7. \A k \in Nat : k + 1 <= n =>
        f[1 .. k + 1] = D!AppendDigit(f[1 .. k], s[k + 1])
  <2>1. TAKE k \in Nat
  <2>2. HAVE k + 1 <= n
  <2>3. 1 .. k + 1 \in SUBSET (1 .. n)
    BY <1>1, <2>2
  <2>4. f[1 .. k + 1] = ReadStep(f, s, 1 .. k + 1)
    BY <1>4, <2>3
  <2>5. QED BY <1>5, <2>4 DEF ReadStep
<1>8. f[1 .. 0] = 0 /\ g[1 .. 0] = 0
  <2>1. 1 .. 0 = {} /\ {} \in SUBSET (1 .. n) /\ {} \in SUBSET (1 .. n + 1)
    OBVIOUS
  <2>2. ReadStep(f, s, {}) = 0 /\ ReadStep(g, longer, {}) = 0
    BY DEF ReadStep
  <2>3. QED BY <1>4, <2>1, <2>2
<1> DEFINE K == {k \in Nat : k <= n => g[1 .. k] = f[1 .. k] /\ f[1 .. k] \in Nat}
<1>9. 0 \in K
  BY <1>8
<1>10. ASSUME NEW k \in K PROVE k + 1 \in K
  <2>1. k \in Nat
    OBVIOUS
  <2> SUFFICES ASSUME k + 1 <= n
               PROVE  g[1 .. k + 1] = f[1 .. k + 1] /\ f[1 .. k + 1] \in Nat
    BY <2>1
  <2>2. g[1 .. k] = f[1 .. k] /\ f[1 .. k] \in Nat
    BY <1>1, <2>1
  <2>3. k + 1 \in 1 .. n /\ k + 1 <= n + 1
    BY <1>1, <2>1
  <2>4. longer[k + 1] = s[k + 1] /\ s[k + 1] \in Int
    BY <1>1, <2>3
  <2>5. /\ g[1 .. k + 1] = D!AppendDigit(g[1 .. k], longer[k + 1])
        /\ f[1 .. k + 1] = D!AppendDigit(f[1 .. k], s[k + 1])
    BY <1>6, <1>7, <2>1, <2>3
  <2>6. D!AppendDigit(f[1 .. k], s[k + 1]) \in Nat
    BY <2>2, <2>4, DigitAdds
  <2>7. QED BY <2>2, <2>4, <2>5, <2>6
<1>11. K \in SUBSET Nat
  OBVIOUS
<1> HIDE DEF K
<1>12. K = Nat
  BY <1>9, <1>10, <1>11, SetInduction
<1>13. g[1 .. n] = f[1 .. n] /\ f[1 .. n] \in Nat
  <2>1. n \in K /\ n <= n
    BY <1>1, <1>12
  <2>2. QED BY <2>1 DEF K
<1>14. D!Value(longer) = D!AppendDigit(D!Value(s), c)
  <2>1. g[1 .. n + 1] = D!AppendDigit(g[1 .. n], longer[n + 1])
    BY <1>1, <1>6
  <2>2. QED BY <1>1, <1>2, <1>3, <1>13, <2>1
<1>15. D!Value(<<>>) = 0
  <2>1. DOMAIN <<>> = 1 .. Len(<<>>) /\ Len(<<>>) = 0
    OBVIOUS
  <2>2. PICK e : IsRead(e, <<>>, 0) /\ D!Value(<<>>) = e[1 .. 0]
    BY <2>1, ValueIsRead
  <2>3. 1 .. 0 = {} /\ {} \in SUBSET (1 .. 0)
    OBVIOUS
  <2>4. e[{}] = ReadStep(e, <<>>, {})
    BY <2>2, <2>3, ReadAt
  <2>5. QED BY <2>2, <2>3, <2>4 DEF ReadStep
<1>16. QED BY <1>2, <1>13, <1>14, <1>15 DEF longer
-----------------------------------------------------------------------------
LEMMA ValueIsNat == D!Value(<<>>) = 0 /\ \A s \in Seq(Int) : D!Value(s) \in Nat
<1>1. 0 \in Int /\ <<>> \in Seq(Int)
  OBVIOUS
<1>2. QED BY <1>1, ValueAppend, Zenon

(* The number of the first k characters.                                   *)
Prefix(s, k) == D!Value(SubSeq(s, 1, k))

LEMMA Prefixes ==
  ASSUME NEW s \in Seq(Int)
  PROVE  /\ Prefix(s, 0) = 0 /\ Prefix(s, Len(s)) = D!Value(s)
         /\ \A k \in 0 .. Len(s) : Prefix(s, k) \in Nat /\ Prefix(s, k) <= D!Value(s)
         /\ \A k \in 0 .. Len(s) - 1 :
              Prefix(s, k + 1) = D!AppendDigit(Prefix(s, k), s[k + 1])
<1> DEFINE n == Len(s)
<1>1. n \in Nat
  OBVIOUS
<1>2. ASSUME NEW k \in 0 .. n PROVE SubSeq(s, 1, k) \in Seq(Int) /\ Prefix(s, k) \in Nat
  <2>1. SubSeq(s, 1, k) \in Seq(Int)
    BY <1>1
  <2>2. QED BY <2>1, ValueIsNat, Zenon DEF Prefix
<1>3. Prefix(s, 0) = 0 /\ Prefix(s, n) = D!Value(s)
  <2>1. SubSeq(s, 1, 0) = <<>> /\ SubSeq(s, 1, n) = s
    BY <1>1
  <2>2. D!Value(<<>>) = 0
    BY ValueIsNat
  <2>3. QED BY <2>1, <2>2 DEF Prefix
<1>4. ASSUME NEW k \in 0 .. n - 1
      PROVE  Prefix(s, k + 1) = D!AppendDigit(Prefix(s, k), s[k + 1])
  <2>1. k \in 0 .. n /\ k + 1 \in 1 .. n
    BY <1>1
  <2>2. SubSeq(s, 1, k) \in Seq(Int) /\ s[k + 1] \in Int
    BY <1>2, <2>1
  <2>3. SubSeq(s, 1, k + 1) = Append(SubSeq(s, 1, k), s[k + 1])
    BY <1>1, <2>1
  <2>4. QED BY <2>2, <2>3, ValueAppend, Zenon DEF Prefix
<1> DEFINE K == {j \in Nat : j <= n => Prefix(s, n - j) <= D!Value(s)}
<1>5. 0 \in K
  BY <1>1, <1>2, <1>3
<1>6. ASSUME NEW j \in K PROVE j + 1 \in K
  <2>1. j \in Nat
    OBVIOUS
  <2> SUFFICES ASSUME j + 1 <= n PROVE Prefix(s, n - (j + 1)) <= D!Value(s)
    BY <2>1
  <2>2. Prefix(s, n - j) <= D!Value(s)
    BY <1>1, <2>1
  <2> DEFINE k == n - (j + 1)
  <2>3. k \in 0 .. n - 1 /\ k \in 0 .. n /\ k + 1 \in 1 .. n /\ k + 1 = n - j
    BY <1>1, <2>1
  <2> HIDE DEF k, n
  <2>4. Prefix(s, k + 1) = D!AppendDigit(Prefix(s, k), s[k + 1])
    BY <1>4, <2>3
  <2>5. Prefix(s, k) \in Nat /\ s[k + 1] \in Int
    BY <1>2, <2>3 DEF n
  <2>6. Prefix(s, k) <= Prefix(s, k + 1) /\ Prefix(s, k + 1) \in Nat
    BY <2>4, <2>5, DigitAdds
  <2>7. D!Value(s) \in Nat
    BY ValueIsNat
  <2>8. QED BY <2>2, <2>3, <2>5, <2>6, <2>7 DEF k
<1>7. K \in SUBSET Nat
  OBVIOUS
<1> HIDE DEF K
<1>8. K = Nat
  BY <1>5, <1>6, <1>7, SetInduction
<1>9. ASSUME NEW k \in 0 .. n PROVE Prefix(s, k) <= D!Value(s)
  <2>1. n - k \in K /\ n - k <= n /\ n - (n - k) = k
    BY <1>1, <1>8
  <2>2. QED BY <2>1 DEF K
<1>10. QED BY <1>2, <1>3, <1>4, <1>9

(* Numbers that fit are what they are converted to.                        *)
LEMMA Fitting ==
  /\ \A x \in -LongHalf .. LongHalf - 1 : D!Signed(x) = {x}
  /\ \A x \in 0 .. LongHalf - 1 : D!AsLong(x) = x
  /\ \A x \in 0 .. ShortHalf - 1 : D!AsShort(x) = x
  /\ D!AsShort(-1) = -1 /\ D!AsShort(ShortHalf) = -ShortHalf
<1>1. LongHalf \in Nat \ {0} /\ ShortHalf \in Nat \ {0}
  BY InputAssumption DEF D!DigitAssumption
<1>2. \A x \in -LongHalf .. LongHalf - 1 : D!Signed(x) = {x}
  BY DEF D!Signed, D!Longs
<1>3. \A M \in Nat, x \in Nat : x < M => x % M = x
  OBVIOUS
<1>4. ASSUME NEW x \in 0 .. LongHalf - 1 PROVE D!AsLong(x) = x
  <2>1. x % (2 * LongHalf) = x
    <3>1. 2 * LongHalf \in Nat /\ x \in Nat /\ x < 2 * LongHalf
      BY <1>1
    <3>2. QED BY <1>3, <3>1
  <2>2. QED BY <1>1, <2>1 DEF D!AsLong
<1>5. ASSUME NEW x \in 0 .. ShortHalf PROVE x % (2 * ShortHalf) = x
  <2>1. 2 * ShortHalf \in Nat /\ x \in Nat /\ x < 2 * ShortHalf
    BY <1>1
  <2>2. QED BY <1>3, <2>1
<1>6. (-1) % (2 * ShortHalf) = 2 * ShortHalf - 1
  <2> DEFINE M == 2 * ShortHalf
  <2>1. M \in Nat /\ M > 0 /\ M - 1 \in Nat /\ M - 1 < M /\ (-1) - (M - 1) = (-1) * M
    BY <1>1
  <2> HIDE DEF M
  <2>2. (-1) % M = (M - 1) % M
    BY <2>1, SameResidue
  <2>3. (M - 1) % M = M - 1
    BY <1>3, <2>1
  <2>4. QED BY <2>2, <2>3 DEF M
<1>7. QED BY <1>1, <1>2, <1>4, <1>5, <1>6 DEF D!AsShort

(* The loops of the versions: from the end, the digits of the rest and a   *)
(* power of ten, of which the program knows the residue only, make up the  *)
(* number; from the front, the number is that of what was read.  A short   *)
(* that has counted to its limit turns negative at the end of the string.  *)
Readable == D!Fits(input) /\ (version = 3 \/ Len(input) <= ShortHalf)

Backwards ==
  /\ number_sign = 1
  /\ \/ /\ pos \in 0 .. Len(input) - 1 /\ number \in Nat
        /\ \E P \in Nat : /\ pow_of_ten = P % (2 * LongHalf)
                          /\ D!Value(input) = Prefix(input, pos + 1) * P + number
     \/ pos = -1 /\ number = D!Expected(input)

Forwards ==
  /\ number_sign = IF input[1] = D!Minus THEN -1 ELSE 1
  /\ \/ pos \in 0 .. Len(input) /\ number = Prefix(input, pos)
     \/ pos \in Int /\ pos < 0 /\ number = D!Value(input)

DigitInv ==
  /\ input \in Seq(Chars)
  /\ version \in {0, 1, 2, 3} /\ running \in BOOLEAN
  /\ version = 0 => ~running
  /\ running => input # <<>>
  /\ Readable =>
       /\ version # 0 /\ ~running => number = D!Expected(input)
       /\ running /\ version = 1 => Backwards
       /\ running /\ version \in {2, 3} => Forwards

LEMMA InputIsInt == input \in Seq(Chars) => input \in Seq(Int)
<1> SUFFICES ASSUME input \in Seq(Chars) PROVE input \in Seq(Int)
  OBVIOUS
<1>1. Chars \subseteq Int
  BY InputAssumption DEF D!DigitAssumption
<1>2. Len(input) \in Nat /\ \A k \in 1 .. Len(input) : input[k] \in Int
  <2>1. Len(input) \in Nat
    OBVIOUS
  <2>2. \A k \in 1 .. Len(input) : input[k] \in Chars
    BY ElementOfSeq
  <2>3. QED BY <1>1, <2>1, <2>2
<1>3. input = [k \in 1 .. Len(input) |-> input[k]]
  OBVIOUS
<1>4. QED BY <1>2, <1>3, IsASeq

LEMMA DigitInvInit == D!Init => DigitInv
<1> SUFFICES ASSUME D!Init PROVE DigitInv
  OBVIOUS
<1>1. input \in Seq(Chars)
  <2>1. PICK n \in 0 .. MaxLength : input \in [1 .. n -> Chars]
    BY DEF D!Init, D!Strings
  <2>2. n \in Nat
    OBVIOUS
  <2>3. QED BY <2>1, <2>2
<1>2. version = 0 /\ running = FALSE
  BY DEF D!Init
<1>3. QED BY <1>1, <1>2 DEF DigitInv

(* Every call begins well. *)
LEMMA CallBegins ==
  ASSUME DigitInv, NEW v \in {1, 2, 3}, D!Call(v, input), input' = input
  PROVE  DigitInv'
<1>1. /\ version' = v /\ running' = (input # <<>>) /\ number' = 0 /\ pow_of_ten' = 1
      /\ input \in Seq(Chars) /\ input \in Seq(Int)
      /\ LongHalf \in Nat \ {0} /\ ShortHalf \in Nat \ {0}
  BY InputAssumption, InputIsInt DEF D!Call, DigitInv, D!DigitAssumption
<1>2. CASE input = <<>>
  <2>1. D!Expected(input) = 0
    BY <1>2, ValueIsNat DEF D!Expected
  <2>2. QED BY <1>1, <1>2, <2>1 DEF DigitInv
<1>3. CASE input # <<>> /\ v = 1
  <2>1. pos' = D!AsShort(Len(input) - 1) /\ number_sign' = 1
    BY <1>1, <1>3 DEF D!Call
  <2>2. ASSUME Readable' PROVE Backwards'
    <3>1. Len(input) \in Nat /\ Len(input) > 0 /\ Len(input) <= ShortHalf
      BY <1>1, <1>3, <2>2 DEF Readable
    <3>2. pos' = Len(input) - 1
      <4>1. Len(input) - 1 \in 0 .. ShortHalf - 1
        BY <1>1, <3>1
      <4>2. QED BY <2>1, <4>1, Fitting
    <3>3. 1 = 1 % (2 * LongHalf)
      BY <1>1
    <3>4. D!Value(input) = Prefix(input, pos' + 1) * 1 + 0
      <4>1. pos' + 1 = Len(input)
        BY <3>1, <3>2
      <4>2. D!Value(input) = Prefix(input, Len(input)) /\ D!Value(input) \in Nat
        BY <1>1, Prefixes, ValueIsNat
      <4>3. QED BY <4>1, <4>2
    <3>5. \E P \in Nat : /\ pow_of_ten' = P % (2 * LongHalf)
                         /\ D!Value(input) = Prefix(input, pos' + 1) * P + number'
      BY <1>1, <3>3, <3>4
    <3>6. pos' \in 0 .. Len(input) - 1
      BY <3>1, <3>2
    <3>7. (\E P \in Nat : /\ pow_of_ten = P % (2 * LongHalf)
                         /\ D!Value(input) = Prefix(input, pos + 1) * P + number)'
      BY <3>5 DEF Prefix, D!Value
    <3>8. QED BY <1>1, <2>1, <3>6, <3>7 DEF Backwards
  <2>3. running' /\ version' = 1 /\ version' # 0 /\ version' \notin {2, 3}
    <3>1. running'
      BY <1>1, <1>3, Zenon
    <3>2. version' = 1
      BY <1>1, <1>3
    <3>3. QED BY <3>1, <3>2
  <2>4. QED BY <1>1, <1>3, <2>2, <2>3 DEF DigitInv
<1>4. CASE input # <<>> /\ v # 1
  <2> DEFINE negative == input[1] = D!Minus
  <2>1. /\ number_sign' = (IF negative THEN -1 ELSE 1)
        /\ pos' = (IF negative THEN 1 ELSE 0)
    BY <1>1, <1>4 DEF D!Call
  <2>2. Prefix(input, pos') = 0 /\ pos' \in 0 .. Len(input)
    <3>1. /\ Len(input) \in Nat /\ Len(input) > 0 /\ 0 \in 0 .. Len(input) - 1
          /\ input[1] \in Int
      BY <1>1, <1>4
    <3>2. /\ Prefix(input, 0) = 0
          /\ Prefix(input, 0 + 1) = D!AppendDigit(Prefix(input, 0), input[0 + 1])
      BY <1>1, <3>1, Prefixes
    <3>3. negative => ~D!is_digit(input[1])
      BY DEF D!is_digit, D!Minus, D!Zero
    <3>4. negative => Prefix(input, 1) = 0
      <4>1. 0 + 1 = 1 /\ 0 \in Nat
        OBVIOUS
      <4>2. ~D!is_digit(input[1]) => D!AppendDigit(0, input[1]) = 0
        BY <3>1, <4>1, DigitAdds, Zenon
      <4>3. QED BY <3>2, <3>3, <4>1, <4>2
    <3>5. QED BY <2>1, <3>1, <3>2, <3>4
  <2>3. Forwards'
    BY <1>1, <2>1, <2>2 DEF Forwards, Prefix, D!Value, D!Minus
  <2>4. running' /\ version' # 1 /\ version' # 0 /\ version' \in {2, 3}
    <3>1. running'
      BY <1>1, <1>4, Zenon
    <3>2. version' = v
      BY <1>1
    <3>3. QED BY <1>4, <3>1, <3>2
  <2>5. QED BY <1>1, <1>4, <2>3, <2>4 DEF DigitInv
<1>5. QED BY <1>2, <1>3, <1>4

(* A digit moves from what is not read yet to what is; all that is known   *)
(* of the power of ten is its residue, and that is enough.                 *)
Carried(V, Front, d, P, q, M) ==
  /\ V = Front * (P * 10) + (q + d * P) /\ q + d * P \in Nat /\ q + d * P <= V
  /\ (q + d * (P % M)) % M = q + d * P
  /\ ((P % M) * 10) % M = (P * 10) % M

LEMMA DigitCarries ==
  ASSUME NEW V \in Nat, NEW Front \in Nat, NEW d \in Nat, NEW P \in Nat, NEW q \in Nat,
         NEW M \in Nat, M > 0, V < M, V = (Front * 10 + d) * P + q
  PROVE  Carried(V, Front, d, P, q, M)
<1>1. PICK k \in Int : P = k * M + (P % M) /\ 0 <= P % M /\ P % M \in Int
  <2>1. P \in Int
    OBVIOUS
  <2>2. \E k \in Int : P = k * M + (P % M) /\ 0 <= P % M /\ P % M < M /\ P % M \in Int
    BY <2>1, Division, Zenon
  <2>3. QED BY <2>2, Zenon
<1> DEFINE r == P % M
<1>2. r \in Int /\ P = k * M + r
  BY <1>1
<1> HIDE DEF r
<1>3. (r * 10) % M = (P * 10) % M
  <2>1. r * 10 \in Int /\ P * 10 \in Int /\ -(k * 10) \in Int /\ r * 10 - P * 10 = (-(k * 10)) * M
    BY <1>2
  <2> DEFINE a == r * 10
             b == P * 10
             c == -(k * 10)
  <2> HIDE DEF a, b, c
  <2>2. a % M = b % M
    BY <2>1, SameResidue DEF a, b, c
  <2>3. QED BY <2>2 DEF a, b
<1>4. V = Front * (P * 10) + (q + d * P) /\ q + d * P \in Nat /\ Front * (P * 10) \in Nat
  <2>1. (Front * 10 + d) * P = Front * (P * 10) + d * P
    OBVIOUS
  <2>2. d * P \in Nat /\ Front * (P * 10) \in Nat
    <3>1. \A x, y \in Nat : x * y \in Nat
      OBVIOUS
    <3>2. QED BY <3>1
  <2>3. QED BY <2>1, <2>2
<1>5. q + d * P <= V
  <2> DEFINE a == Front * (P * 10)
             b == q + d * P
  <2>1. a \in Nat /\ b \in Nat /\ V = a + b
    BY <1>4
  <2> HIDE DEF a, b
  <2>2. b <= V
    BY <2>1
  <2>3. QED BY <2>2 DEF b
<1>6. (q + d * r) % M = q + d * P
  <2> DEFINE a == q + d * r
             b == q + d * P
             c == -(d * k)
  <2>1. d * r \in Int /\ d * k \in Int
    BY <1>2
  <2>2. d * P = (d * k) * M + d * r
    BY <1>2
  <2>3. a \in Int /\ b \in Nat /\ c \in Int /\ b < M
    BY <1>4, <1>5, <2>1
  <2>4. a - b = c * M
    <3> DEFINE x == d * k
               y == d * r
    <3>1. x \in Int /\ y \in Int /\ d * P = x * M + y /\ a = q + y /\ b = q + d * P /\ c = -x
      BY <2>1, <2>2
    <3> HIDE DEF x, y, a, b, c
    <3>2. QED BY <3>1
  <2> HIDE DEF a, b, c
  <2>5. a % M = b % M
    BY <2>3, <2>4, SameResidue
  <2>6. b % M = b
    BY <2>3
  <2>7. QED BY <2>5, <2>6 DEF a, b
<1>7. QED BY <1>3, <1>4, <1>5, <1>6 DEF r, Carried

LEMMA BackwardsTurn ==
  ASSUME DigitInv, running, version = 1, D!LoopGoesOn, D!TurnBackwards, Readable,
         UNCHANGED <<input, number_sign>>
  PROVE  Backwards'
<1> DEFINE n == Len(input)
           V == D!Value(input)
           Front == Prefix(input, pos)
           c == input[pos + 1]
           d == D!char_to_digit(c)
           q == number
           M == 2 * LongHalf
<1>1. /\ LongHalf \in Nat \ {0} /\ ShortHalf \in Nat \ {0} /\ M \in Nat /\ M > 0
      /\ input \in Seq(Int) /\ n \in Nat /\ n <= ShortHalf
      /\ V < LongHalf /\ V \in Nat
  BY InputAssumption, InputIsInt, ValueIsNat
     DEF DigitInv, D!DigitAssumption, Readable, D!Fits
<1>2. number_sign = 1 /\ pos \in 0 .. n - 1 /\ q \in Nat
  BY <1>1 DEF DigitInv, Backwards, D!LoopGoesOn
<1>3. PICK P \in Nat : pow_of_ten = P % M /\ V = Prefix(input, pos + 1) * P + q
  BY <1>1 DEF DigitInv, Backwards, D!LoopGoesOn
<1>4. /\ Front \in Nat /\ c \in Int /\ Prefix(input, pos + 1) = D!AppendDigit(Front, c)
      /\ pos = 0 => Front = 0
  <2>1. pos \in 0 .. n /\ pos + 1 \in 1 .. n
    BY <1>1, <1>2
  <2>2. QED BY <1>1, <1>2, <2>1, Prefixes, ElementOfSeq
<1>5. D!Character(pos) = c /\ pos \in Int
  BY <1>2 DEF D!Character
<1>6. /\ pos' = D!AsShort(pos - 1)
      /\ D!is_digit(c) => /\ number' = D!AsLong(q + d * pow_of_ten)
                          /\ pow_of_ten' = D!AsUnsigned(pow_of_ten * 10)
      /\ ~D!is_digit(c) => /\ number' \in IF pos = 0 /\ c = D!Minus THEN D!Signed(-q) ELSE {q}
                           /\ pow_of_ten' = pow_of_ten
  BY <1>5 DEF D!TurnBackwards
<1>7. pos' = pos - 1
  <2>1. CASE pos = 0
    BY <1>6, <2>1, Fitting
  <2>2. CASE pos # 0
    <3>1. pos - 1 \in 0 .. ShortHalf - 1
      BY <1>1, <1>2, <2>2
    <3>2. QED BY <1>6, <3>1, Fitting
  <2>3. QED BY <2>1, <2>2
<1>8. pos = 0 => D!Expected(input) = IF c = D!Minus THEN -V ELSE V
  BY <1>1, <1>2 DEF D!Expected
<1>9. ASSUME pos # 0, number' \in Nat, NEW Rest \in Nat,
             pow_of_ten' = Rest % M, V = Front * Rest + number'
      PROVE  Backwards'
  <2>1. pos' \in 0 .. n - 1 /\ pos' + 1 = pos
    BY <1>1, <1>2, <1>7, <1>9
  <2>2. V = Prefix(input, pos' + 1) * Rest + number'
    BY <1>9, <2>1
  <2>3. (\E S \in Nat : /\ pow_of_ten = S % (2 * LongHalf)
                       /\ D!Value(input) = Prefix(input, pos + 1) * S + number)'
    BY <1>9, <2>2 DEF Prefix, D!Value
  <2>4. QED BY <1>2, <1>9, <2>1, <2>3 DEF Backwards
<1>10. ASSUME pos = 0, number' = D!Expected(input) PROVE Backwards'
  <2>1. pos' = -1
    BY <1>7, <1>10
  <2>2. D!Expected(input)' = D!Expected(input)
    BY DEF D!Expected, D!Value, D!Minus
  <2>3. QED BY <1>2, <1>10, <2>1, <2>2 DEF Backwards
<1>11. CASE D!is_digit(c)
  <2>1. d \in Nat /\ Prefix(input, pos + 1) = Front * 10 + d
    BY <1>4, <1>11, DigitAdds
  <2>2. V = (Front * 10 + d) * P + q /\ V < M
    BY <1>1, <1>3, <2>1
  <2> HIDE DEF V, Front, c, d, q, M, n
  <2>3. /\ V = Front * (P * 10) + (q + d * P) /\ q + d * P \in Nat /\ q + d * P <= V
        /\ (q + d * (P % M)) % M = q + d * P
        /\ ((P % M) * 10) % M = (P * 10) % M
    <3>1. /\ V \in Nat /\ Front \in Nat /\ d \in Nat /\ P \in Nat /\ q \in Nat
          /\ M \in Nat /\ M > 0 /\ V < M /\ V = (Front * 10 + d) * P + q
      BY <1>1, <1>2, <1>4, <2>1, <2>2
    <3>2. Carried(V, Front, d, P, q, M)
      BY <3>1, DigitCarries, Zenon
    <3>3. QED BY <3>2 DEF Carried
  <2>4. number' = q + d * P
    <3>1. D!AsLong(q + d * pow_of_ten) = q + d * P
      <4> DEFINE x == q + d * pow_of_ten
      <4>1. x % (2 * LongHalf) = q + d * P
        BY <1>3, <2>3 DEF M
      <4> HIDE DEF x
      <4>2. q + d * P < LongHalf
        BY <1>1, <2>3
      <4>3. D!AsLong(x) = q + d * P
        BY <4>1, <4>2 DEF D!AsLong
      <4>4. QED BY <4>3 DEF x
    <3>2. QED BY <1>6, <1>11, <3>1
  <2>5. pow_of_ten' = (P * 10) % M
    BY <1>3, <1>6, <1>11, <2>3 DEF D!AsUnsigned, M
  <2>6. CASE pos # 0
    <3>1. P * 10 \in Nat
      OBVIOUS
    <3>2. QED BY <1>9, <2>3, <2>4, <2>5, <2>6, <3>1
  <2>7. CASE pos = 0
    <3>1. Front = 0 /\ 0 * (P * 10) = 0
      BY <1>4, <2>7
    <3>2. V = q + d * P
      BY <2>3, <3>1
    <3>3. c # D!Minus
      BY <1>11 DEF D!is_digit, D!Zero, D!Minus
    <3>4. QED BY <1>8, <1>10, <2>4, <2>7, <3>2, <3>3
  <2>8. QED BY <2>6, <2>7
<1>12. CASE ~D!is_digit(c)
  <2>1. Prefix(input, pos + 1) = Front
    BY <1>4, <1>12, DigitAdds
  <2>2. V = Front * P + q
    BY <1>3, <2>1
  <2> HIDE DEF V, Front, c, M, n
  <2>3. CASE pos # 0
    <3>1. number' = q
      BY <1>6, <1>12, <2>3
    <3>2. QED BY <1>2, <1>3, <1>6, <1>9, <1>12, <2>2, <2>3, <3>1
  <2>4. CASE pos = 0
    <3>1. V = q
      BY <1>2, <1>4, <2>2, <2>4
    <3>2. D!Signed(-q) = {-q}
      <4>1. -q \in -LongHalf .. LongHalf - 1
        BY <1>1, <1>2, <3>1
      <4>2. QED BY <4>1, Fitting
    <3>3. number' = IF c = D!Minus THEN -V ELSE V
      BY <1>6, <1>12, <2>4, <3>1, <3>2
    <3>4. QED BY <1>8, <1>10, <2>4, <3>3
  <2>5. QED BY <2>3, <2>4
<1>13. QED BY <1>11, <1>12

LEMMA ForwardsTurn ==
  ASSUME DigitInv, running, version \in {2, 3}, D!LoopGoesOn, D!TurnForwards, Readable,
         UNCHANGED <<input, version, number_sign>>
  PROVE  Forwards'
<1> DEFINE n == Len(input)
           Front == Prefix(input, pos)
           c == input[pos + 1]
<1>1. /\ LongHalf \in Nat \ {0} /\ ShortHalf \in Nat \ {0}
      /\ input \in Seq(Int) /\ n \in Nat
      /\ version = 2 => n <= ShortHalf
      /\ D!Value(input) < LongHalf /\ D!Value(input) \in Nat
  BY InputAssumption, InputIsInt, ValueIsNat
     DEF DigitInv, D!DigitAssumption, Readable, D!Fits
<1>2. /\ number_sign = (IF input[1] = D!Minus THEN -1 ELSE 1)
      /\ pos \in 0 .. n - 1 /\ number = Front
  <2>1. Forwards
    BY DEF DigitInv
  <2>2. pos \in Int /\ pos >= 0 /\ pos < n
    BY <1>1, <2>1 DEF Forwards, D!LoopGoesOn
  <2>3. QED BY <1>1, <2>1, <2>2 DEF Forwards
<1>3. /\ Front \in Nat /\ c \in Int /\ Prefix(input, pos + 1) = D!AppendDigit(Front, c)
      /\ Prefix(input, pos + 1) \in Nat /\ Prefix(input, pos + 1) <= D!Value(input)
  <2>1. pos \in 0 .. n /\ pos + 1 \in 1 .. n /\ pos + 1 \in 0 .. n
    BY <1>1, <1>2
  <2>2. input[pos + 1] \in Int
    BY <1>1, <2>1, ElementOfSeq
  <2>3. QED BY <1>1, <1>2, <2>1, <2>2, Prefixes
<1>4. /\ number' \in IF D!is_digit(c) THEN D!Signed(Front * 10 + D!char_to_digit(c)) ELSE {Front}
      /\ pos' = IF version = 2 THEN D!AsShort(pos + 1) ELSE pos + 1
  BY <1>2 DEF D!TurnForwards, D!Character
<1> HIDE DEF Front, c, n
<1>5. number' = Prefix(input, pos + 1)
  <2>1. CASE D!is_digit(c)
    <3>1. Front * 10 + D!char_to_digit(c) = Prefix(input, pos + 1)
      BY <1>3, <2>1, DigitAdds
    <3>2. D!Signed(Prefix(input, pos + 1)) = {Prefix(input, pos + 1)}
      <4>1. Prefix(input, pos + 1) \in -LongHalf .. LongHalf - 1
        BY <1>1, <1>3
      <4>2. QED BY <4>1, Fitting
    <3>3. QED BY <1>4, <2>1, <3>1, <3>2
  <2>2. CASE ~D!is_digit(c)
    <3>1. Prefix(input, pos + 1) = Front
      BY <1>3, <2>2, DigitAdds
    <3>2. QED BY <1>4, <2>2, <3>1
  <2>3. QED BY <2>1, <2>2
<1>6. \/ pos' \in 0 .. n /\ number' = Prefix(input, pos')
      \/ pos' \in Int /\ pos' < 0 /\ number' = D!Value(input)
  <2>1. CASE version = 2 /\ pos + 1 = ShortHalf
    <3>1. pos' = -ShortHalf
      BY <1>4, <2>1, Fitting
    <3>2. pos + 1 = n
      BY <1>1, <1>2, <2>1
    <3>3. Prefix(input, pos + 1) = D!Value(input)
      BY <1>1, <3>2, Prefixes DEF n
    <3>4. QED BY <1>1, <1>5, <3>1, <3>3
  <2>2. CASE version = 2 /\ pos + 1 # ShortHalf
    <3>1. pos + 1 \in 0 .. ShortHalf - 1
      BY <1>1, <1>2, <2>2
    <3>2. pos' = pos + 1
      BY <1>4, <2>2, <3>1, Fitting
    <3>3. QED BY <1>1, <1>2, <1>5, <3>2
  <2>3. CASE version # 2
    <3>1. pos' = pos + 1
      BY <1>4, <2>3
    <3>2. QED BY <1>1, <1>2, <1>5, <3>1
  <2>4. QED BY <2>1, <2>2, <2>3
<1>7. /\ D!Value(input)' = D!Value(input) /\ Prefix(input, pos)' = Prefix(input, pos')
      /\ Len(input)' = n /\ D!Minus' = D!Minus /\ input' = input /\ number_sign' = number_sign
  BY DEF Prefix, D!Value, D!Minus, n
<1>8. QED BY <1>2, <1>6, <1>7 DEF Forwards

(* Where a loop ends, its number is the one of the whole string.           *)
LEMMA ReturnHolds ==
  ASSUME DigitInv, D!Return, Readable
  PROVE  number' = D!Expected(input)
<1> DEFINE V == D!Value(input)
<1>1. /\ LongHalf \in Nat \ {0} /\ input \in Seq(Int) /\ Len(input) \in Nat
      /\ V < LongHalf /\ V \in Nat /\ input # <<>>
  BY InputAssumption, InputIsInt, ValueIsNat
     DEF DigitInv, D!DigitAssumption, Readable, D!Fits, D!Return
<1>2. /\ number' \in D!Signed(number_sign * number) /\ ~D!LoopGoesOn
      /\ running /\ version \in {1, 2, 3}
  BY DEF D!Return, DigitInv
<1>3. D!Expected(input) = IF input[1] = D!Minus THEN -V ELSE V
  BY <1>1 DEF D!Expected
<1>4. number_sign * number = D!Expected(input)
  <2>1. CASE version = 1
    <3>1. Backwards
      BY <1>2, <2>1 DEF DigitInv
    <3>2. number_sign = 1 /\ number = D!Expected(input)
      BY <1>1, <1>2, <2>1, <3>1 DEF Backwards, D!LoopGoesOn
    <3>3. D!Expected(input) \in Int
      BY <1>1, <1>3
    <3>4. QED BY <3>2, <3>3
  <2>2. CASE version # 1
    <3>1. Forwards
      BY <1>2, <2>2 DEF DigitInv
    <3>2. number = V
      <4>1. CASE pos \in 0 .. Len(input) /\ number = Prefix(input, pos)
        <5>1. pos = Len(input)
          BY <1>1, <1>2, <2>2, <4>1 DEF D!LoopGoesOn
        <5>2. QED BY <1>1, <4>1, <5>1, Prefixes
      <4>2. CASE pos \in Int /\ pos < 0 /\ number = V
        BY <4>2
      <4>3. QED BY <3>1, <4>1, <4>2 DEF Forwards
    <3>3. number_sign = IF input[1] = D!Minus THEN -1 ELSE 1
      BY <3>1 DEF Forwards
    <3> HIDE DEF V
    <3>4. (-1) * V = -V /\ 1 * V = V
      BY <1>1
    <3>5. QED BY <1>3, <3>2, <3>3, <3>4
  <2>3. QED BY <2>1, <2>2
<1>5. D!Expected(input) \in -LongHalf .. LongHalf - 1
  BY <1>1, <1>3
<1>6. D!Signed(D!Expected(input)) = {D!Expected(input)}
  BY <1>5, Fitting
<1>7. QED BY <1>2, <1>4, <1>6

LEMMA DigitsSame ==
  DigitInv /\ UNCHANGED <<input, version, running, pos, number, pow_of_ten, number_sign>>
    => DigitInv'
<1> SUFFICES ASSUME DigitInv,
                    UNCHANGED <<input, version, running, pos, number, pow_of_ten, number_sign>>
             PROVE  DigitInv'
  OBVIOUS
<1>1. /\ Readable' = Readable /\ Backwards' = Backwards /\ Forwards' = Forwards
      /\ D!Expected(input)' = D!Expected(input)
  BY DEF Readable, Backwards, Forwards, Prefix, D!Fits, D!Expected, D!Value, D!Minus
<1>2. QED BY <1>1 DEF DigitInv

LEMMA DigitInvNext == DigitInv /\ [D!Next]_digitVars => DigitInv'
<1> SUFFICES ASSUME DigitInv, [D!Next]_digitVars PROVE DigitInv'
  OBVIOUS
<1>1. CASE D!Start
  BY <1>1, CallBegins DEF D!Start
<1>2. CASE D!Turn
  <2>1. /\ running /\ UNCHANGED <<input, version, running, number_sign>> /\ D!LoopGoesOn
        /\ version = 1 => D!TurnBackwards
        /\ version # 1 => D!TurnForwards
    BY <1>2 DEF D!Turn
  <2>2. Readable' => Readable
    BY <2>1 DEF Readable, D!Fits, D!Value
  <2>3. CASE version = 1
    <3>1. Readable' => Backwards'
      BY <2>1, <2>2, <2>3, BackwardsTurn
    <3>2. QED BY <2>1, <2>3, <3>1 DEF DigitInv
  <2>4. CASE version # 1
    <3>1. version \in {2, 3}
      BY <2>1, <2>4 DEF DigitInv
    <3>2. Readable' => Forwards'
      BY <2>1, <2>2, <2>4, <3>1, ForwardsTurn
    <3>3. QED BY <2>1, <2>4, <3>1, <3>2 DEF DigitInv
  <2>5. QED BY <2>3, <2>4
<1>3. CASE D!Return
  <2>1. UNCHANGED <<input, version>> /\ running' = FALSE
    BY <1>3 DEF D!Return
  <2>2. Readable' => Readable
    BY <2>1 DEF Readable, D!Fits, D!Value
  <2>3. D!Expected(input)' = D!Expected(input)
    BY <2>1 DEF D!Expected, D!Value, D!Minus
  <2>4. Readable' => (number = D!Expected(input))'
    BY <1>3, <2>2, <2>3, ReturnHolds
  <2>5. QED BY <2>1, <2>4 DEF DigitInv
<1>4. CASE D!Compare
  <2>1. input' = input /\ version > 0 /\ ~running
    BY <1>4 DEF D!Compare
  <2>2. CASE version < 3
    <3>1. version + 1 \in {1, 2, 3} /\ D!Call(version + 1, input)
      BY <1>4, <2>1, <2>2 DEF D!Compare, DigitInv
    <3>2. QED BY <2>1, <3>1, CallBegins
  <2>3. CASE ~(version < 3)
    <3>1. UNCHANGED <<input, version, running, pos, number, pow_of_ten, number_sign>>
      BY <1>4, <2>3 DEF D!Compare
    <3>2. QED BY <3>1, DigitsSame
  <2>4. QED BY <2>2, <2>3
<1>5. CASE UNCHANGED digitVars
  BY <1>5, DigitsSame DEF digitVars
<1>6. QED BY <1>1, <1>2, <1>3, <1>4, <1>5 DEF D!Next

(* All three versions return the number of the string, for strings of any  *)
(* length and any width of the numbers, although the power of ten of the   *)
(* first may have overflown on the way.                                    *)
THEOREM DigitsAlwaysRead == D!Init /\ [][D!Next]_D!vars => []DigitsAreRead
<1>1. DigitInv => DigitsAreRead
  BY DEF DigitInv, DigitsAreRead, D!DigitsAreRead, Readable
<1>2. DigitInv /\ [D!Next]_D!vars => DigitInv'
  BY DigitInvNext DEF D!vars, digitVars
<1>3. QED BY <1>1, <1>2, DigitInvInit, PTL
-----------------------------------------------------------------------------
(* BitProcessor: the bits of a number are the parities of its quotients by *)
(* powers of two, of negative numbers too.                                 *)
LEMMA QuotientIs ==
  ASSUME NEW d \in Nat, d > 0, NEW q \in Int, NEW r \in Int, 0 <= r, r < d
  PROVE  (q * d + r) \div d = q /\ (q * d + r) % d = r
<1> DEFINE a == q * d + r
           p == a \div d
           t == a % d
<1>1. a \in Int
  OBVIOUS
<1>2. a = p * d + t /\ p \in Int /\ t \in Int /\ 0 <= t /\ t < d
  <2> HIDE DEF a
  <2>1. QED BY <1>1
<1>3. a = q * d + r
  OBVIOUS
<1> HIDE DEF a, p, t
<1>4. (p - q) * d = r - t
  <2>1. (p - q) * d = p * d - q * d
    BY <1>2
  <2>2. QED BY <2>1, <1>2, <1>3
<1>5. p - q = 0
  <2>1. p - q \in Int /\ (p - q) * d < d /\ -((p - q) * d) < d
    BY <1>2, <1>4
  <2>2. QED BY <2>1, SmallMultiple
<1>6. p = q /\ t = r
  <2>1. p = q
    BY <1>2, <1>5
  <2>2. QED BY <1>2, <1>3, <2>1
<1>7. QED BY <1>6 DEF a, p, t

LEMMA Divided ==
  ASSUME NEW d \in Nat, d > 0, NEW a \in Int
  PROVE  /\ a \div d \in Int /\ a % d \in Int /\ 0 <= a % d /\ a % d < d
         /\ a = (a \div d) * d + (a % d)
OBVIOUS

LEMMA Shifted ==
  ASSUME NEW d \in Nat, d > 0, NEW a \in Int, NEW k \in Int
  PROVE  (a + k * d) \div d = (a \div d) + k
<1> DEFINE q == a \div d
           r == a % d
<1>1. q \in Int /\ r \in Int /\ 0 <= r /\ r < d /\ a = q * d + r
  BY Divided
<1> HIDE DEF q, r
<1>2. a + k * d = (q + k) * d + r
  BY <1>1
<1>3. ((q + k) * d + r) \div d = q + k
  BY <1>1, QuotientIs
<1>4. (a + k * d) \div d = q + k
  BY <1>2, <1>3
<1>5. QED BY <1>4 DEF q

LEMMA Parity ==
  ASSUME NEW a \in Int, NEW k \in Int
  PROVE  /\ a % 2 \in {0, 1} /\ (a + 2 * k) % 2 = a % 2
         /\ (a + 1) % 2 = 1 - (a % 2)
OBVIOUS

(* The powers exist: an initial piece of them can be continued.            *)
DoubleOf(f, p) == IF p = 0 THEN 1 ELSE 2 * f[p - 1]
IsPower(f, n) == f = [p \in 0 .. n |-> DoubleOf(f, p)]

LEMMA PowerAt ==
  ASSUME NEW f, NEW n, IsPower(f, n)
  PROVE  \A p \in 0 .. n : f[p] = DoubleOf(f, p)
BY DEF IsPower

LEMMA PowersExist ==
  ASSUME NEW n \in Nat
  PROVE  \E f : IsPower(f, n)
<1> DEFINE K == {m \in Nat : \E f : IsPower(f, m)}
<1>1. 0 \in K
  <2> DEFINE z == [p \in 0 .. 0 |-> 1]
  <2>1. \A p \in 0 .. 0 : DoubleOf(z, p) = 1
    BY DEF DoubleOf
  <2>2. z = [p \in 0 .. 0 |-> DoubleOf(z, p)]
    BY <2>1
  <2> HIDE DEF z
  <2>3. IsPower(z, 0)
    BY <2>2 DEF IsPower
  <2>4. QED BY <2>3
<1>2. ASSUME NEW m \in K PROVE m + 1 \in K
  <2>1. m \in Nat
    OBVIOUS
  <2>2. PICK f : IsPower(f, m)
    OBVIOUS
  <2> DEFINE g == [p \in 0 .. m + 1 |-> IF p = m + 1 THEN 2 * f[m] ELSE f[p]]
  <2>3. \A p \in 0 .. m : f[p] = DoubleOf(f, p)
    BY <2>2, PowerAt, Zenon
  <2>4. \A p \in 0 .. m : g[p] = f[p]
    BY <2>1
  <2>5. g[m + 1] = 2 * f[m]
    BY <2>1
  <2>6. g = [p \in 0 .. m + 1 |-> g[p]]
    OBVIOUS
  <2> HIDE DEF g
  <2>7. ASSUME NEW p \in 0 .. m + 1 PROVE g[p] = DoubleOf(g, p)
    <3>1. CASE p = m + 1
      <4>1. p # 0 /\ p - 1 = m /\ m \in 0 .. m
        BY <2>1, <3>1
      <4>2. g[p - 1] = f[m]
        BY <2>4, <4>1
      <4>3. QED BY <2>5, <3>1, <4>1, <4>2 DEF DoubleOf
    <3>2. CASE p # m + 1
      <4>1. p \in 0 .. m /\ (p # 0 => p - 1 \in 0 .. m)
        BY <2>1, <3>2
      <4>2. QED BY <2>3, <2>4, <4>1 DEF DoubleOf
    <3>3. QED BY <3>1, <3>2
  <2>8. IsPower(g, m + 1)
    BY <2>6, <2>7 DEF IsPower
  <2>9. QED BY <2>1, <2>8
<1>3. K \in SUBSET Nat
  OBVIOUS
<1> HIDE DEF K
<1>4. K = Nat
  BY <1>1, <1>2, <1>3, SetInduction
<1>5. n \in K
  BY <1>4
<1>6. QED BY <1>5 DEF K

LEMMA WidthIs == Width \in Nat /\ Width >= 2 /\ CharSize \in Nat /\ CharSize > Width
                 /\ MaxTyped \in Nat
BY InputAssumption DEF B!BitAssumption

LEMMA Doubles ==
  /\ B!Power[0] = 1
  /\ \A p \in 0 .. Width : p # 0 => B!Power[p] = 2 * B!Power[p - 1]
<1> DEFINE f == B!Power
<1>1. f = CHOOSE g : g = [p \in 0 .. Width |-> DoubleOf(g, p)]
  BY DEF B!Power, DoubleOf
<1>2. \E g : g = [p \in 0 .. Width |-> DoubleOf(g, p)]
  <2>1. \E g : IsPower(g, Width)
    BY WidthIs, PowersExist, Zenon
  <2>2. QED BY <2>1 DEF IsPower
<1>3. f = [p \in 0 .. Width |-> DoubleOf(f, p)]
  BY <1>1, <1>2
<1> HIDE DEF f
<1>4. \A p \in 0 .. Width : f[p] = DoubleOf(f, p)
  <2>1. IsPower(f, Width)
    BY <1>3 DEF IsPower
  <2>2. QED BY <2>1, PowerAt, Zenon
<1>5. 0 \in 0 .. Width
  BY WidthIs
<1>6. f[0] = 1 /\ \A p \in 0 .. Width : p # 0 => f[p] = 2 * f[p - 1]
  BY <1>4, <1>5 DEF DoubleOf
<1>7. QED BY <1>6 DEF f

LEMMA PowersArePositive ==
  /\ \A p \in 0 .. Width : B!Power[p] \in Nat /\ B!Power[p] > 0
  /\ B!Half = B!Power[Width - 1] /\ B!Half \in Nat /\ B!Half > 0
  /\ 2 * B!Half = B!Power[Width]
<1> DEFINE K == {m \in Nat : m <= Width => B!Power[m] \in Nat /\ B!Power[m] > 0}
<1>1. 0 \in K
  BY Doubles
<1>2. ASSUME NEW m \in K PROVE m + 1 \in K
  <2>1. CASE m + 1 <= Width
    <3>1. m + 1 \in 0 .. Width /\ m + 1 # 0 /\ (m + 1) - 1 = m /\ m <= Width
      BY <2>1, WidthIs
    <3>2. B!Power[m + 1] = 2 * B!Power[m]
      BY <3>1, Doubles
    <3>3. QED BY <3>1, <3>2
  <2>2. QED BY <2>1
<1>3. K \in SUBSET Nat
  OBVIOUS
<1> HIDE DEF K
<1>4. K = Nat
  BY <1>1, <1>2, <1>3, SetInduction
<1>5. \A p \in 0 .. Width : B!Power[p] \in Nat /\ B!Power[p] > 0
  BY <1>4 DEF K
<1>6. Width \in 0 .. Width /\ Width - 1 \in 0 .. Width /\ Width # 0
  BY WidthIs
<1>7. QED BY <1>5, <1>6, Doubles DEF B!Half

(* A larger power is an even multiple of a smaller one.                    *)
LEMMA PowersDivide ==
  ASSUME NEW p \in 0 .. Width, NEW q \in 0 .. Width, p < q
  PROVE  \E m \in Nat : m > 0 /\ B!Power[q] = (2 * m) * B!Power[p]
<1> DEFINE Even(n) == \E m \in Nat : m > 0 /\ B!Power[n] = (2 * m) * B!Power[p]
           K == {n \in Nat : p < n /\ n <= Width => Even(n)}
<1>1. 0 \in K
  OBVIOUS
<1>2. ASSUME NEW n \in K PROVE n + 1 \in K
  <2>1. SUFFICES ASSUME p < n + 1, n + 1 <= Width PROVE Even(n + 1)
    OBVIOUS
  <2>2. B!Power[n + 1] = 2 * B!Power[n] /\ n \in 0 .. Width
    <3>1. n + 1 \in 0 .. Width /\ n + 1 # 0 /\ (n + 1) - 1 = n
      BY <2>1
    <3>2. QED BY <2>1, <3>1, WidthIs, Doubles
  <2>3. CASE n = p
    <3>1. B!Power[n + 1] = (2 * 1) * B!Power[p]
      BY <2>2, <2>3
    <3>2. QED BY <3>1
  <2>4. CASE n # p
    <3>1. PICK m \in Nat : m > 0 /\ B!Power[n] = (2 * m) * B!Power[p]
      <4>1. p < n /\ n <= Width
        BY <2>1, <2>4, WidthIs
      <4>2. QED BY <4>1
    <3>2. B!Power[p] \in Nat
      BY PowersArePositive
    <3>3. B!Power[n + 1] = (2 * (2 * m)) * B!Power[p]
      BY <2>2, <3>1, <3>2
    <3>4. 2 * m \in Nat /\ 2 * m > 0
      BY <3>1
    <3>5. QED BY <3>3, <3>4
  <2>5. QED BY <2>3, <2>4
<1>3. K \in SUBSET Nat
  OBVIOUS
<1> HIDE DEF K
<1>4. K = Nat
  BY <1>1, <1>2, <1>3, SetInduction
<1>5. q \in K
  BY <1>4
<1>6. Even(q)
  BY <1>5 DEF K
<1>7. QED BY <1>6
-----------------------------------------------------------------------------
BinaryDigit(x, p) == (x \div B!Power[p]) % 2

LEMMA DigitIs ==
  ASSUME NEW x \in Int, NEW p \in B!Positions
  PROVE  /\ B!Power[p] \in Nat /\ B!Power[p] > 0 /\ p \in 0 .. Width /\ p < Width
         /\ x \div B!Power[p] \in Int /\ BinaryDigit(x, p) \in {0, 1}
<1>1. p \in 0 .. Width /\ p < Width
  BY WidthIs DEF B!Positions
<1>2. B!Power[p] \in Nat /\ B!Power[p] > 0
  BY <1>1, PowersArePositive
<1>3. x \div B!Power[p] \in Int
  BY <1>2, Divided
<1>4. QED BY <1>1, <1>2, <1>3, Parity DEF BinaryDigit

(* A multiple of a larger power changes no lower bit.                      *)
LEMMA AddHigher ==
  ASSUME NEW x \in Int, NEW k \in Int, NEW p \in B!Positions, NEW q \in 0 .. Width, p < q
  PROVE  BinaryDigit(x + k * B!Power[q], p) = BinaryDigit(x, p)
<1> DEFINE d == B!Power[p]
<1>1. d \in Nat /\ d > 0 /\ p \in 0 .. Width /\ x \div d \in Int
  BY DigitIs
<1>2. PICK m \in Nat : B!Power[q] = (2 * m) * d
  BY <1>1, PowersDivide
<1> HIDE DEF d
<1>3. k * ((2 * m) * d) = (2 * (k * m)) * d
  BY <1>1
<1>4. k * m \in Int /\ 2 * (k * m) \in Int
  OBVIOUS
<1>5. (x + (2 * (k * m)) * d) \div d = (x \div d) + 2 * (k * m)
  BY <1>1, <1>4, Shifted
<1>6. ((x \div d) + 2 * (k * m)) % 2 = (x \div d) % 2
  BY <1>1, <1>4, Parity
<1>7. (x + k * B!Power[q]) \div d = (x \div d) + 2 * (k * m)
  BY <1>2, <1>3, <1>5
<1>8. QED BY <1>6, <1>7 DEF BinaryDigit, d

(* The power of a position flips its own bit.                              *)
LEMMA AddOwn ==
  ASSUME NEW x \in Int, NEW p \in B!Positions
  PROVE  BinaryDigit(x + B!Power[p], p) = 1 - BinaryDigit(x, p)
<1> DEFINE d == B!Power[p]
<1>1. d \in Nat /\ d > 0 /\ x \div d \in Int
  BY DigitIs
<1> HIDE DEF d
<1>2. (x + 1 * d) \div d = (x \div d) + 1
  BY <1>1, Shifted
<1>3. x + d = x + 1 * d
  BY <1>1
<1>4. (x + d) \div d = (x \div d) + 1
  BY <1>2, <1>3
<1>5. QED BY <1>1, <1>4, Parity DEF BinaryDigit, d

(* If the bit was 0, the power of the position changes no higher quotient. *)
LEMMA AddLower ==
  ASSUME NEW x \in Int, NEW p \in B!Positions, NEW q \in 0 .. Width, p < q,
         BinaryDigit(x, p) = 0
  PROVE  (x + B!Power[p]) \div B!Power[q] = x \div B!Power[q]
<1> DEFINE d == B!Power[p]
           u == x \div d
           r == x % d
<1>1. d \in Nat /\ d > 0 /\ p \in 0 .. Width /\ u \in Int /\ u % 2 = 0
  BY DigitIs DEF BinaryDigit
<1>2. PICK m \in Nat : m > 0 /\ B!Power[q] = (2 * m) * d
  BY <1>1, PowersDivide
<1>3. r \in Int /\ 0 <= r /\ r < d /\ x = u * d + r
  BY <1>1, Divided
<1> HIDE DEF d, u, r
<1>4. PICK a \in Int : u = 2 * a
  <2>1. u \div 2 \in Int /\ u = 2 * (u \div 2)
    BY <1>1
  <2>2. QED BY <2>1
<1> DEFINE b == a \div m
           c == a % m
<1>5. b \in Int /\ c \in Int /\ 0 <= c /\ c <= m - 1 /\ a = b * m + c
  BY <1>2, Divided
<1> HIDE DEF b, c
<1> DEFINE e == (2 * m) * d
           t == (2 * c) * d + r
<1>6. x = b * e + t
  <2>1. u * d = (2 * (b * m + c)) * d
    BY <1>4, <1>5
  <2>2. (2 * (b * m + c)) * d = (b * m) * (2 * d) + (2 * c) * d
    BY <1>1, <1>5
  <2>3. (b * m) * (2 * d) = b * ((2 * m) * d)
    BY <1>1, <1>5
  <2>4. QED BY <1>3, <2>1, <2>2, <2>3, <1>1, <1>5
<1>7. /\ e \in Nat /\ t \in Int /\ 0 <= t /\ t + d < e
  <2>1. c * d \in Int /\ m * d \in Int /\ (2 * c) * d = 2 * (c * d) /\ e = 2 * (m * d)
    BY <1>1, <1>5
  <2>2. 0 <= c * d
    BY <1>1, <1>5
  <2>3. c * d + d <= m * d
    <3>1. 0 <= (m - c - 1) * d
      <4>1. m - c - 1 \in Nat
        BY <1>5
      <4>2. QED BY <1>1, <4>1
    <3>2. (m - c - 1) * d = m * d - c * d - d
      BY <1>1, <1>5
    <3>3. QED BY <2>1, <3>1, <3>2, <1>1
  <2>4. e \in Nat
    BY <1>1, <1>2
  <2> HIDE DEF e
  <2>5. QED BY <1>1, <1>3, <2>1, <2>2, <2>3, <2>4
<1> HIDE DEF e, t
<1>8. e > 0 /\ t < e
  BY <1>1, <1>7
<1>9. (b * e + t) \div e = b
  BY <1>5, <1>7, <1>8, QuotientIs
<1>10. (b * e + (t + d)) \div e = b
  <2>1. t + d \in Int /\ 0 <= t + d /\ t + d < e
    BY <1>1, <1>7
  <2>2. QED BY <1>5, <1>7, <1>8, <2>1, QuotientIs
<1>11. x + d = b * e + (t + d)
  <2>1. b * e \in Int
    BY <1>5, <1>7
  <2>2. QED BY <1>1, <1>6, <1>7, <2>1
<1>12. x \div e = b /\ (x + d) \div e = b
  BY <1>6, <1>9, <1>10, <1>11
<1>13. B!Power[q] = e
  BY <1>2 DEF e
<1>14. QED BY <1>12, <1>13 DEF d

LEMMA BitAdded ==
  ASSUME NEW x \in Int, NEW p \in B!Positions, BinaryDigit(x, p) = 0
  PROVE  \A q \in B!Positions : BinaryDigit(x + B!Power[p], q)
                                  = IF q = p THEN 1 ELSE BinaryDigit(x, q)
<1> SUFFICES ASSUME NEW q \in B!Positions
             PROVE  BinaryDigit(x + B!Power[p], q) = IF q = p THEN 1 ELSE BinaryDigit(x, q)
  OBVIOUS
<1>1. /\ p \in 0 .. Width /\ q \in 0 .. Width /\ p \in Int /\ q \in Int
      /\ B!Power[p] \in Nat
  <2>1. \A n \in 0 .. Width : n \in Int
    BY WidthIs
  <2>2. QED BY <2>1, DigitIs
<1>2. CASE q = p
  BY <1>2, AddOwn
<1>3. CASE p < q
  BY <1>1, <1>3, AddLower DEF BinaryDigit
<1>4. CASE q < p
  <2>1. BinaryDigit(x + 1 * B!Power[p], q) = BinaryDigit(x, q)
    BY <1>1, <1>4, AddHigher
  <2>2. 1 * B!Power[p] = B!Power[p]
    BY <1>1
  <2>3. QED BY <1>1, <1>4, <2>1, <2>2
<1>5. QED BY <1>1, <1>2, <1>3, <1>4

LEMMA BitRemoved ==
  ASSUME NEW x \in Int, NEW p \in B!Positions, BinaryDigit(x, p) = 1
  PROVE  /\ \A q \in B!Positions : BinaryDigit(x - B!Power[p], q)
                                     = IF q = p THEN 0 ELSE BinaryDigit(x, q)
         /\ \A q \in 0 .. Width :
              p < q => (x - B!Power[p]) \div B!Power[q] = x \div B!Power[q]
<1> DEFINE y == x - B!Power[p]
<1>1. y \in Int /\ x = y + B!Power[p]
  BY DigitIs
<1> HIDE DEF y
<1>2. BinaryDigit(y, p) = 0
  <2>1. BinaryDigit(y + B!Power[p], p) = 1 - BinaryDigit(y, p)
    BY <1>1, AddOwn
  <2>2. BinaryDigit(y, p) \in {0, 1}
    BY <1>1, DigitIs
  <2>3. QED BY <1>1, <2>1, <2>2
<1>3. \A q \in B!Positions : BinaryDigit(x, q) = IF q = p THEN 1 ELSE BinaryDigit(y, q)
  BY <1>1, <1>2, BitAdded
<1>4. \A q \in 0 .. Width : p < q => y \div B!Power[q] = x \div B!Power[q]
  BY <1>1, <1>2, AddLower
<1>5. \A q \in B!Positions : BinaryDigit(y, q) = IF q = p THEN 0 ELSE BinaryDigit(x, q)
  BY <1>2, <1>3
<1>6. QED BY <1>4, <1>5 DEF y

(* The last bit is the sign, and tells what an int is.                     *)
Last == Width - 1

LEMMA LastIs ==
  /\ Last \in B!Positions /\ Last \in 0 .. Width /\ 0 \in B!Positions /\ 0 # Last
  /\ B!Power[Last] = B!Half /\ B!Half \in Nat /\ B!Half > 0
  /\ \A p \in B!Positions : p # Last => p < Last
  /\ \A p \in B!Positions : p \in Nat /\ p < Width
BY WidthIs, PowersArePositive DEF Last, B!Positions

LEMMA IntIs ==
  ASSUME NEW x \in Int
  PROVE  x \in B!Ints_W <=> x \div B!Half \in {-1, 0}
<1> DEFINE d == B!Half
           q == x \div d
           r == x % d
<1>1. d \in Nat /\ d > 0
  BY LastIs
<1>2. q \in Int /\ r \in Int /\ 0 <= r /\ r < d /\ x = q * d + r
  BY <1>1, Divided
<1>3. x \in B!Ints_W <=> -d <= x /\ x < d
  BY <1>1 DEF B!Ints_W
<1> HIDE DEF d, q, r
<1>4. ASSUME q >= 1 PROVE ~(x < d)
  <2>1. (q - 1) * d >= 0
    BY <1>1, <1>2, <1>4
  <2>2. (q - 1) * d = q * d - d
    BY <1>1, <1>2
  <2>3. QED BY <1>1, <1>2, <2>1, <2>2
<1>5. ASSUME q <= -2 PROVE ~(-d <= x)
  <2>1. (-2 - q) * d >= 0
    BY <1>1, <1>2, <1>5
  <2>2. (-2 - q) * d = -(2 * d) - q * d
    BY <1>1, <1>2
  <2>3. QED BY <1>1, <1>2, <2>1, <2>2
<1>6. ASSUME q = 0 PROVE -d <= x /\ x < d
  <2>1. x = r
    BY <1>1, <1>2, <1>6
  <2>2. QED BY <1>1, <1>2, <2>1
<1>7. ASSUME q = -1 PROVE -d <= x /\ x < d
  <2>1. x = r - d
    BY <1>1, <1>2, <1>7
  <2>2. QED BY <1>1, <1>2, <2>1
<1>8. x \in B!Ints_W <=> q \in {-1, 0}
  BY <1>2, <1>3, <1>4, <1>5, <1>6, <1>7
<1>9. QED BY <1>8 DEF q, d

LEMMA SignIs ==
  ASSUME NEW x \in B!Ints_W
  PROVE  x \in Int /\ -B!Half <= x /\ x < B!Half
         /\ (BinaryDigit(x, Last) = 1 <=> x < 0)
<1>1. x \in Int /\ -B!Half <= x /\ x < B!Half
  BY LastIs DEF B!Ints_W
<1> DEFINE d == B!Half
           q == x \div d
           r == x % d
<1>2. d \in Nat /\ d > 0
  BY LastIs
<1>3. q \in Int /\ r \in Int /\ 0 <= r /\ r < d /\ x = q * d + r
  BY <1>1, <1>2, Divided
<1>4. q \in {-1, 0}
  BY <1>1, IntIs
<1>5. BinaryDigit(x, Last) = q % 2
  BY LastIs DEF BinaryDigit
<1> HIDE DEF d, q, r
<1>6. CASE q = 0
  <2>1. x = r /\ q % 2 = 0
    BY <1>2, <1>3, <1>6
  <2>2. QED BY <1>1, <1>3, <1>5, <2>1
<1>7. CASE q = -1
  <2>1. x = r - d
    BY <1>2, <1>3, <1>7
  <2>2. q % 2 = 1
    <3>1. (q + 1) % 2 = 1 - (q % 2) /\ q % 2 \in {0, 1}
      BY <1>3, Parity
    <3>2. q + 1 = 0 /\ 0 % 2 = 0
      BY <1>7
    <3>3. QED BY <3>1, <3>2
  <2>3. QED BY <1>1, <1>2, <1>3, <1>5, <2>1, <2>2
<1>8. QED BY <1>4, <1>6, <1>7

LEMMA BitsAre ==
  ASSUME NEW x \in Int
  PROVE  B!BitsOf(x) = {p \in B!Positions : BinaryDigit(x, p) = 1}
<1> DEFINE M == B!Power[Width]
           r == x % M
           k == x \div M
<1>1. M \in Nat /\ M > 0 /\ M = 2 * B!Half /\ Width \in 0 .. Width
  BY PowersArePositive, WidthIs
<1>2. r \in Int /\ k \in Int /\ x = k * M + r
  BY <1>1, Divided
<1>3. B!BitsOf(x) = {p \in B!Positions : BinaryDigit(r, p) = 1}
  BY <1>1 DEF B!BitsOf, BinaryDigit
<1> HIDE DEF r, k
<1>4. x = r + k * B!Power[Width]
  BY <1>1, <1>2
<1> HIDE DEF M
<1>5. \A p \in B!Positions : BinaryDigit(x, p) = BinaryDigit(r, p)
  BY <1>1, <1>2, <1>4, LastIs, AddHigher
<1>6. QED BY <1>3, <1>5

(* An int and its weights: the bit is added, or taken away.                *)
LEMMA WeightIs ==
  ASSUME NEW p \in B!Positions
  PROVE  /\ B!Weight(p) \in Int /\ B!Weight(p) # 0
         /\ p # Last => B!Weight(p) = B!Power[p]
         /\ p = Last => B!Weight(p) = -B!Half
<1>1. B!Power[p] \in Nat /\ B!Power[p] > 0
  BY DigitIs, 0 \in Int, Zenon
<1>2. B!Half \in Nat /\ B!Half > 0
  BY LastIs
<1>3. B!Weight(p) = IF p = Last THEN -B!Half ELSE B!Power[p]
  BY DEF B!Weight, Last
<1>4. CASE p = Last
  BY <1>2, <1>3, <1>4
<1>5. CASE p # Last
  BY <1>1, <1>3, <1>5
<1>6. QED BY <1>4, <1>5

LEMMA SetBits ==
  ASSUME NEW x \in B!Ints_W, NEW p \in B!Positions, BinaryDigit(x, p) = 0
  PROVE  /\ x + B!Weight(p) \in B!Ints_W
         /\ \A q \in B!Positions : BinaryDigit(x + B!Weight(p), q)
                                     = IF q = p THEN 1 ELSE BinaryDigit(x, q)
<1>1. x \in Int /\ -B!Half <= x /\ x < B!Half /\ B!Half \in Nat
  BY SignIs, LastIs
<1>2. CASE p # Last
  <2>1. B!Weight(p) = B!Power[p] /\ B!Power[p] \in Nat /\ p < Last
    BY <1>1, <1>2, WeightIs, DigitIs, LastIs
  <2>2. (x + B!Power[p]) \div B!Half = x \div B!Half
    BY <1>1, <2>1, LastIs, AddLower
  <2>3. x + B!Power[p] \in B!Ints_W
    <3>1. x + B!Power[p] \in Int
      BY <1>1, <2>1
    <3>2. QED BY <1>1, <2>2, <3>1, IntIs
  <2>4. QED BY <1>1, <2>1, <2>3, BitAdded
<1>3. CASE p = Last
  <2>1. B!Weight(p) = -B!Half /\ B!Power[p] = B!Half
    BY <1>3, WeightIs, LastIs
  <2>2. 0 <= x
    BY <1>1, <1>3, SignIs
  <2>3. x + B!Weight(p) \in B!Ints_W
    BY <1>1, <2>1, <2>2 DEF B!Ints_W
  <2> DEFINE y == x + B!Half
  <2>4. y \in Int /\ x + B!Weight(p) \in Int
    BY <1>1, <2>1
  <2>5. x + B!Weight(p) = y + (-1) * B!Power[Width]
    <3>1. B!Power[Width] = 2 * B!Half
      BY PowersArePositive
    <3>2. QED BY <1>1, <2>1, <3>1
  <2>6. \A q \in B!Positions : BinaryDigit(y, q) = IF q = p THEN 1 ELSE BinaryDigit(x, q)
    BY <1>1, <2>1, BitAdded
  <2> HIDE DEF y
  <2>7. \A q \in B!Positions : BinaryDigit(y + (-1) * B!Power[Width], q) = BinaryDigit(y, q)
    <3>1. -1 \in Int /\ Width \in 0 .. Width
      BY WidthIs
    <3>2. QED BY <2>4, <3>1, LastIs, AddHigher
  <2>8. QED BY <2>3, <2>5, <2>6, <2>7
<1>4. QED BY <1>2, <1>3

LEMMA ClearBits ==
  ASSUME NEW x \in B!Ints_W, NEW p \in B!Positions, BinaryDigit(x, p) = 1
  PROVE  /\ x - B!Weight(p) \in B!Ints_W
         /\ \A q \in B!Positions : BinaryDigit(x - B!Weight(p), q)
                                     = IF q = p THEN 0 ELSE BinaryDigit(x, q)
<1>1. x \in Int /\ -B!Half <= x /\ x < B!Half /\ B!Half \in Nat
  BY SignIs, LastIs
<1>2. CASE p # Last
  <2>1. B!Weight(p) = B!Power[p] /\ B!Power[p] \in Nat /\ p < Last
    BY <1>1, <1>2, WeightIs, DigitIs, LastIs
  <2>2. (x - B!Power[p]) \div B!Half = x \div B!Half
    <3>1. (x - B!Power[p]) \div B!Power[Last] = x \div B!Power[Last]
      BY <1>1, <2>1, LastIs, BitRemoved
    <3>2. QED BY <3>1, LastIs
  <2>3. x - B!Power[p] \in B!Ints_W
    <3>1. x - B!Power[p] \in Int
      BY <1>1, <2>1
    <3>2. QED BY <1>1, <2>2, <3>1, IntIs
  <2>4. QED BY <1>1, <2>1, <2>3, BitRemoved
<1>3. CASE p = Last
  <2>1. B!Weight(p) = -B!Half /\ B!Power[p] = B!Half
    BY <1>3, WeightIs, LastIs
  <2>2. x < 0
    BY <1>1, <1>3, SignIs
  <2>3. x - B!Weight(p) \in B!Ints_W
    BY <1>1, <2>1, <2>2 DEF B!Ints_W
  <2> DEFINE y == x - B!Half
  <2>4. y \in Int /\ x - B!Weight(p) \in Int
    BY <1>1, <2>1
  <2>5. x - B!Weight(p) = y + 1 * B!Power[Width]
    <3>1. B!Power[Width] = 2 * B!Half
      BY PowersArePositive
    <3>2. QED BY <1>1, <2>1, <3>1
  <2>6. \A q \in B!Positions : BinaryDigit(y, q) = IF q = p THEN 0 ELSE BinaryDigit(x, q)
    BY <1>1, <2>1, BitRemoved
  <2> HIDE DEF y
  <2>7. \A q \in B!Positions : BinaryDigit(y + 1 * B!Power[Width], q) = BinaryDigit(y, q)
    <3>1. 1 \in Int /\ Width \in 0 .. Width
      BY WidthIs
    <3>2. QED BY <2>4, <3>1, LastIs, AddHigher
  <2>8. QED BY <2>3, <2>5, <2>6, <2>7
<1>4. QED BY <1>2, <1>3

(* Ints with the same bits are the same: so are the residues of larger and *)
(* larger powers.                                                          *)
LEMMA NextResidue ==
  ASSUME NEW x \in Int, NEW p \in B!Positions
  PROVE  x % B!Power[p + 1] = (x % B!Power[p]) + B!Power[p] * BinaryDigit(x, p)
<1> DEFINE d == B!Power[p]
           u == x \div d
           r == x % d
           b == u % 2
           a == u \div 2
<1>1. d \in Nat /\ d > 0 /\ u \in Int /\ b \in {0, 1} /\ b = BinaryDigit(x, p)
  BY DigitIs DEF BinaryDigit
<1>2. B!Power[p + 1] = 2 * d
  <2>1. p + 1 \in 0 .. Width /\ p + 1 # 0 /\ (p + 1) - 1 = p
    BY LastIs, WidthIs
  <2>2. QED BY <2>1, Doubles
<1>3. r \in Int /\ 0 <= r /\ r < d /\ x = u * d + r
  BY <1>1, Divided
<1> HIDE DEF d, r
<1>4. a \in Int /\ u = a * 2 + b
  <2> HIDE DEF u
  <2>1. QED BY <1>1
<1> HIDE DEF u, a, b
<1>5. x = a * (2 * d) + (b * d + r)
  <2>1. u * d = (a * 2 + b) * d
    BY <1>4
  <2>2. (a * 2 + b) * d = a * (2 * d) + b * d
    BY <1>1, <1>4
  <2>3. QED BY <1>1, <1>3, <1>4, <2>1, <2>2
<1>6. b * d + r \in Int /\ 0 <= b * d + r /\ b * d + r < 2 * d
  <2>1. CASE b = 0
    BY <1>1, <1>3, <2>1
  <2>2. CASE b = 1
    BY <1>1, <1>3, <2>2
  <2>3. QED BY <1>1, <2>1, <2>2
<1>7. 2 * d \in Nat /\ 2 * d > 0
  BY <1>1
<1>8. (a * (2 * d) + (b * d + r)) % (2 * d) = b * d + r
  BY <1>4, <1>6, <1>7, QuotientIs
<1>9. x % (2 * d) = r + d * b
  <2>1. b * d + r = r + d * b
    BY <1>1, <1>3
  <2>2. QED BY <1>5, <1>8, <2>1
<1>10. QED BY <1>1, <1>2, <1>9 DEF d, r

LEMMA SameBits ==
  ASSUME NEW x \in B!Ints_W, NEW y \in B!Ints_W,
         \A p \in B!Positions : BinaryDigit(x, p) = BinaryDigit(y, p)
  PROVE  x = y
<1>1. /\ x \in Int /\ -B!Half <= x /\ x < B!Half
      /\ y \in Int /\ -B!Half <= y /\ y < B!Half
  BY SignIs
<1> DEFINE K == {n \in Nat : n <= Width => x % B!Power[n] = y % B!Power[n]}
<1>2. 0 \in K
  <2>1. x % 1 = 0 /\ y % 1 = 0
    BY <1>1
  <2>2. QED BY <2>1, Doubles
<1>3. ASSUME NEW n \in K PROVE n + 1 \in K
  <2>1. SUFFICES ASSUME n + 1 <= Width PROVE x % B!Power[n + 1] = y % B!Power[n + 1]
    OBVIOUS
  <2>2. n \in B!Positions /\ n <= Width
    BY <2>1, WidthIs DEF B!Positions
  <2>3. x % B!Power[n] = y % B!Power[n]
    BY <2>2
  <2>4. BinaryDigit(x, n) = BinaryDigit(y, n)
    BY <2>2
  <2>5. /\ x % B!Power[n + 1] = (x % B!Power[n]) + B!Power[n] * BinaryDigit(x, n)
        /\ y % B!Power[n + 1] = (y % B!Power[n]) + B!Power[n] * BinaryDigit(y, n)
    BY <1>1, <2>2, NextResidue
  <2>6. QED BY <2>3, <2>4, <2>5
<1>4. K \in SUBSET Nat
  OBVIOUS
<1> HIDE DEF K
<1>5. K = Nat
  BY <1>2, <1>3, <1>4, SetInduction
<1>6. x % B!Power[Width] = y % B!Power[Width]
  BY <1>5, WidthIs DEF K
<1>7. /\ B!Power[Width] \in Nat /\ B!Power[Width] > 0 /\ B!Power[Width] = 2 * B!Half
      /\ B!Half \in Nat
  BY WidthIs, PowersArePositive
<1>8. x - y < B!Power[Width] /\ y - x < B!Power[Width]
  BY <1>1, <1>7
<1>9. QED BY <1>1, <1>6, <1>7, <1>8, CloseResidues
-----------------------------------------------------------------------------
(* The int of a set of bits is the one that has them.                      *)
LEMMA FromIs ==
  ASSUME NEW x \in B!Ints_W
  PROVE  B!FromBits(B!BitsOf(x)) = x
<1> DEFINE y == B!FromBits(B!BitsOf(x))
<1>1. y = CHOOSE z \in B!Ints_W : B!BitsOf(z) = B!BitsOf(x)
  BY DEF B!FromBits
<1>2. y \in B!Ints_W /\ B!BitsOf(y) = B!BitsOf(x)
  BY <1>1
<1> HIDE DEF y
<1>3. x \in Int /\ y \in Int
  BY <1>2, SignIs
<1>4. ASSUME NEW p \in B!Positions PROVE BinaryDigit(x, p) = BinaryDigit(y, p)
  <2>1. BinaryDigit(x, p) = 1 <=> BinaryDigit(y, p) = 1
    BY <1>2, <1>3, BitsAre
  <2>2. BinaryDigit(x, p) \in {0, 1} /\ BinaryDigit(y, p) \in {0, 1}
    BY <1>3, DigitIs
  <2>3. QED BY <2>1, <2>2
<1>5. x = y
  BY <1>2, <1>4, SameBits
<1>6. QED BY <1>5 DEF y

(* No bits, all bits, one bit, all bits but one.                           *)
LEMMA NoBits == 0 \in B!Ints_W /\ B!BitsOf(0) = {} /\ \A p \in B!Positions : BinaryDigit(0, p) = 0
<1>1. 0 \in B!Ints_W
  BY LastIs DEF B!Ints_W
<1>2. ASSUME NEW p \in B!Positions PROVE BinaryDigit(0, p) = 0
  <2> DEFINE d == B!Power[p]
  <2>1. d \in Nat /\ d > 0
    BY DigitIs, 0 \in Int, Zenon
  <2> HIDE DEF d
  <2>2. (0 * d + 0) \div d = 0
    BY <2>1, QuotientIs
  <2>3. 0 * d + 0 = 0 /\ 0 % 2 = 0
    BY <2>1
  <2>4. QED BY <2>2, <2>3 DEF BinaryDigit, d
<1>3. B!BitsOf(0) = {p \in B!Positions : BinaryDigit(0, p) = 1}
  BY BitsAre, 0 \in Int, Zenon
<1>4. QED BY <1>1, <1>2, <1>3

LEMMA AllBits == -1 \in B!Ints_W /\ \A p \in B!Positions : BinaryDigit(-1, p) = 1
<1>1. -1 \in B!Ints_W
  BY LastIs DEF B!Ints_W
<1>2. ASSUME NEW p \in B!Positions PROVE BinaryDigit(-1, p) = 1
  <2> DEFINE d == B!Power[p]
  <2>1. d \in Nat /\ d > 0
    BY DigitIs, 0 \in Int, Zenon
  <2> HIDE DEF d
  <2>2. ((-1) * d + (d - 1)) \div d = -1
    <3>1. -1 \in Int /\ d - 1 \in Int /\ 0 <= d - 1 /\ d - 1 < d
      BY <2>1
    <3>2. QED BY <2>1, <3>1, QuotientIs
  <2>3. (-1) * d + (d - 1) = -1
    BY <2>1
  <2>4. (-1) % 2 = 1
    <3>1. ((-1) + 1) % 2 = 1 - ((-1) % 2) /\ (-1) % 2 \in {0, 1}
      BY Parity, -1 \in Int
    <3>2. (-1) + 1 = 0 /\ 0 % 2 = 0
      OBVIOUS
    <3>3. QED BY <3>1, <3>2
  <2>5. QED BY <2>2, <2>3, <2>4 DEF BinaryDigit, d
<1>3. QED BY <1>1, <1>2

LEMMA OneBit ==
  ASSUME NEW p \in B!Positions
  PROVE  /\ B!Weight(p) \in B!Ints_W /\ B!BitsOf(B!Weight(p)) = {p}
         /\ B!ShiftLeftOne(p) = B!Weight(p)
<1>1. B!Weight(p) \in Int /\ 0 + B!Weight(p) = B!Weight(p)
  BY WeightIs
<1>2. /\ 0 + B!Weight(p) \in B!Ints_W
      /\ \A q \in B!Positions : BinaryDigit(0 + B!Weight(p), q)
                                  = IF q = p THEN 1 ELSE BinaryDigit(0, q)
  <2>1. 0 \in B!Ints_W /\ BinaryDigit(0, p) = 0
    BY NoBits
  <2>2. QED BY <2>1, SetBits, Zenon
<1>3. B!Weight(p) \in B!Ints_W
  BY <1>1, <1>2
<1>4. \A q \in B!Positions : BinaryDigit(B!Weight(p), q) = IF q = p THEN 1 ELSE 0
  BY <1>1, <1>2, NoBits
<1>5. B!BitsOf(B!Weight(p)) = {p}
  BY <1>1, <1>4, BitsAre
<1>6. B!ShiftLeftOne(p) = B!Weight(p)
  <2> DEFINE d == B!Power[p]
             M == 2 * B!Half
  <2>1. d \in Nat /\ d > 0 /\ B!Half \in Nat /\ B!Half > 0
    BY DigitIs, LastIs, 0 \in Int, Zenon
  <2>2. d <= B!Half
    <3>1. CASE p = Last
      BY <2>1, <3>1, LastIs
    <3>2. CASE p # Last
      BY <1>3, <2>1, <3>2, WeightIs DEF B!Ints_W
    <3>3. QED BY <3>1, <3>2
  <2>3. B!ShiftLeftOne(p) = IF d % M < B!Half THEN d % M ELSE (d % M) - M
    BY DEF B!ShiftLeftOne, B!Wrap
  <2>4. M \in Nat /\ d < M
    BY <2>1, <2>2
  <2> HIDE DEF d, M
  <2>5. d % M = d
    <3>1. (0 * M + d) % M = d
      BY <2>1, <2>4, QuotientIs
    <3>2. 0 * M + d = d
      BY <2>1, <2>4
    <3>3. QED BY <3>1, <3>2
  <2>6. CASE p = Last
    <3>1. d = B!Half /\ B!Weight(p) = -B!Half
      BY <2>6, LastIs, WeightIs DEF d
    <3>2. QED BY <2>1, <2>3, <2>5, <3>1 DEF M
  <2>7. CASE p # Last
    <3>1. B!Weight(p) = d
      BY <2>7, WeightIs DEF d
    <3>2. d < B!Half
      BY <1>3, <2>1, <3>1 DEF B!Ints_W
    <3>3. QED BY <2>3, <2>5, <3>1, <3>2
  <2>8. QED BY <2>6, <2>7
<1>7. QED BY <1>3, <1>5, <1>6

LEMMA AllButOne ==
  ASSUME NEW p \in B!Positions
  PROVE  B!BitsOf(B!Not(B!ShiftLeftOne(p))) = B!Positions \ {p}
<1> DEFINE x == -1 - B!Weight(p)
<1>1. /\ x \in B!Ints_W
      /\ \A q \in B!Positions : BinaryDigit(x, q) = IF q = p THEN 0 ELSE BinaryDigit(-1, q)
  BY AllBits, ClearBits, Zenon
<1> HIDE DEF x
<1>2. B!BitsOf(x) = B!Positions \ {p}
  BY <1>1, AllBits, BitsAre, SignIs
<1>3. B!Not(B!ShiftLeftOne(p)) = B!FromBits(B!BitsOf(x))
  BY <1>2, OneBit DEF B!Not
<1>4. QED BY <1>1, <1>2, <1>3, FromIs

(* The four functions, for every int and every position.                   *)
LEMMA IsBitTrue ==
  ASSUME NEW x \in B!Ints_W, NEW p \in B!Positions
  PROVE  B!bp_is_bit_true(x, p) = BinaryDigit(x, p)
<1> DEFINE u == x \div B!Power[p]
<1>1. x \in Int /\ u \in Int /\ BinaryDigit(x, p) = u % 2 /\ u % 2 \in {0, 1}
  BY SignIs, DigitIs DEF BinaryDigit
<1>2. B!bp_is_bit_true(x, p) = B!FromBits(B!BitsOf(u) \cap B!BitsOf(1))
  BY DEF B!bp_is_bit_true, B!And, B!ShiftRight
<1> HIDE DEF u
<1>3. B!BitsOf(1) = {0} /\ 1 \in B!Ints_W /\ 0 \in B!Positions
  <2>1. B!Weight(0) = 1 /\ 0 \in B!Positions
    BY LastIs, WeightIs, Doubles
  <2>2. QED BY <2>1, OneBit
<1>4. 0 \in B!BitsOf(u) <=> u % 2 = 1
  <2>1. u \div 1 = u
    BY <1>1
  <2>2. BinaryDigit(u, 0) = u % 2
    BY <2>1, Doubles DEF BinaryDigit
  <2>3. QED BY <1>1, <1>3, <2>2, BitsAre
<1>5. CASE u % 2 = 1
  <2>1. B!BitsOf(u) \cap B!BitsOf(1) = B!BitsOf(1)
    BY <1>3, <1>4, <1>5
  <2>2. QED BY <1>1, <1>2, <1>3, <1>5, <2>1, FromIs
<1>6. CASE u % 2 = 0
  <2>1. B!BitsOf(u) \cap B!BitsOf(1) = B!BitsOf(0)
    BY <1>3, <1>4, <1>6, NoBits
  <2>2. B!FromBits(B!BitsOf(0)) = 0
    BY NoBits, FromIs
  <2>3. QED BY <1>1, <1>2, <1>6, <2>1, <2>2
<1>7. QED BY <1>1, <1>5, <1>6

LEMMA FirstAttempt ==
  ASSUME NEW x \in B!Ints_W, NEW p \in B!Positions, p # Last
  PROVE  B!bp_is_bit_true_bad(x, p) = BinaryDigit(x, p)
<1> DEFINE d == B!Power[p]
<1>1. /\ x \in Int /\ d \in Nat /\ d > 0 /\ BinaryDigit(x, p) \in {0, 1}
      /\ d \in B!Ints_W /\ B!BitsOf(d) = {p} /\ B!ShiftLeftOne(p) = d
  <2>1. B!Weight(p) = d
    BY WeightIs
  <2> HIDE DEF d
  <2>2. d \in B!Ints_W /\ B!BitsOf(d) = {p} /\ B!ShiftLeftOne(p) = d
    BY <2>1, OneBit
  <2>3. x \in Int
    BY SignIs
  <2>4. d \in Nat /\ d > 0 /\ BinaryDigit(x, p) \in {0, 1}
    BY <2>3, DigitIs DEF d
  <2>5. QED BY <2>2, <2>3, <2>4
<1>2. B!bp_is_bit_true_bad(x, p) = B!FromBits(B!BitsOf(x) \cap B!BitsOf(d)) \div d
  BY <1>1 DEF B!bp_is_bit_true_bad, B!And, B!ShiftRight
<1> HIDE DEF d
<1>3. p \in B!BitsOf(x) <=> BinaryDigit(x, p) = 1
  BY <1>1, BitsAre
<1>4. CASE BinaryDigit(x, p) = 1
  <2>1. B!BitsOf(x) \cap B!BitsOf(d) = B!BitsOf(d)
    BY <1>1, <1>3, <1>4
  <2>2. (1 * d + 0) \div d = 1 /\ 1 * d + 0 = d
    BY <1>1, QuotientIs
  <2>3. QED BY <1>1, <1>2, <1>4, <2>1, <2>2, FromIs
<1>5. CASE BinaryDigit(x, p) = 0
  <2>1. B!BitsOf(x) \cap B!BitsOf(d) = B!BitsOf(0)
    BY <1>1, <1>3, <1>5, NoBits
  <2>2. (0 * d + 0) \div d = 0 /\ 0 * d + 0 = 0
    BY <1>1, QuotientIs
  <2>3. B!FromBits(B!BitsOf(0)) = 0
    BY NoBits, FromIs
  <2>4. QED BY <1>2, <1>5, <2>1, <2>2, <2>3
<1>6. QED BY <1>1, <1>4, <1>5

LEMMA SetBitTrue ==
  ASSUME NEW x \in B!Ints_W, NEW p \in B!Positions
  PROVE  B!bp_set_bit_true(x, p) = IF BinaryDigit(x, p) = 1 THEN x ELSE x + B!Weight(p)
<1>1. x \in Int /\ BinaryDigit(x, p) \in {0, 1}
  BY SignIs, DigitIs
<1>2. B!bp_set_bit_true(x, p) = B!FromBits(B!BitsOf(x) \cup {p})
  BY OneBit DEF B!bp_set_bit_true, B!Or
<1>3. CASE BinaryDigit(x, p) = 1
  <2>1. B!BitsOf(x) \cup {p} = B!BitsOf(x)
    BY <1>1, <1>3, BitsAre
  <2>2. QED BY <1>2, <1>3, <2>1, FromIs
<1>4. CASE BinaryDigit(x, p) = 0
  <2> DEFINE y == x + B!Weight(p)
  <2>1. /\ y \in B!Ints_W
        /\ \A q \in B!Positions : BinaryDigit(y, q) = IF q = p THEN 1 ELSE BinaryDigit(x, q)
    BY <1>4, SetBits, Zenon
  <2> HIDE DEF y
  <2>2. B!BitsOf(x) \cup {p} = B!BitsOf(y)
    BY <1>1, <2>1, BitsAre, SignIs
  <2>3. B!bp_set_bit_true(x, p) = y
    BY <1>2, <2>1, <2>2, FromIs
  <2>4. QED BY <1>4, <2>3 DEF y
<1>5. QED BY <1>1, <1>3, <1>4

LEMMA SetBitFalse ==
  ASSUME NEW x \in B!Ints_W, NEW p \in B!Positions
  PROVE  B!bp_set_bit_false(x, p) = IF BinaryDigit(x, p) = 1 THEN x - B!Weight(p) ELSE x
<1>1. x \in Int /\ BinaryDigit(x, p) \in {0, 1}
  BY SignIs, DigitIs
<1>2. B!bp_set_bit_false(x, p) = B!FromBits(B!BitsOf(x) \cap (B!Positions \ {p}))
  BY AllButOne DEF B!bp_set_bit_false, B!And
<1>3. CASE BinaryDigit(x, p) = 0
  <2>1. B!BitsOf(x) \cap (B!Positions \ {p}) = B!BitsOf(x)
    BY <1>1, <1>3, BitsAre
  <2>2. QED BY <1>2, <1>3, <2>1, FromIs
<1>4. CASE BinaryDigit(x, p) = 1
  <2> DEFINE y == x - B!Weight(p)
  <2>1. /\ y \in B!Ints_W
        /\ \A q \in B!Positions : BinaryDigit(y, q) = IF q = p THEN 0 ELSE BinaryDigit(x, q)
    BY <1>4, ClearBits, Zenon
  <2> HIDE DEF y
  <2>2. B!BitsOf(x) \cap (B!Positions \ {p}) = B!BitsOf(y)
    BY <1>1, <2>1, BitsAre, SignIs
  <2>3. B!bp_set_bit_false(x, p) = y
    BY <1>2, <2>1, <2>2, FromIs
  <2>4. QED BY <1>4, <2>3 DEF y
<1>5. QED BY <1>1, <1>3, <1>4
-----------------------------------------------------------------------------
(* The program: what it has shown says where it is, and what the int is.   *)
Had == BinaryDigit(typed[1], bit_position)
WithBit == IF Had = 1 THEN typed[1] ELSE typed[1] + B!Weight(bit_position)
WithoutBit == IF Had = 1 THEN typed[1] - B!Weight(bit_position) ELSE typed[1]

BitInv ==
  /\ typed \in B!Ints_W \X (0 .. MaxTyped)
  /\ step = "read" => shown = <<>>
  /\ step \in {"show", "set", "clear"} \/ (step = "done" /\ bitCode = 0) =>
       bit_position \in B!Positions
  /\ step = "show" => \/ shown = <<>> /\ bits = typed[1]
                      \/ shown = <<Had>> /\ bits = WithBit
                      \/ shown = <<Had, 1>> /\ bits = WithoutBit
  /\ step = "set" => shown = <<Had>> /\ bits = typed[1]
  /\ step = "clear" => shown = <<Had, 1>> /\ bits = WithBit
  /\ step = "done" /\ bitCode = 0 => shown = <<Had, 1, 0>> /\ bits = WithoutBit

LEMMA TypedIs ==
  ASSUME BitInv
  PROVE  typed[1] \in B!Ints_W /\ typed[2] \in 0 .. MaxTyped
BY DEF BitInv

(* The int with the bit and the one without it have all other bits alike.  *)
LEMMA OtherBits ==
  ASSUME BitInv, bit_position \in B!Positions
  PROVE  /\ Had \in {0, 1}
         /\ WithBit \in B!Ints_W /\ WithoutBit \in B!Ints_W
         /\ \A q \in B!Positions :
              /\ BinaryDigit(WithBit, q)
                   = IF q = bit_position THEN 1 ELSE BinaryDigit(typed[1], q)
              /\ BinaryDigit(WithoutBit, q)
                   = IF q = bit_position THEN 0 ELSE BinaryDigit(typed[1], q)
<1> DEFINE x == typed[1]
           p == bit_position
<1>1. x \in B!Ints_W /\ x \in Int /\ p \in B!Positions
  BY TypedIs, SignIs
<1>2. Had = BinaryDigit(x, p) /\ Had \in {0, 1}
  BY <1>1, DigitIs DEF Had
<1>3. /\ WithBit = IF Had = 1 THEN x ELSE x + B!Weight(p)
      /\ WithoutBit = IF Had = 1 THEN x - B!Weight(p) ELSE x
  BY DEF WithBit, WithoutBit
<1> HIDE DEF x, p
<1>4. CASE Had = 1
  <2>1. /\ x - B!Weight(p) \in B!Ints_W
        /\ \A q \in B!Positions : BinaryDigit(x - B!Weight(p), q)
                                    = IF q = p THEN 0 ELSE BinaryDigit(x, q)
    BY <1>1, <1>2, <1>4, ClearBits, Zenon
  <2>2. QED BY <1>1, <1>2, <1>3, <1>4, <2>1 DEF x, p
<1>5. CASE Had = 0
  <2>1. /\ x + B!Weight(p) \in B!Ints_W
        /\ \A q \in B!Positions : BinaryDigit(x + B!Weight(p), q)
                                    = IF q = p THEN 1 ELSE BinaryDigit(x, q)
    BY <1>1, <1>2, <1>5, SetBits, Zenon
  <2>2. WithBit = x + B!Weight(p) /\ WithoutBit = x
    BY <1>3, <1>5
  <2>3. \A q \in B!Positions : BinaryDigit(x, q) = IF q = p THEN 0 ELSE BinaryDigit(x, q)
    BY <1>2, <1>5
  <2> HIDE DEF BinaryDigit
  <2>4. QED BY <1>1, <1>2, <2>1, <2>2, <2>3 DEF x, p
<1>6. QED BY <1>2, <1>4, <1>5

Longer(t, S, s, e) ==
  /\ t \in Seq(S) /\ Len(t) = Len(s) + 1 /\ t[Len(s) + 1] = e
  /\ \A k \in 1 .. Len(s) : t[k] = s[k]

LEMMA AppendIsLonger ==
  ASSUME NEW S, NEW s \in Seq(S), NEW e \in S
  PROVE  Longer(Append(s, e), S, s, e)
BY AppendProperties DEF Longer

LEMMA AppendTwo ==
  ASSUME NEW a \in {0, 1}
  PROVE  /\ Append(<<a>>, 1) = <<a, 1>> /\ Len(<<a, 1>>) = 2
         /\ Append(<<a, 1>>, 0) = <<a, 1, 0>> /\ Len(<<a, 1, 0>>) = 3
         /\ <<"set", "clear", "done">>[2] = "clear"
         /\ <<"set", "clear", "done">>[3] = "done"
<1>1. <<"set", "clear", "done">>[2] = "clear" /\ <<"set", "clear", "done">>[3] = "done"
  OBVIOUS
<1>2. Len(<<a, 1>>) = 2 /\ Len(<<a, 1, 0>>) = 3
  OBVIOUS
<1> DEFINE S == {0, 1}
           one == <<a>>
           two == <<a, 1>>
           three == <<a, 1, 0>>
<1>3. /\ one \in Seq(S) /\ Len(one) = 1 /\ one[1] = a
      /\ two \in Seq(S) /\ Len(two) = 2 /\ two[1] = a /\ two[2] = 1
      /\ three \in Seq(S) /\ Len(three) = 3
      /\ three[1] = a /\ three[2] = 1 /\ three[3] = 0
      /\ 0 \in S /\ 1 \in S
  OBVIOUS
<1> HIDE DEF S, one, two, three
<1>4. Append(one, 1) = two
  <2> DEFINE s == Append(one, 1)
  <2>1. Longer(s, S, one, 1)
    <3>1. one \in Seq(S) /\ 1 \in S
      BY <1>3
    <3>2. QED BY <3>1, AppendIsLonger, Zenon
  <2> HIDE DEF s
  <2>2. s \in Seq(S) /\ Len(s) = 2 /\ s[1] = a /\ s[2] = 1
    BY <1>3, <2>1 DEF Longer
  <2>3. s = two
    BY <1>3, <2>2, SeqEqual
  <2>4. QED BY <2>3 DEF s
<1>5. Append(two, 0) = three
  <2> DEFINE s == Append(two, 0)
  <2>1. Longer(s, S, two, 0)
    <3>1. two \in Seq(S) /\ 0 \in S
      BY <1>3
    <3>2. QED BY <3>1, AppendIsLonger, Zenon
  <2> HIDE DEF s
  <2>2. s \in Seq(S) /\ Len(s) = 3 /\ s[1] = a /\ s[2] = 1 /\ s[3] = 0
    BY <1>3, <2>1 DEF Longer
  <2>3. s = three
    BY <1>3, <2>2, SeqEqual
  <2>4. QED BY <2>3 DEF s
<1>6. QED BY <1>1, <1>2, <1>4, <1>5 DEF one, two, three

LEMMA BitInvInit == B!Init => BitInv
BY DEF B!Init, BitInv

LEMMA BitInvNext == BitInv /\ [B!Next]_bitVars => BitInv'
<1> SUFFICES ASSUME BitInv, [B!Next]_bitVars PROVE BitInv'
  OBVIOUS
<1>1. typed \in B!Ints_W \X (0 .. MaxTyped) /\ B!Ints_W' = B!Ints_W /\ B!Positions' = B!Positions
  BY DEF BitInv, B!Ints_W, B!Positions, B!Half, B!Power
<1>2. ASSUME UNCHANGED <<typed, bit_position>>
      PROVE  Had' = Had /\ WithBit' = WithBit /\ WithoutBit' = WithoutBit
  <2>1. Had' = Had
    BY <1>2 DEF Had, BinaryDigit, B!Power
  <2>2. QED BY <1>2, <2>1 DEF WithBit, WithoutBit, B!Weight, B!Power, B!Half
<1>3. CASE B!ReadBoth
  <2>1. /\ bits' = typed[1] /\ typed' = typed /\ shown' = <<>>
        /\ bit_position' = typed[2] % CharSize
        /\ \/ bit_position' >= Width /\ step' = "done" /\ bitCode' = 1
           \/ ~(bit_position' >= Width) /\ step' = "show"
    BY <1>3 DEF B!ReadBoth, BitInv
  <2>2. bit_position' \in Nat
    <3>1. typed[2] \in Int /\ CharSize \in Nat /\ CharSize > 0
      BY TypedIs, WidthIs
    <3>2. QED BY <2>1, <3>1, Divided
  <2>3. ~(bit_position' >= Width) => bit_position' \in B!Positions
    BY <2>2, WidthIs DEF B!Positions
  <2>4. QED BY <1>1, <2>1, <2>3 DEF BitInv
<1>4. CASE B!Show
  <2>1. /\ step = "show" /\ UNCHANGED <<typed, bits, bit_position, bitCode>>
        /\ shown' = Append(shown, B!bp_is_bit_true(bits, bit_position))
        /\ step' = <<"set", "clear", "done">>[Len(shown')]
    BY <1>4 DEF B!Show
  <2>2. bit_position \in B!Positions
    BY <2>1 DEF BitInv
  <2>3. /\ Had \in {0, 1} /\ WithBit \in B!Ints_W /\ WithoutBit \in B!Ints_W
        /\ BinaryDigit(WithBit, bit_position) = 1
        /\ BinaryDigit(WithoutBit, bit_position) = 0
    BY <2>2, OtherBits
  <2>4. Had' = Had /\ WithBit' = WithBit /\ WithoutBit' = WithoutBit
    BY <1>2, <2>1
  <2>5. CASE shown = <<>> /\ bits = typed[1]
    <3>1. B!bp_is_bit_true(bits, bit_position) = Had
      BY <2>2, <2>5, TypedIs, IsBitTrue DEF Had
    <3>2. shown' = <<Had>> /\ step' = "set"
      BY <2>1, <2>5, <3>1
    <3>3. QED BY <1>1, <2>1, <2>2, <2>4, <2>5, <3>2 DEF BitInv
  <2>6. CASE shown = <<Had>> /\ bits = WithBit
    <3>1. B!bp_is_bit_true(bits, bit_position) = 1
      BY <2>2, <2>3, <2>6, IsBitTrue
    <3>2. shown' = <<Had, 1>> /\ step' = "clear"
      BY <2>1, <2>3, <2>6, <3>1, AppendTwo
    <3>3. QED BY <1>1, <2>1, <2>2, <2>4, <2>6, <3>2 DEF BitInv
  <2>7. CASE shown = <<Had, 1>> /\ bits = WithoutBit
    <3>1. B!bp_is_bit_true(bits, bit_position) = 0
      BY <2>2, <2>3, <2>7, IsBitTrue
    <3>2. shown' = <<Had, 1, 0>> /\ step' = "done"
      BY <2>1, <2>3, <2>7, <3>1, AppendTwo
    <3>3. QED BY <1>1, <2>1, <2>2, <2>4, <2>7, <3>2 DEF BitInv
  <2>8. QED BY <2>1, <2>5, <2>6, <2>7 DEF BitInv
<1>5. CASE B!SetBit
  <2>1. /\ step = "set" /\ UNCHANGED <<typed, bit_position, shown, bitCode>>
        /\ bits' = B!bp_set_bit_true(bits, bit_position) /\ step' = "show"
    BY <1>5 DEF B!SetBit
  <2>2. bit_position \in B!Positions /\ shown = <<Had>> /\ bits = typed[1]
    BY <2>1 DEF BitInv
  <2>3. bits' = WithBit
    <3>1. B!bp_set_bit_true(typed[1], bit_position)
            = IF BinaryDigit(typed[1], bit_position) = 1
              THEN typed[1] ELSE typed[1] + B!Weight(bit_position)
      BY <2>2, TypedIs, SetBitTrue, Zenon
    <3>2. QED BY <2>1, <2>2, <3>1 DEF WithBit, Had
  <2>4. QED BY <1>1, <1>2, <2>1, <2>2, <2>3 DEF BitInv
<1>6. CASE B!ClearBit
  <2>1. /\ step = "clear" /\ UNCHANGED <<typed, bit_position, shown, bitCode>>
        /\ bits' = B!bp_set_bit_false(bits, bit_position) /\ step' = "show"
    BY <1>6 DEF B!ClearBit
  <2>2. bit_position \in B!Positions /\ shown = <<Had, 1>> /\ bits = WithBit
    BY <2>1 DEF BitInv
  <2>3. bits' = WithBit - B!Weight(bit_position)
    <3>1. WithBit \in B!Ints_W /\ BinaryDigit(WithBit, bit_position) = 1
      BY <2>2, OtherBits
    <3>2. B!bp_set_bit_false(WithBit, bit_position) = WithBit - B!Weight(bit_position)
      BY <2>2, <3>1, SetBitFalse
    <3>3. QED BY <2>1, <2>2, <3>2
  <2>4. bits' = WithoutBit
    <3>1. typed[1] \in Int /\ B!Weight(bit_position) \in Int
      BY <2>2, TypedIs, SignIs, WeightIs
    <3>2. QED BY <2>3, <3>1 DEF WithBit, WithoutBit
  <2>5. QED BY <1>1, <1>2, <2>1, <2>2, <2>4 DEF BitInv
<1>7. CASE UNCHANGED bitVars
  <2>1. UNCHANGED <<step, typed, bits, bit_position, shown, bitCode>>
    BY <1>7 DEF bitVars
  <2>2. QED BY <1>1, <1>2, <2>1 DEF BitInv
<1>8. QED BY <1>3, <1>4, <1>5, <1>6, <1>7 DEF B!Next

(* The bit of an int is shown, set, shown, cleared and shown, and no other *)
(* bit changes on the way, for ints of any width, negative numbers and the *)
(* sign bit included; and the first attempt at the test of a bit agrees    *)
(* with its successor below the sign bit.                                  *)
THEOREM OneBitAlwaysChanges == B!Init /\ [][B!Next]_B!vars => []OneBitChanges
<1>1. BitInv => OneBitChanges
  <2> SUFFICES ASSUME BitInv PROVE B!OneBitChanges
    BY DEF OneBitChanges
  <2>1. ASSUME NEW x \in Int, NEW p \in B!Positions
        PROVE  B!IsBitOf(x, p) = B!Weight(p) * BinaryDigit(x, p)
    <3>1. BinaryDigit(x, p) \in {0, 1}
      BY <2>1, DigitIs
    <3>2. QED BY <3>1 DEF B!IsBitOf, BinaryDigit
  <2>2. typed[1] \in B!Ints_W /\ typed[1] \in Int
    BY TypedIs, SignIs
  <2>3. ASSUME step = "done" /\ bitCode = 0
        PROVE  LET had == IF B!IsBitOf(typed[1], bit_position) = 0 THEN 0 ELSE 1
               IN /\ shown = <<had, 1, 0>>
                  /\ bits = typed[1] - had * B!Weight(bit_position)
    <3>1. bit_position \in B!Positions /\ shown = <<Had, 1, 0>> /\ bits = WithoutBit
      BY <2>3 DEF BitInv
    <3>2. Had \in {0, 1} /\ B!IsBitOf(typed[1], bit_position) = B!Weight(bit_position) * Had
      BY <2>1, <2>2, <3>1, OtherBits DEF Had
    <3>3. B!Weight(bit_position) \in Int /\ B!Weight(bit_position) # 0
      BY <3>1, WeightIs
    <3>4. Had = IF B!IsBitOf(typed[1], bit_position) = 0 THEN 0 ELSE 1
      BY <3>2, <3>3
    <3>5. WithoutBit = typed[1] - Had * B!Weight(bit_position)
      BY <2>2, <3>2, <3>3 DEF WithoutBit
    <3>6. QED BY <3>1, <3>4, <3>5
  <2>4. ASSUME step = "clear", NEW p \in B!Positions
        PROVE  IF p = bit_position THEN B!IsBitOf(bits, p) # 0
               ELSE B!IsBitOf(bits, p) = B!IsBitOf(typed[1], p)
    <3>1. bit_position \in B!Positions /\ bits = WithBit
      BY <2>4 DEF BitInv
    <3>2. bits \in Int /\ BinaryDigit(bits, p)
                            = IF p = bit_position THEN 1 ELSE BinaryDigit(typed[1], p)
      BY <3>1, OtherBits, SignIs
    <3>3. B!Weight(p) \in Int /\ B!Weight(p) # 0
      BY WeightIs
    <3>4. /\ B!IsBitOf(bits, p) = B!Weight(p) * BinaryDigit(bits, p)
          /\ B!IsBitOf(typed[1], p) = B!Weight(p) * BinaryDigit(typed[1], p)
      BY <2>1, <2>2, <3>2
    <3>5. QED BY <3>2, <3>3, <3>4
  <2>5. ASSUME step = "show", NEW p \in 0 .. Width - 2
        PROVE  B!bp_is_bit_true_bad(bits, p) = B!bp_is_bit_true(bits, p)
    <3>1. p \in B!Positions /\ p # Last
      BY WidthIs DEF B!Positions, Last
    <3>2. bits \in B!Ints_W
      BY <2>2, <2>5, OtherBits DEF BitInv
    <3>3. QED BY <3>1, <3>2, IsBitTrue, FirstAttempt
  <2>6. QED BY <2>3, <2>4, <2>5 DEF B!OneBitChanges
<1>2. BitInv /\ [B!Next]_B!vars => BitInv'
  BY BitInvNext DEF B!vars, bitVars
<1>3. QED BY <1>1, <1>2, BitInvInit, PTL
-----------------------------------------------------------------------------
(* Each step of the run is one program's, and the others stand still.      *)
LEMMA ProgramsApart ==
  MCSpec => /\ Spec /\ E!Spec /\ C!Spec /\ Q!ProgSpec
            /\ A!Init /\ [][A!Next]_A!vars
            /\ D!Init /\ [][D!Next]_D!vars
            /\ B!Init /\ [][B!Next]_B!vars
<1>1. MCInit => Init /\ E!Init /\ C!Init /\ Q!ProgInit /\ A!Init /\ D!Init /\ B!Init
  BY DEF MCInit
<1>2. [MCNext]_allVars => [Next]_vars /\ [E!Next]_E!executorVars /\ [C!Next]_C!cleanerVars
                          /\ [Q!ProgNext]_Q!progVars /\ [A!Next]_A!vars
                          /\ [D!Next]_D!vars /\ [B!Next]_B!vars
  <2> SUFFICES ASSUME [MCNext]_allVars
               PROVE  /\ Next \/ UNCHANGED vars
                      /\ E!Next \/ UNCHANGED executorVars
                      /\ C!Next \/ UNCHANGED cleanerVars
                      /\ Q!ProgNext \/ UNCHANGED queryVars
                      /\ A!Next \/ UNCHANGED applicationVars
                      /\ D!Next \/ UNCHANGED digitVars
                      /\ B!Next \/ UNCHANGED bitVars
    BY DEF E!executorVars, E!jobVars, executorVars, C!cleanerVars, cleanerVars,
           Q!progVars, Q!vars, queryVars, A!vars, A!startVars, A!netVars, applicationVars,
           D!vars, digitVars, B!vars, bitVars
  <2>1. CASE MCNext
    BY <2>1 DEF MCNext, MCStep, Others, A!Next
  <2>2. CASE UNCHANGED allVars
    BY <2>2 DEF allVars
  <2>3. QED BY <2>1, <2>2
<1>3. QED BY <1>1, <1>2, PTL DEF MCSpec, Spec, E!Spec, C!Spec, Q!ProgSpec

(* What holds of each program holds of the run that chooses one of them.   *)
THEOREM ProgramsOnTheirOwn ==
  MCSpec => [](/\ IndexIsFirstBalance /\ JobsLeaveNothing /\ MenuFits
               /\ NothingLeaks /\ DetailedNeverCrashes /\ DigitsAreRead /\ OneBitChanges
               /\ EveryProgramRuns)
<1>1. MCSpec => [](IndexIsFirstBalance /\ JobsLeaveNothing /\ MenuFits
                   /\ NothingLeaks /\ DetailedNeverCrashes /\ DigitsAreRead /\ OneBitChanges)
  BY ProgramsApart, IndexAlways, JobsAlwaysLeave, MenuAlwaysFits, ProgramsLeaveNothing,
     DetailedIsSafe, DigitsAlwaysRead, OneBitAlwaysChanges, PTL
<1>2. MCSpec => []EveryProgramRuns
  BY ProgramsApart, ProgramAlwaysRuns, PTL
<1>3. QED BY <1>1, <1>2, PTL
-----------------------------------------------------------------------------
(* PeriodicRunner: the pid file, for any number of overlapping instances   *)
(* and of signals.                                                         *)
ScriptLines == {"gone", "check", "trap", "create", "arguments", "command", "sleep",
                "first trap", "exit trap", "last trap"}

RunnerTyped ==
  /\ pid_file \in Instance \cup {None}
  /\ at \in [Instance -> ScriptLines]
  /\ killed \in BOOLEAN

LEMMA RunnerTypedInductive == RunnerTyped /\ [R!Next]_R!vars => RunnerTyped'
<1> SUFFICES ASSUME RunnerTyped, [R!Next]_R!vars PROVE RunnerTyped'
  OBVIOUS
<1> USE DEF RunnerTyped, ScriptLines, R!Goto
<1>1. ASSUME NEW p \in Instance, R!Start(p) PROVE RunnerTyped'
  BY <1>1 DEF R!Start
<1>2. ASSUME NEW p \in Instance, R!ScriptStep(p) PROVE RunnerTyped'
  BY <1>2 DEF R!ScriptStep, R!Check, R!SetTrap, R!Create, R!CheckArguments, R!Command,
              R!Sleep, R!FirstTrap, R!ExitTrap, R!LastTrap
<1>3. ASSUME NEW p \in Instance, R!Signal(p) \/ R!Kill(p) PROVE RunnerTyped'
  BY <1>3 DEF R!Signal, R!Kill
<1>4. CASE UNCHANGED R!vars
  BY <1>4 DEF R!vars
<1>5. QED BY <1>1, <1>2, <1>3, <1>4 DEF R!Next

(* An instance writes the file when its trap is set, and every way from    *)
(* there to the end passes an rm after the write.                          *)
LEMMA FileHasOwnerInductive ==
  RunnerTyped /\ FileHasOwner /\ [R!Next]_R!vars => FileHasOwner'
<1> SUFFICES ASSUME RunnerTyped, FileHasOwner, [R!Next]_R!vars PROVE FileHasOwner'
  OBVIOUS
<1> USE RunnerInput DEF R!RunnerAssumption, RunnerTyped, ScriptLines, R!Goto, FileHasOwner, R!FileHasOwner
<1>1. ASSUME NEW p \in Instance, R!Start(p) PROVE FileHasOwner'
  BY <1>1 DEF R!Start
<1>2. ASSUME NEW p \in Instance, R!ScriptStep(p) PROVE FileHasOwner'
  <2>1. CASE R!Check(p) \/ R!SetTrap(p) \/ R!CheckArguments(p) \/ R!Command(p) \/ R!Sleep(p)
    BY <2>1 DEF R!Check, R!SetTrap, R!CheckArguments, R!Command, R!Sleep
  <2>2. CASE R!Create(p)
    BY <2>2 DEF R!Create
  <2>3. CASE R!FirstTrap(p) \/ R!ExitTrap(p) \/ R!LastTrap(p)
    BY <2>3 DEF R!FirstTrap, R!ExitTrap, R!LastTrap
  <2>4. QED BY <1>2, <2>1, <2>2, <2>3 DEF R!ScriptStep
<1>3. ASSUME NEW p \in Instance, R!Signal(p) PROVE FileHasOwner'
  BY <1>3 DEF R!Signal, R!Trapped
<1>4. ASSUME NEW p \in Instance, R!Kill(p) PROVE FileHasOwner'
  BY <1>4 DEF R!Kill
<1>5. CASE UNCHANGED R!vars
  BY <1>5 DEF R!vars
<1>6. QED BY <1>1, <1>2, <1>3, <1>4, <1>5 DEF R!Next

(* Unless an instance was killed, a pid file has a living owner. *)
THEOREM OwnerAlways == R!Spec => []FileHasOwner
<1>1. R!Init => RunnerTyped /\ FileHasOwner
  BY DEF R!Init, RunnerTyped, ScriptLines, FileHasOwner, R!FileHasOwner
<1>2. RunnerTyped /\ FileHasOwner /\ [R!Next]_R!vars => FileHasOwner'
  BY FileHasOwnerInductive
<1>3. QED BY <1>1, <1>2, RunnerTypedInductive, PTL DEF R!Spec
=============================================================================

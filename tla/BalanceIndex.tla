----------------------------- MODULE BalanceIndex -----------------------------
(***************************************************************************)
(* cpp/sum_elements_array_before_and_after: main() reads an array, adding  *)
(* it up on the way, and find_index() looks for the element that has the   *)
(* same sum before it as after it, in one more pass.                       *)
(*                                                                         *)
(* What will be typed is given by its running sums: upto[i] is the sum of  *)
(* the first i integers.  That is the same information as the integers     *)
(* (element i is upto[i + 1] - upto[i]), and it says what a sum is without *)
(* computing it the way the program does.                                  *)
(***************************************************************************)
EXTENDS Integers

CONSTANTS
  MaxCount,  \* bound: how many integers are typed
  Bound,     \* bound of a running sum: fewer than 2^31 ints stay below 2^62
  Modulus    \* of an unsigned long long: 2^64

ASSUME BalanceAssumption ==
  /\ MaxCount \in Nat
  /\ Bound \in Nat
  /\ Modulus \in Nat
  /\ 3 * Bound < Modulus

VARIABLES
  line,        \* where main() or find_index() is
  value,       \* the number of elements typed
  upto,        \* the running sums of the integers that are typed
  i,           \* loop counter of both loops
  sum,         \* long long: all read so far, then what is after element i
  sum_before,  \* unsigned long long: what is before element i
  index,       \* result of find_index()
  held,        \* whether the array is allocated
  code         \* exit code

vars == <<line, value, upto, i, sum, sum_before, index, held, code>>

Sums == -Bound .. Bound
Inputs(n) == {f \in [0 .. n -> Sums] : f[0] = 0}

(* The integer read into integers[k]. *)
Element(k) == upto[k + 1] - upto[k]

Init ==
  /\ line = "start"
  /\ value \in -1 .. MaxCount
  /\ upto \in Inputs(IF value < 0 THEN 0 ELSE value)
  /\ i = 0 /\ sum = 0 /\ sum_before = 0 /\ index = 0
  /\ held = FALSE
  /\ code = 0

Exit(c) ==
  /\ line' = "done"
  /\ code' = c
  /\ held' = FALSE

(* "Really?! Next time, give me a valid value!" *)
Refuse ==
  /\ line = "start"
  /\ value < 1
  /\ Exit(1)
  /\ UNCHANGED <<value, upto, i, sum, sum_before, index>>

(* malloc() of the array, which may fail. *)
Allocate ==
  /\ line = "start"
  /\ value >= 1
  /\ \/ /\ line' = "read"
        /\ held' = TRUE
        /\ UNCHANGED code
     \/ Exit(2)
  /\ UNCHANGED <<value, upto, i, sum, sum_before, index>>

(* One turn of the reading loop, or its end: then find_index() is called.  *)
ReadInteger ==
  /\ line = "read"
  /\ IF i < value
     THEN /\ sum' = sum + Element(i)
          /\ i' = i + 1
          /\ UNCHANGED line
     ELSE /\ line' = "find"
          /\ i' = 0
          /\ UNCHANGED sum
  /\ sum_before' = 0
  /\ UNCHANGED <<value, upto, index, held, code>>

(* Mutant of Compare: element i is still in the sum after it. *)
CompareTooEarly ==
  IF sum_before = sum % Modulus
  THEN /\ index' = i
       /\ line' = "print"
       /\ UNCHANGED <<i, sum_before>>
  ELSE /\ sum_before' = (sum_before + Element(i)) % Modulus
       /\ i' = i + 1
       /\ UNCHANGED <<line, index>>

(* sum_before == sum compares as unsigned long long, and sum_before is     *)
(* added up modulo its width, negative elements included.                  *)
Compare ==
  IF sum_before = (sum - Element(i)) % Modulus
  THEN /\ index' = i
       /\ line' = "print"
       /\ UNCHANGED <<i, sum_before>>
  ELSE /\ sum_before' = (sum_before + Element(i)) % Modulus
       /\ i' = i + 1
       /\ UNCHANGED <<line, index>>

(* One turn of the loop of find_index(), or its end with -1.               *)
FindStep ==
  /\ line = "find"
  /\ IF i < value
     THEN /\ sum' = sum - Element(i)
          /\ Compare
     ELSE /\ index' = -1
          /\ line' = "print"
          /\ UNCHANGED <<i, sum, sum_before>>
  /\ UNCHANGED <<value, upto, held, code>>

(* The index is printed, the array freed. *)
Finish ==
  /\ line = "print"
  /\ Exit(0)
  /\ UNCHANGED <<value, upto, i, sum, sum_before, index>>

Next == Refuse \/ Allocate \/ ReadInteger \/ FindStep \/ Finish

Spec == Init /\ [][Next]_vars
-----------------------------------------------------------------------------
(* The sum before element k is that after it. *)
Balanced(k) == upto[k] = upto[value] - upto[k + 1]

(* What main() prints is the first element with equal sums on both sides,  *)
(* and "Could not find such an index" only if there is none: the running   *)
(* comparison of a signed with an unsigned sum is that of the two sums,    *)
(* also for negative ones, and memory is given back before main() returns. *)
IndexIsFirstBalance ==
  line = "done" /\ code = 0 =>
    /\ ~held
    /\ \/ /\ index \in 0 .. value - 1
          /\ Balanced(index)
          /\ \A k \in 0 .. index - 1 : ~Balanced(k)
       \/ /\ index = -1
          /\ \A k \in 0 .. value - 1 : ~Balanced(k)
=============================================================================

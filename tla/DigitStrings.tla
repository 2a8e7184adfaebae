----------------------------- MODULE DigitStrings -----------------------------
(***************************************************************************)
(* cpp/remove_non_digit_chars: three versions of a function that reads the *)
(* number left in a string when everything but its digits, and a minus in  *)
(* front, is removed; and the program that calls all three on the same     *)
(* strings and compares what they return.                                  *)
(*                                                                         *)
(* A character is its code.  A long is an integer of 2 * LongHalf values,  *)
(* a short one of 2 * ShortHalf.  A sum of longs that is too large has no  *)
(* defined value in versions 2 and 3, so any long may come of it.          *)
(***************************************************************************)
EXTENDS Integers, Sequences, SequencesExt

CONSTANTS
  Chars,      \* character codes of the strings
  MaxLength,  \* bound: length of a string
  LongHalf,   \* 2^63
  ShortHalf   \* 2^15

DigitAssumption ==
  /\ Chars \subseteq 0 .. 255
  /\ MaxLength \in Nat
  /\ LongHalf \in Nat \ {0}
  /\ ShortHalf \in Nat \ {0}

VARIABLES
  input,        \* the string
  version,      \* which function is called: 1, 2 or 3
  running,      \* whether its loop runs
  pos,          \* short in versions 1 and 2, size_t in 3
  number,       \* long
  pow_of_ten,   \* unsigned long of version 1
  number_sign,  \* of versions 2 and 3
  test_status,  \* whether every comparison was right so far
  code          \* exit code, or -1 before the end

vars == <<input, version, running, pos, number, pow_of_ten, number_sign,
          test_status, code>>

Minus == 45
Zero == 48
is_digit(c) == c \in Zero .. Zero + 9
char_to_digit(c) == c - Zero

Longs == -LongHalf .. LongHalf - 1
AsLong(x) == LET u == x % (2 * LongHalf) IN IF u < LongHalf THEN u ELSE u - 2 * LongHalf
AsUnsigned(x) == x % (2 * LongHalf)
AsShort(x) == LET u == x % (2 * ShortHalf) IN IF u < ShortHalf THEN u ELSE u - 2 * ShortHalf

(* What a signed expression with the mathematical value x may yield. *)
Signed(x) == IF x \in Longs THEN {x} ELSE Longs

Character(k) == input[k + 1]
-----------------------------------------------------------------------------
(* A function is called on the string: an empty one is 0 at once; version  *)
(* 1 starts at the end, the others at the front, behind a minus.           *)
Call(v, s) ==
  LET negative == s # <<>> /\ s[1] = Minus
  IN /\ version' = v
     /\ running' = (s # <<>>)
     /\ number' = 0
     /\ pow_of_ten' = 1
     /\ number_sign' = IF v # 1 /\ negative THEN -1 ELSE 1
     /\ pos' = CASE s = <<>> -> 0
                 [] s # <<>> /\ v = 1 -> AsShort(Len(s) - 1)
                 [] OTHER -> IF negative THEN 1 ELSE 0

Strings == UNION {[1 .. n -> Chars] : n \in 0 .. MaxLength}

Init ==
  /\ input \in Strings
  /\ version = 0
  /\ running = FALSE
  /\ pos = 0 /\ number = 0 /\ pow_of_ten = 1 /\ number_sign = 1
  /\ test_status = TRUE
  /\ code = -1

(* unit_tests() begins with the first version. *)
Start ==
  /\ version = 0
  /\ Call(1, input)
  /\ UNCHANGED <<input, test_status, code>>

(* Mutant of TurnBackwards: ten times as much also for what is no digit. *)
PowerGrowsAlways ==
  LET ch == Character(pos)
  IN /\ IF is_digit(ch)
        THEN number' = AsLong(number + char_to_digit(ch) * pow_of_ten)
        ELSE number' \in IF pos = 0 /\ ch = Minus THEN Signed(-number) ELSE {number}
     /\ pow_of_ten' = AsUnsigned(pow_of_ten * 10)
     /\ pos' = AsShort(pos - 1)

(* Version 1, from the last character to the first; the power of ten is    *)
(* unsigned, so that what it multiplies and is added to is unsigned too.   *)
TurnBackwards ==
  LET ch == Character(pos)
  IN /\ IF is_digit(ch)
        THEN /\ number' = AsLong(number + char_to_digit(ch) * pow_of_ten)
             /\ pow_of_ten' = AsUnsigned(pow_of_ten * 10)
        ELSE /\ number' \in IF pos = 0 /\ ch = Minus THEN Signed(-number) ELSE {number}
             /\ UNCHANGED pow_of_ten
     /\ pos' = AsShort(pos - 1)

(* Mutant of TurnForwards: the position moves on behind a digit only.      *)
MovesOnDigits ==
  LET ch == Character(pos)
  IN /\ number' \in IF is_digit(ch) THEN Signed(number * 10 + char_to_digit(ch)) ELSE {number}
     /\ pos' = CASE ~is_digit(ch) -> pos
                 [] version = 2 -> AsShort(pos + 1)
                 [] OTHER -> pos + 1
     /\ UNCHANGED pow_of_ten

(* Versions 2 and 3, from the first character to the last; they differ in  *)
(* the type of the position.                                               *)
TurnForwards ==
  LET ch == Character(pos)
  IN /\ number' \in IF is_digit(ch) THEN Signed(number * 10 + char_to_digit(ch)) ELSE {number}
     /\ pos' = IF version = 2 THEN AsShort(pos + 1) ELSE pos + 1
     /\ UNCHANGED pow_of_ten

(* pos >= 0 backwards; forwards pos < length, where a negative short turns *)
(* into a large unsigned number.                                           *)
LoopGoesOn == IF version = 1 THEN pos >= 0 ELSE pos >= 0 /\ pos < Len(input)

Turn ==
  /\ running
  /\ LoopGoesOn
  /\ IF version = 1 THEN TurnBackwards ELSE TurnForwards
  /\ UNCHANGED <<input, version, running, number_sign, test_status, code>>

(* return number_sign * number: version 1 has its sign in the number.      *)
Return ==
  /\ running
  /\ ~LoopGoesOn
  /\ running' = FALSE
  /\ number' \in Signed(number_sign * number)
  /\ UNCHANGED <<input, version, pos, pow_of_ten, number_sign, test_status, code>>
-----------------------------------------------------------------------------
(* What the tests expect of a string: the number of its digits, negative   *)
(* if it begins with a minus.                                              *)
AppendDigit(n, c) == IF is_digit(c) THEN n * 10 + char_to_digit(c) ELSE n
Value(s) == FoldLeft(AppendDigit, 0, s)
Expected(s) == IF s # <<>> /\ s[1] = Minus THEN -Value(s) ELSE Value(s)

(* test_status &= f(input) == expected, then the next version, and after   *)
(* the third main() returns 0 if no test failed.                           *)
Compare ==
  /\ version > 0 /\ ~running /\ code = -1
  /\ test_status' = (test_status /\ number = Expected(input))
  /\ IF version < 3
     THEN Call(version + 1, input) /\ UNCHANGED code
     ELSE /\ code' = IF test_status' THEN 0 ELSE 1
          /\ UNCHANGED <<version, running, pos, number, pow_of_ten, number_sign>>
  /\ UNCHANGED input

Next == Start \/ Turn \/ Return \/ Compare
-----------------------------------------------------------------------------
Fits(s) == Value(s) < LongHalf

(* Each version returns the number of the string, if a long can hold it,   *)
(* however many characters are no digits and however many zeros stand in   *)
(* front (the power of ten of version 1 overflows with them); versions 1   *)
(* and 2 as long as their short can count the characters.                  *)
DigitsAreRead ==
  version > 0 /\ ~running /\ Fits(input) /\ (version = 3 \/ Len(input) <= ShortHalf)
    => number = Expected(input)
=============================================================================

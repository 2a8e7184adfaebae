----------------------------- MODULE BitProcessor -----------------------------
(***************************************************************************)
(* cpp/change_bit_in_integer: three functions on one bit of an int, and    *)
(* the program that reads an int and a position, shows the bit, sets it,   *)
(* clears it, and shows it after each.                                     *)
(*                                                                         *)
(* An int is a signed integer of Width bits in two's complement.  & and |  *)
(* are defined on the set of positions that are true.                      *)
(***************************************************************************)
EXTENDS Integers, Sequences

CONSTANTS
  Width,     \* bits of an int: 32
  CharSize,  \* values of an unsigned char: 256
  MaxTyped   \* bound: the largest position typed

BitAssumption ==
  /\ Width \in Nat \ {0, 1}
  /\ CharSize \in Nat /\ CharSize > Width
  /\ MaxTyped \in Nat

VARIABLES
  step,          \* where main() is
  typed,         \* the two numbers that are typed
  value,         \* int value
  bit_position,  \* unsigned char bit_position
  shown,         \* the values of the bit printed so far
  code           \* exit code

vars == <<step, typed, value, bit_position, shown, code>>

(* The powers of two. *)
Power[p \in 0 .. Width] == IF p = 0 THEN 1 ELSE 2 * Power[p - 1]

Half == Power[Width - 1]
Ints_W == -Half .. Half - 1
Positions == 0 .. Width - 1

(* The int that has the low Width bits of x. *)
Wrap(x) == LET u == x % (2 * Half) IN IF u < Half THEN u ELSE u - 2 * Half

BitsOf(v) == {p \in Positions : ((v % (2 * Half)) \div Power[p]) % 2 = 1}
FromBits(set) == CHOOSE v \in Ints_W : BitsOf(v) = set

And(v, w) == FromBits(BitsOf(v) \cap BitsOf(w))
Or(v, w) == FromBits(BitsOf(v) \cup BitsOf(w))
Not(v) == FromBits(Positions \ BitsOf(v))

(* 1 << p, whose last one is the sign bit, and the arithmetic v >> p.      *)
ShiftLeftOne(p) == Wrap(Power[p])
ShiftRight(v, p) == v \div Power[p]

(* The first attempt, kept in the source beside its successor. *)
bp_is_bit_true_bad(v, p) == ShiftRight(And(v, ShiftLeftOne(p)), p)

(* Mutant of bp_is_bit_true: the first attempt is still in use. *)
UsesFirstAttempt(v, p) == bp_is_bit_true_bad(v, p)

bp_is_bit_true(v, p) == And(ShiftRight(v, p), 1)

bp_set_bit_true(v, p) == Or(v, ShiftLeftOne(p))

bp_set_bit_false(v, p) == And(v, Not(ShiftLeftOne(p)))
-----------------------------------------------------------------------------
Init ==
  /\ step = "read"
  /\ typed \in Ints_W \X (0 .. MaxTyped)
  /\ value = 0
  /\ bit_position = 0
  /\ shown = <<>>
  /\ code = 0

(* scanf() of both: the position is reduced to an unsigned char (%hhu),    *)
(* and refused if an int has no such bit.                                  *)
ReadBoth ==
  /\ step = "read"
  /\ value' = typed[1]
  /\ bit_position' = typed[2] % CharSize
  /\ IF bit_position' >= Width
     THEN step' = "done" /\ code' = 1
     ELSE step' = "show" /\ UNCHANGED code
  /\ UNCHANGED <<typed, shown>>

(* The bit is printed; after that it is set, then cleared, then the end.   *)
Show ==
  /\ step = "show"
  /\ shown' = Append(shown, bp_is_bit_true(value, bit_position))
  /\ step' = <<"set", "clear", "done">>[Len(shown')]
  /\ UNCHANGED <<typed, value, bit_position, code>>

SetBit ==
  /\ step = "set"
  /\ value' = bp_set_bit_true(value, bit_position)
  /\ step' = "show"
  /\ UNCHANGED <<typed, bit_position, shown, code>>

ClearBit ==
  /\ step = "clear"
  /\ value' = bp_set_bit_false(value, bit_position)
  /\ step' = "show"
  /\ UNCHANGED <<typed, bit_position, shown, code>>

Next == ReadBoth \/ Show \/ SetBit \/ ClearBit
-----------------------------------------------------------------------------
(* The bit at position p, by arithmetic: the value is that of the bits,    *)
(* the last of which counts negative.                                      *)
Weight(p) == IF p = Width - 1 THEN -Half ELSE Power[p]
IsBitOf(v, p) == Weight(p) * (IF (v \div Power[p]) % 2 = 1 THEN 1 ELSE 0)

(* The program says 0 or 1 for the bit that the int had, then 1, then 0,   *)
(* and ends with the int less the weight of that bit: no other bit changes *)
(* on the way, sign bit and negative numbers included.  "The final value   *)
(* is all 0 except the first bit from right" is what the comment of both   *)
(* tests of a bit promises; of the first attempt it is true below the sign *)
(* bit only, where the two agree.                                          *)
OneBitChanges ==
  /\ step = "done" /\ code = 0 =>
       LET had == IF IsBitOf(typed[1], bit_position) = 0 THEN 0 ELSE 1
       IN /\ shown = <<had, 1, 0>>
          /\ value = typed[1] - had * Weight(bit_position)
  /\ step = "clear" => \A p \in Positions :
       IF p = bit_position THEN IsBitOf(value, p) # 0
                           ELSE IsBitOf(value, p) = IsBitOf(typed[1], p)
  /\ step = "show" => \A p \in 0 .. Width - 2 :
       bp_is_bit_true_bad(value, p) = bp_is_bit_true(value, p)
=============================================================================

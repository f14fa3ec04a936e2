--------------------------- MODULE TargetScaling ----------------------------
(***************************************************************************)
(* scale_target of wcash-pool-core, vardiff.rs: a 256-bit share target     *)
(* times a 64-bit number divided by a 128-bit one, in four 64-bit limbs,   *)
(* without a wider integer type.  The product is built limb by limb with a *)
(* carry, and divided bit by bit from the top; a quotient that does not    *)
(* fit becomes the easiest target and a zero one the hardest.  The loops   *)
(* are those of the code; the width of a limb is a constant.               *)
(***************************************************************************)
EXTENDS Naturals, Sequences

CONSTANT LimbBits   \* 64 in the code

LimbAssumption == LimbBits \in Nat \ {0}

Base == 2 ^ LimbBits
Limbs == 4
MaxTarget == Base ^ Limbs - 1

VARIABLES target, multiplier, divisor,  \* the inputs
          product, carry,               \* multiply_limbs, least significant limb first
          bit, remainder, quotient, overflow,  \* divide_320_by_128
          result

inputs == <<target, multiplier, divisor>>
division == <<bit, remainder, quotient, overflow>>
vars == <<inputs, product, carry, division, result>>

Bits == (Limbs + 1) * LimbBits
Limb(i) == (target \div Base ^ (i - 1)) % Base

Init ==
    /\ target \in 1 .. MaxTarget
    /\ multiplier \in 0 .. Base - 1
    /\ divisor \in 1 .. Base ^ 2 - 1
    /\ product = <<>> /\ carry = 0
    /\ bit = Bits /\ remainder = 0 /\ quotient = 0 /\ overflow = FALSE
    /\ result = 0

\* One limb of the product; the last limb is what was carried out.
MultiplyLimb ==
    LET sum == Limb(Len(product) + 1) * multiplier + carry
    IN  /\ Len(product) < Limbs
        /\ product' = Append(product, sum % Base)
        /\ carry' = sum \div Base
        /\ UNCHANGED <<inputs, division, result>>

CarryOut ==
    /\ Len(product) = Limbs
    /\ product' = Append(product, carry)
    /\ UNCHANGED <<inputs, carry, division, result>>

\* The next bit of the product, from the top.
InputBit == (product[(bit - 1) \div LimbBits + 1] \div 2 ^ ((bit - 1) % LimbBits)) % 2

\* A remainder whose top bit is forgotten when it is shifted out.
SubtractWithoutHigh(shifted) == shifted % Base ^ 2 >= divisor

\* `high || remainder >= divisor`: the shifted remainder may not fit its register.
Subtracts(shifted) == shifted >= Base ^ 2 \/ shifted % Base ^ 2 >= divisor

\* One bit of the quotient; the subtraction wraps in the register.
DivideBit ==
    LET shifted == 2 * remainder + InputBit
        kept == shifted % Base ^ 2
        fits == bit <= Limbs * LimbBits
    IN  /\ Len(product) = Limbs + 1 /\ bit > 0
        /\ bit' = bit - 1
        /\ remainder' = IF Subtracts(shifted)
                        THEN (kept + Base ^ 2 - divisor) % Base ^ 2 ELSE kept
        /\ quotient' = IF Subtracts(shifted) /\ fits
                       THEN quotient + 2 ^ (bit - 1) ELSE quotient
        /\ overflow' = (overflow \/ (Subtracts(shifted) /\ ~fits))
        /\ UNCHANGED <<inputs, product, carry, result>>

\* from_little_limbs never makes the zero target.
Conclude ==
    /\ bit = 0 /\ result = 0
    /\ result' = IF overflow THEN MaxTarget ELSE IF quotient = 0 THEN 1 ELSE quotient
    /\ UNCHANGED <<inputs, product, carry, division>>

Next == MultiplyLimb \/ CarryOut \/ DivideBit \/ Conclude

Spec == Init /\ [][Next]_vars

-----------------------------------------------------------------------------
(* The limb and bit loops compute target * multiplier / divisor, rounded    *)
(* down, held at the easiest target when it does not fit and at the hardest *)
(* when it is zero, also when a remainder's top bit is shifted out.         *)
ScalingIsExact ==
    LET exact == (target * multiplier) \div divisor
    IN  result # 0 =>
          result = IF exact > MaxTarget THEN MaxTarget ELSE IF exact = 0 THEN 1 ELSE exact
=============================================================================

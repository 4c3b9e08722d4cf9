---------------------------- MODULE MachineWord ----------------------------
(***************************************************************************)
(* usize arithmetic as the two queues use it.  A machine word is a number  *)
(* in 0 .. Modulus-1; Modulus stands for 2^usize::BITS.                    *)
(*                                                                         *)
(* wrapping_sub and wrapping_add are core's; the plain `t + 1' of the      *)
(* sources is the same addition in a release build (a debug build panics   *)
(* instead of wrapping, see the README).                                   *)
(***************************************************************************)
EXTENDS Integers

CONSTANT Modulus

ASSUME ModulusAssumption == Modulus \in Nat /\ Modulus > 1

Word(x) == x % Modulus

WrapAdd_unwrapped(a, b) == a + b

WrapAdd(a, b) == Word(a + b)

WrapSub(a, b) == Word(a - b)

(* `w as isize': the upper half of the words are the negative numbers.     *)
AsSigned(w) == IF 2 * w < Modulus THEN w ELSE w - Modulus
=============================================================================

----------------------------- MODULE SerialOrder -----------------------------
(***************************************************************************)
(* Sequence numbers of 32 bits and the order PacketSorter::Less puts on    *)
(* them: int32_t(lh) - int32_t(rh) < 0 (utils.h:81-83).  Half stands for   *)
(* 2^31, so that the width is a parameter.                                 *)
(*                                                                         *)
(* The subtraction of two int32_t may overflow, which C++ leaves           *)
(* undefined.  The builds of this repository produce two outcomes: the     *)
(* subtraction wraps (-O0, the Debug build CMakeLists.txt selects, and     *)
(* -fwrapv), or the compiler folds the test to a comparison of the two     *)
(* signed numbers (-O2, its Release flags).  OverflowWraps says which.     *)
(***************************************************************************)
EXTENDS Integers

CONSTANTS Half,           \* half the number of sequence numbers
          OverflowWraps   \* the build: TRUE wraps, FALSE compares

ASSUME SerialAssumption == /\ Half \in Nat \ {0}
                           /\ OverflowWraps \in BOOLEAN

Space == 2 * Half
SN == 0 .. (Space - 1)

\* int32_t(u)
Signed(u) == IF u < Half THEN u ELSE u - Space

\* The value an int32_t holds after a difference of two int32_t wrapped.
Wrap(d) == IF d < -Half THEN d + Space
           ELSE IF d >= Half THEN d - Space
           ELSE d

\* A wrong Less: compares the numbers themselves.
LessUnsigned(lh, rh) == lh < rh

Less(lh, rh) ==
  LET difference == Signed(lh) - Signed(rh)
  IN  IF OverflowWraps THEN Wrap(difference) < 0 ELSE difference < 0

\* A wrong Add: the sum is kept in a wider type.
AddWide(sn, increase) == sn + increase

\* uint32_t addition
Add(sn, increase) == (sn + increase) % Space
==============================================================================

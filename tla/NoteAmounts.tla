---------------------------- MODULE NoteAmounts ----------------------------
(***************************************************************************)
(* The revenue of a note access as text, and as the scaled integer that    *)
(* note-access-log.worker.ts adds up.                                      *)
(*                                                                         *)
(* A decimal text is a sign, an integer part and a fraction counted in the *)
(* finest decimals that occur.  Unit such decimals that the scale keeps    *)
(* make one; each of them is Fine of the finest ones.  (In the code the    *)
(* scale is 6, so that Unit is 10^6.)                                      *)
(***************************************************************************)
EXTENDS Integers

CONSTANTS Unit, Fine

ASSUME AmountAssumption == Unit \in Nat \ {0} /\ Fine \in Nat \ {0}

(* numeric is FALSE when the text fails the pattern -?\d+(\.\d+)?.         *)
Texts == [numeric : BOOLEAN, negative : BOOLEAN, int : Nat, frac : 0..(Unit * Fine - 1)]

Zero == [numeric |-> TRUE, negative |-> FALSE, int |-> 0, frac |-> 0]

Signed(negative, n) == IF negative THEN -n ELSE n

(* A mutant of ToScaledInt: the sign applied to the integer part only.     *)
ToScaledIntSignLost(text) ==
    IF ~text.numeric THEN 0
    ELSE Signed(text.negative, text.int * Unit) + text.frac \div Fine

(* The fraction is padded or cut to the scale, the sign put back at last.  *)
ToScaledInt(text) ==
    IF ~text.numeric THEN 0
    ELSE Signed(text.negative, text.int * Unit + text.frac \div Fine)

FromScaledInt(n) ==
    LET abs == IF n < 0 THEN -n ELSE n
    IN  [numeric |-> TRUE, negative |-> n < 0,
         int |-> abs \div Unit, frac |-> (abs % Unit) * Fine]

(* The value of a text in the finest decimals, and cut to the scale.       *)
Exact(text) == IF ~text.numeric THEN 0
               ELSE Signed(text.negative, text.int * Unit * Fine + text.frac)

CutToScale(text) ==
    IF Exact(text) < 0 THEN -((-Exact(text)) \div Fine) ELSE Exact(text) \div Fine

(* What a DECIMAL column of that scale stores: MySQL rounds half away from *)
(* zero, and turns other text into 0.                                      *)
Column(text) ==
    IF ~text.numeric THEN 0
    ELSE Signed(text.negative, text.int * Unit + (text.frac + Fine \div 2) \div Fine)
=============================================================================

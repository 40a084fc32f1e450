------------------------------ MODULE PageState ------------------------------
(***************************************************************************)
(* The variables that the pages of the web client share.  A behaviour      *)
(* stays on one page, which has its own variables in the first of them;    *)
(* those that it does not use are zero.                                    *)
(***************************************************************************)
EXTENDS Integers, Sequences, FiniteSets

VARIABLES page, s1, s2, s3, s4, s5, s6, s7, s8, s9, s10, s11, s12, s13, s14, s15, s16

slots == <<s1, s2, s3, s4, s5, s6, s7, s8, s9, s10, s11, s12, s13, s14, s15, s16>>

\* The slots from the n-th on are not used.
Unused16 == s16 = 0
Unused14 == s14 = 0 /\ s15 = 0 /\ Unused16
Unused12 == s12 = 0 /\ s13 = 0 /\ Unused14
Unused11 == s11 = 0 /\ Unused12
Unused10 == s10 = 0 /\ Unused11
Unused9 == s9 = 0 /\ Unused10
Unused8 == s8 = 0 /\ Unused9
Unused7 == s7 = 0 /\ Unused8
Unused5 == s5 = 0 /\ s6 = 0 /\ Unused7
Unused1 == s1 = 0 /\ s2 = 0 /\ s3 = 0 /\ s4 = 0 /\ Unused5
\* They stay so.
Kept16 == UNCHANGED <<s16>>
Kept14 == UNCHANGED <<s14, s15, s16>>
Kept12 == UNCHANGED <<s12, s13, s14, s15, s16>>
Kept11 == UNCHANGED <<s11, s12, s13, s14, s15, s16>>
Kept10 == UNCHANGED <<s10, s11, s12, s13, s14, s15, s16>>
Kept9 == UNCHANGED <<s9, s10, s11, s12, s13, s14, s15, s16>>
Kept8 == UNCHANGED <<s8, s9, s10, s11, s12, s13, s14, s15, s16>>
Kept7 == UNCHANGED <<s7, s8, s9, s10, s11, s12, s13, s14, s15, s16>>
Kept5 == UNCHANGED <<s5, s6, s7, s8, s9, s10, s11, s12, s13, s14, s15, s16>>
=============================================================================

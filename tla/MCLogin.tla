------------------------------- MODULE MCLogin -------------------------------
(***************************************************************************)
(* The session of LoginSession with legs and deadlines in the proportions  *)
(* of the code: each deadline is one step longer than the legs it has to   *)
(* cover, a biometric leg takes twice as long as another one.              *)
(***************************************************************************)
EXTENDS LoginSession

ShortTime ==
    [l \in Leg |-> CASE l \in {"face", "finger"} -> 2
                     [] l = "read" -> 0
                     [] OTHER -> 1]

ASSUME MCAssumption == DeadlinesCoverLegs

\* Whatever may go wrong does.
EveryFault == Leg \cup {"spawn", "kill"}
=============================================================================

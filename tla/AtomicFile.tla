------------------------------ MODULE AtomicFile ------------------------------
(***************************************************************************)
(* What a durable save promises: the file is absent or one whole content   *)
(* at every moment, a loss of power takes it back at most to what it was   *)
(* before the last save, and a save that was acknowledged is not taken     *)
(* back at all.                                                            *)
(***************************************************************************)
CONSTANTS Content, None

VARIABLES
    value,      \* what a process finds under the name
    fallback,   \* what a loss of power may leave there
    saved       \* the last call was a save, and it returned Ok

Init == value = None /\ fallback = {None} /\ saved = FALSE

Put ==
    /\ value' \in Content
    /\ fallback' = fallback \cup {value'}
    /\ saved' = FALSE

Acknowledge == UNCHANGED value /\ fallback' = {value} /\ saved' = TRUE

\* A later call begins.
Forget == saved' = FALSE /\ UNCHANGED <<value, fallback>>

LosePower ==
    /\ value' \in fallback
    /\ fallback' = {value'}
    /\ saved' = FALSE

Next == Put \/ Acknowledge \/ Forget \/ LosePower

Spec == Init /\ [][Next]_<<value, fallback, saved>>
=============================================================================

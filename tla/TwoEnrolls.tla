------------------------------ MODULE TwoEnrolls ------------------------------
(***************************************************************************)
(* Two runs of tess enroll at the same time, in two terminals of one user. *)
(* Nothing keeps them apart: they share the keyring, the files and the     *)
(* TPM, and each has a transaction of its own.                             *)
(***************************************************************************)
CONSTANTS Key, Password, Foreign, Typo, None,
          LostReplies, SyncFails, FlushFails, Crashes, TpmClears

VARIABLES cred, locked, disk, stale, marker, lockout, selfLocked, daLocked,
          shown

VARIABLES pc1, key1, tx1, report1, pc2, key2, tx2, report2

shared == <<cred, locked, disk, stale, marker, lockout, selfLocked, daLocked,
            shown>>
command1 == <<pc1, key1, tx1, report1>>
command2 == <<pc2, key2, tx2, report2>>
vars == <<shared, command1, command2>>

First == INSTANCE Enroll WITH
    pc <- pc1, key <- key1, tx <- tx1, report <- report1
Second == INSTANCE Enroll WITH
    pc <- pc2, key <- key2, tx <- tx2, report <- report2

Init == First!Init /\ Second!Init

\* One of them goes on by a step; a draw never repeats a key.
FirstRuns ==
    /\ First!EnrollBegin \/ First!EnrollStep
    /\ key1' \in Key => key1' # key2
    /\ UNCHANGED command2

SecondRuns ==
    /\ Second!EnrollBegin \/ Second!EnrollStep
    /\ key2' \in Key => key2' # key1
    /\ UNCHANGED command1

Next == FirstRuns \/ SecondRuns

Spec == Init /\ [][Next]_vars

\* "A crash or error mid-flight must never leave a half-rekeyed keyring the user
\* can no longer open" (enroll in enroll/mod.rs): when both runs are over the
\* password, the PIN or the recovery secret opens the keyring.
StillOpens ==
    pc1 = "idle" /\ pc2 = "idle" =>
        \/ cred = Password
        \/ disk["metadata"] = cred
        \/ disk["recovery"] = cred /\ cred \in shown
=============================================================================

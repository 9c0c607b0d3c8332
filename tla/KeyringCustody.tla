---------------------------- MODULE KeyringCustody ----------------------------
(***************************************************************************)
(* What tess promises about the login keyring: it is either on a password  *)
(* of the user's or on a key kept in both the sealed metadata and the      *)
(* recovery blob, it moves between the two in one step, and what is kept   *)
(* changes only while the keyring is on a password.                        *)
(***************************************************************************)
CONSTANTS Key, Password

VARIABLES
    cred,   \* the master password of the keyring
    kept    \* the keys held by the sealed metadata and the recovery blob both

Init == cred = Password /\ kept = {}

\* Blobs come and go while the user's password opens the keyring.
Rearrange == cred = Password /\ UNCHANGED cred /\ kept' \subseteq Key

TakeOver ==
    /\ cred = Password
    /\ cred' \in kept
    /\ UNCHANGED kept

GiveBack ==
    /\ cred \in kept
    /\ cred' = Password
    /\ UNCHANGED kept

Next == Rearrange \/ TakeOver \/ GiveBack

Spec == Init /\ [][Next]_<<cred, kept>>
=============================================================================

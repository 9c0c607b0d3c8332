-------------------------------- MODULE Vault --------------------------------
(***************************************************************************)
(* What the commands of tess share: the login keyring, the TPM, the files  *)
(* of an enrollment and the secrets the user holds, with the outcomes each *)
(* of their operations can have.                                           *)
(*                                                                         *)
(* A key k stands for everything one enrollment generates with it: the     *)
(* keyring key K, the recovery secret R, the face authValue A_face and the *)
(* lockout authValue derived from R.  Two enrollments never share one.     *)
(***************************************************************************)
EXTENDS Naturals

CONSTANTS
    Key,        \* the keys the enrollments of a behaviour generate
    Password,   \* any password the user chose, and therefore knows
    Foreign,    \* a lockout authValue somebody other than tess has set
    Typo,       \* a mistyped recovery secret: 64 hex digits that are no R
    None        \* an absent file, an empty authValue, no secret given

CONSTANTS       \* the faults a model lets happen
    LostReplies, \* the steps whose rekey is applied although the caller sees Err
    SyncFails,  \* the fsync of the directory fails after the rename
    FlushFails, \* the TPM changes an authValue and the session flush fails
    Crashes,    \* the process may die between any two steps
    TpmClears   \* the TPM may be cleared

ASSUME VaultAssumption ==
    /\ {Password, Foreign, Typo, None} \cap Key = {}
    /\ Password # None /\ Foreign # None /\ Typo # None
    /\ LostReplies \subseteq {"rekey", "restore", "revert", "reinstate"}
    /\ {SyncFails, FlushFails, Crashes, TpmClears} \subseteq BOOLEAN

SealedFile == {"metadata", "metadata_face"}
Blob == SealedFile \cup {"recovery", "face_key", "template"}

VARIABLES
    cred,       \* the master password of the login collection
    locked,     \* whether the collection is locked
    disk,       \* the key each file was written for, None when it is absent
    stale,      \* the sealed files made before the last TPM clear
    marker,     \* whether lockout-owned exists
    lockout,    \* the authValue of the TPM lockout hierarchy
    selfLocked, \* a wrong authValue has blocked the lockout hierarchy
    daLocked,   \* dictionary-attack lockout: the TPM refuses every unseal
    shown       \* the keys whose recovery secret the user was shown

VARIABLES       \* the command that is running
    pc,         \* its next step, "idle" when none runs
    key,        \* the key it works with
    tx,         \* what enroll did so far, then what is left to undo or remove
    report      \* what it told the user

keyring == <<cred, locked>>
files == <<disk, stale, marker>>
tpm == <<lockout, selfLocked, daLocked>>
command == <<pc, key, tx, report>>
vars == <<cred, locked, disk, stale, marker, lockout, selfLocked, daLocked,
          shown, pc, key, tx, report>>

EnrollPC == {"backup", "seal", "face_seal", "face_key", "template", "bind",
             "mark", "rekey", "verify", "show",
             "restore", "unbind", "unmark", "cleanup"}
UnenrollPC == {"prove", "revert", "check", "reinstate", "release",
               "release_mark", "sweep"}
RecoverPC == {"recover", "reseal"}

Report == {"none", "refused", "failed", "enrolled", "restored",
           "cleanup_failed", "restore_failed", "unlocked", "recovered",
           "resealed", "unenrolled"}

KeyringTypeOK == cred \in Key \cup {Password} /\ locked \in BOOLEAN

FilesTypeOK ==
    /\ disk \in [Blob -> Key \cup {None}]
    /\ stale \subseteq SealedFile
    /\ marker \in BOOLEAN

TpmTypeOK ==
    /\ lockout \in Key \cup {None, Foreign}
    /\ selfLocked \in BOOLEAN
    /\ daLocked \in BOOLEAN

CommandTypeOK ==
    /\ pc \in {"idle"} \cup EnrollPC \cup UnenrollPC \cup RecoverPC
    /\ key \in Key \cup {Typo, None}
    /\ tx \subseteq Blob \cup {"lockout", "rekeyed"}
    /\ report \in Report

TypeOK ==
    /\ KeyringTypeOK /\ FilesTypeOK /\ TpmTypeOK /\ CommandTypeOK
    /\ shown \subseteq Key

\* A machine tess was never run on; somebody may own its lockout hierarchy.
Init ==
    /\ cred = Password
    /\ locked = FALSE
    /\ disk = [f \in Blob |-> None]
    /\ stale = {}
    /\ marker = FALSE
    /\ lockout \in {None, Foreign}
    /\ selfLocked = FALSE
    /\ daLocked = FALSE
    /\ shown = {}
    /\ pc = "idle"
    /\ key = None
    /\ tx = {}
    /\ report = "none"

-----------------------------------------------------------------------------
(***************************************************************************)
(* The keyring.                                                            *)
(***************************************************************************)

\* unlock succeeds only with the collection's master password.
Unlocks(secret) == cred = secret /\ locked' = FALSE /\ cred' = cred

\* unlock, and is_locked after it, return Err, or the collection reads as
\* locked again; it may have been unlocked all the same.
UnlockFails(secret) ==
    \/ UNCHANGED keyring
    \/ Unlocks(secret)

Rekeys(old, new) == cred = old /\ cred' = new /\ locked' = locked

\* rekey returns Err.  Nothing changed, unless only the reply was lost.
RekeyFails(old, new) ==
    \/ UNCHANGED keyring
    \/ pc \in LostReplies /\ Rekeys(old, new)

-----------------------------------------------------------------------------
(***************************************************************************)
(* The files.  Every save writes a temporary, renames it and fsyncs the    *)
(* directory, so a file appears whole or not at all.                       *)
(***************************************************************************)

Saves(f, k) ==
    /\ disk' = [disk EXCEPT ![f] = k]
    /\ stale' = stale \ {f}

\* A save that returns Err: before the rename nothing is there, after it the
\* file is.
SaveFails(f, k) ==
    \/ UNCHANGED <<disk, stale>>
    \/ SyncFails /\ Saves(f, k)

\* remove_file: an absent file is success.
Removes(f) == Saves(f, None)

Present(f) == disk[f] # None

-----------------------------------------------------------------------------
(***************************************************************************)
(* The TPM.                                                                *)
(***************************************************************************)

\* A sealed file can be unsealed by the TPM that holds its primary, outside a
\* dictionary-attack lockout, with the right authValue.
Unsealable(f) == Present(f) /\ f \notin stale /\ ~daLocked

\* hierarchy_change_auth accepts the current authValue and no other.
ChangesAuth(current, new) ==
    /\ lockout = current
    /\ ~selfLocked
    /\ lockout' = new
    /\ UNCHANGED <<selfLocked, daLocked>>

\* set_lockout_auth returns Err.  Authorizing with a wrong value blocks the
\* hierarchy; a failed session flush comes after the change took effect.
ChangeAuthFails(current, new) ==
    \/ UNCHANGED tpm
    \/ /\ lockout # current
       /\ selfLocked' = TRUE
       /\ UNCHANGED <<lockout, daLocked>>
    \/ FlushFails /\ ChangesAuth(current, new)

-----------------------------------------------------------------------------
(***************************************************************************)
(* The command.                                                            *)
(***************************************************************************)

Goto(label) == pc' = label /\ UNCHANGED <<key, tx, report>>

\* The command returns to the shell, or dies; only its report outlives it.
Ends(r) == pc' = "idle" /\ key' = None /\ tx' = {} /\ report' = r
=============================================================================

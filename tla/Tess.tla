--------------------------------- MODULE Tess ---------------------------------
(***************************************************************************)
(* One user's machine: tess enroll, unlock, recover and unenroll run one   *)
(* after the other, die at any step, and share the TPM and the keyring     *)
(* with the rest of the system.                                            *)
(***************************************************************************)
EXTENDS Enroll, Lifecycle

\* The process dies; what it knew is lost.
Crash ==
    /\ Crashes
    /\ pc # "idle"
    /\ Ends("none")
    /\ UNCHANGED <<keyring, files, tpm, shown>>

\* The session locks the keyring.
LockKeyring ==
    /\ ~locked
    /\ locked' = TRUE
    /\ UNCHANGED <<cred, files, tpm, shown, command>>

\* Wrong PINs bring the TPM into a dictionary-attack lockout; both lockouts end
\* with their recovery intervals.
LockoutTimers ==
    /\ UNCHANGED <<keyring, files, lockout, shown, command>>
    /\ \/ daLocked' = ~daLocked /\ UNCHANGED selfLocked
       \/ selfLocked /\ selfLocked' = FALSE /\ UNCHANGED daLocked

\* A clear is done from the firmware: no command survives it.  The storage
\* primary changes, so no object sealed before can be loaded again.
TpmClear ==
    /\ TpmClears
    /\ pc = "idle"
    /\ lockout' = None
    /\ selfLocked' = FALSE
    /\ daLocked' = FALSE
    /\ stale' = {f \in SealedFile : Present(f)}
    /\ UNCHANGED <<keyring, disk, marker, shown, command>>

\* The user follows the advice of a refused enrollment while the keyring is on
\* a password: remove the stale blobs by hand.
RemoveStaleBlobs ==
    /\ pc = "idle"
    /\ report = "refused"
    /\ cred = Password
    /\ disk' = [f \in Blob |-> IF f = "template" THEN disk[f] ELSE None]
    /\ stale' = {}
    /\ UNCHANGED <<keyring, marker, tpm, shown, command>>

Environment ==
    LockKeyring \/ LockoutTimers \/ TpmClear \/ RemoveStaleBlobs

Step == EnrollStep \/ LifecycleStep

Next == EnrollBegin \/ LifecycleBegin \/ Step \/ Crash \/ Environment

Spec == Init /\ [][Next]_vars

\* A command is a sequential program whose calls all return.
FairSpec == Spec /\ WF_vars(Step)

-----------------------------------------------------------------------------
(***************************************************************************)
(* Safety.                                                                 *)
(***************************************************************************)

\* A keyring on a key K always has both blobs of K on disk: whatever fails or
\* dies, enroll takes over only after they are saved, and neither a rollback nor
\* an unenrollment removes one before the password is back.
BlobsKept ==
    cred \in Key => disk["metadata"] = cred /\ disk["recovery"] = cred

\* While an enrollment whose R owns the lockout hierarchy is in force, the
\* marker is there, so that a later unenroll knows it may release it.
OwnedAuthMarked == cred \in Key /\ lockout = cred => marker

\* No face credential of an earlier enrollment is left beside the current one:
\* its sealed object and its authValue are of the current key or absent.
FaceBelongs ==
    cred \in Key =>
        \A f \in {"metadata_face", "face_key"} : disk[f] \in {None, cred}

\* The password opens the keyring, or the PIN does, TPM permitting.
PasswordOrPinOpens ==
    cred = Password \/ (cred = disk["metadata"] /\ "metadata" \notin stale)

\* Even when a rekey reports an error after it took effect, each step of an
\* unenrollment that has proved its key, its last one and its death included,
\* leaves the keyring to the password or to a PIN whose sealed object is there.
UnenrollNeverStrands ==
    [][PasswordOrPinOpens' \/ pc \notin UnenrollPC \ {"prove"}]_vars

\* Whenever tess is not running, the recovery secret of an enrolled keyring has
\* been shown and its blob is there: the way back in needs no TPM.
WayBackWithoutTpm ==
    pc = "idle" /\ cred \in Key => disk["recovery"] = cred /\ cred \in shown

\* Whenever tess is not running the user can open the keyring: with a
\* password, the PIN or the recovery secret.
UserCanOpen ==
    pc = "idle" =>
        \/ cred = Password
        \/ disk["metadata"] = cred /\ "metadata" \notin stale
        \/ disk["recovery"] = cred /\ cred \in shown

\* "rolled back to the original keyring": the password is back, and unless the
\* message names a failed cleanup, no blob that refuses an enrollment is left.
RolledBack ==
    pc = "idle" =>
        /\ report \in {"restored", "cleanup_failed"} => cred = Password
        /\ report = "restored" => ~AlreadyEnrolled

\* While the hierarchy is bound to tess, `tess unenroll` can be run again to
\* release it.
LaterUnenrollReleases ==
    pc = "idle" /\ marker /\ lockout \in shown => Present("metadata")

\* Enrollment and its rollback never authorize the lockout hierarchy with a
\* wrong value, which would block it, whoever owns it.
EnrollNeverBlocks ==
    [][selfLocked' /\ pc \in EnrollPC => selfLocked]_vars

\* The keyring is handed over and given back as KeyringCustody describes.
Kept == {k \in Key : disk["metadata"] = k /\ disk["recovery"] = k}
Custody == INSTANCE KeyringCustody WITH kept <- Kept
CustodySpec == Custody!Spec

\* Every command that is not killed returns.
CommandEnds == pc # "idle" ~> pc = "idle"

-----------------------------------------------------------------------------
(***************************************************************************)
(* The inductive invariant behind BlobsKept, OwnedAuthMarked, FaceBelongs  *)
(* and EnrollNeverBlocks, for a daemon that loses no reply.                *)
(***************************************************************************)

\* enroll before it rekeys; the steps of a command with the password on the
\* keyring, and those with the key on it.
BeforeRekey == {"backup", "seal", "face_seal", "face_key", "template", "bind",
                "mark", "rekey"}
OnPassword == BeforeRekey \cup {"unbind", "unmark", "cleanup", "check",
                                "reinstate", "release", "release_mark", "sweep"}
OnKey == {"verify", "show", "revert"}

CredFollowsPC ==
    /\ pc \in EnrollPC \cup UnenrollPC => key \in Key
    /\ pc \in OnPassword => cred = Password
    /\ pc \in OnKey => cred = key
    /\ pc \in BeforeRekey => "rekeyed" \notin tx
    /\ pc = "verify" => "rekeyed" \in tx
    /\ pc = "restore" => cred = IF "rekeyed" \in tx THEN key ELSE Password

\* The blobs the key needs before it may become the credential.
BlobsFollowPC ==
    /\ pc \in BeforeRekey \ {"backup"} => disk["recovery"] = key
    /\ pc \in BeforeRekey \ {"backup", "seal"} => disk["metadata"] = key
    /\ pc \in BeforeRekey =>
          \A f \in {"metadata_face", "face_key"} : disk[f] \in {None, key}

\* The lockout hierarchy carries the key's authValue only once enroll bound it,
\* and enroll rekeys only once the marker says so.
LockoutFollowsPC ==
    /\ pc \in BeforeRekey \ {"mark", "rekey"} => lockout # key
    /\ pc = "rekey" /\ lockout = key => marker
    /\ pc \in EnrollPC /\ "lockout" \in tx => lockout = key

\* An unenrollment that has to put the key back finds all as it was.
ReinstatePossible ==
    pc \in {"check", "reinstate"} =>
        /\ disk["metadata"] = key /\ disk["recovery"] = key
        /\ \A f \in {"metadata_face", "face_key"} : disk[f] \in {None, key}
        /\ lockout = key => marker

IndInv ==
    /\ TypeOK /\ BlobsKept /\ OwnedAuthMarked /\ FaceBelongs
    /\ CredFollowsPC /\ BlobsFollowPC /\ LockoutFollowsPC /\ ReinstatePossible

-----------------------------------------------------------------------------
(***************************************************************************)
(* The inductive invariant behind UnenrollNeverStrands, for a daemon that  *)
(* may lose replies.                                                       *)
(***************************************************************************)

UnenrollInv ==
    /\ pc \in {"prove", "revert", "check", "reinstate"} =>
           disk["metadata"] = key /\ "metadata" \notin stale
    /\ pc = "revert" => cred = key
    /\ pc \in UnenrollPC \ {"prove", "revert"} => cred = Password

-----------------------------------------------------------------------------
(***************************************************************************)
(* The inductive invariants behind WayBackWithoutTpm, when no command is   *)
(* killed, and behind RolledBack, when no directory fails to sync.         *)
(***************************************************************************)

\* A key that is on the keyring has been shown, unless the enrollment that put
\* it there still runs; one that an unenrollment may put back has been.
ShownInv ==
    /\ cred \in Key /\ pc \notin {"verify", "show", "restore"} => cred \in shown
    /\ pc \in {"check", "reinstate"} => key \in shown

\* The files that refuse an enrollment, of those on disk.
Refusing == {f \in {"metadata", "recovery", "metadata_face", "face_key"} : Present(f)}

\* An enrollment that fails knows every such file that is there, and forgets one
\* only when it is gone or the report says that it is not.
RollbackInv ==
    /\ pc \in BeforeRekey \cup {"verify", "restore", "unbind", "unmark"}
          => Refusing \subseteq tx
    /\ pc = "unmark" => report = "restored"
    /\ pc = "cleanup" => report \in {"restored", "cleanup_failed"}
    /\ pc = "cleanup" /\ report = "restored" => Refusing \subseteq tx
    /\ RolledBack
=============================================================================

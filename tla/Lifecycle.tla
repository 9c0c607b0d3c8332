------------------------------ MODULE Lifecycle ------------------------------
(***************************************************************************)
(* The commands of an enrolled machine: tess unlock, tess recover with its *)
(* reseal, and tess unenroll.                                              *)
(***************************************************************************)
EXTENDS Vault

-----------------------------------------------------------------------------
(***************************************************************************)
(* tess unlock, with the PIN or after a face match.  Neither writes.       *)
(***************************************************************************)

\* Unseal the key of f and open the keyring with it.
UnlockWith(f) ==
    /\ UNCHANGED <<files, tpm, shown>>
    /\ \/ Unsealable(f) /\ Unlocks(disk[f]) /\ Ends("unlocked")
       \/ Unsealable(f) /\ UnlockFails(disk[f]) /\ Ends("failed")
       \/ UNCHANGED keyring /\ Ends("failed")

Unlock ==
    /\ pc = "idle"
    /\ \/ Present("metadata") /\ UnlockWith("metadata")
       \/ ~Present("metadata") /\ Ends("refused")
                               /\ UNCHANGED <<keyring, files, tpm, shown>>

\* run_unlock requires the metadata first, then the three face artifacts; the
\* A_face on disk must be the one the object was sealed under.
UnlockWithFace ==
    /\ pc = "idle"
    /\ \A f \in {"metadata", "metadata_face", "face_key", "template"} : Present(f)
    /\ disk["face_key"] = disk["metadata_face"]
    /\ UnlockWith("metadata_face")

-----------------------------------------------------------------------------
(***************************************************************************)
(* tess recover: r is what the user typed as the recovery secret.          *)
(***************************************************************************)

\* In a dictionary-attack lockout, authorize its reset with the value derived
\* from r, whoever owns the hierarchy; a failure is only a warning.
ResetHardLockout(r) ==
    \/ ~daLocked /\ UNCHANGED tpm
    \/ /\ daLocked
       /\ lockout = r
       /\ ~selfLocked
       /\ daLocked' = FALSE
       /\ UNCHANGED <<lockout, selfLocked>>
    \/ daLocked /\ UNCHANGED tpm
    \/ /\ daLocked
       /\ lockout # r
       /\ selfLocked' = TRUE
       /\ UNCHANGED <<lockout, daLocked>>

RecoverBegin ==
    /\ pc = "idle"
    /\ UNCHANGED <<keyring, files, shown>>
    /\ \/ ~Present("recovery") /\ Ends("refused") /\ UNCHANGED tpm
       \/ /\ Present("recovery")
          /\ \E r \in shown \cup {Typo} :
                ResetHardLockout(r) /\ key' = r
          /\ pc' = "recover"
          /\ tx' = {}
          /\ report' = "none"

\* The blob unwraps under the recovery secret it was made with and no other.
Recover ==
    /\ pc = "recover"
    /\ UNCHANGED <<files, tpm, shown>>
    /\ \/ /\ disk["recovery"] = key
          /\ Unlocks(key)
          /\ Ends("recovered") \/ Goto("reseal")
       \/ disk["recovery"] = key /\ UnlockFails(key) /\ Ends("failed")
       \/ UNCHANGED keyring /\ Ends("failed")

\* Seal the recovered key again and overwrite the metadata; nothing else.
Reseal ==
    /\ pc = "reseal"
    /\ UNCHANGED <<keyring, marker, tpm, shown>>
    /\ \/ disk["recovery"] = key /\ ~daLocked /\ Saves("metadata", key)
                                 /\ Ends("resealed")
       \/ disk["recovery"] = key /\ ~daLocked /\ SaveFails("metadata", key)
                                 /\ Ends("failed")
       \/ UNCHANGED <<disk, stale>> /\ Ends("failed")

-----------------------------------------------------------------------------
(***************************************************************************)
(* tess unenroll.                                                          *)
(***************************************************************************)

UnenrollBegin ==
    /\ pc = "idle"
    /\ UNCHANGED <<keyring, files, tpm, shown>>
    /\ \/ ~Present("metadata") /\ Ends("refused")
       \/ Present("metadata") /\ Ends("failed")
       \/ /\ Unsealable("metadata")
          /\ key' = disk["metadata"]
          /\ pc' = "prove"
          /\ tx' = {}
          /\ report' = "none"

\* The unsealed key must open the keyring before anything is touched.
ProveKey ==
    /\ pc = "prove"
    /\ UNCHANGED <<files, tpm, shown>>
    /\ \/ Unlocks(key) /\ Goto("revert")
       \/ UnlockFails(key) /\ Ends("failed")

\* The destructive step: rekey K -> password.
RekeyToPassword ==
    /\ pc = "revert"
    /\ UNCHANGED <<files, tpm, shown>>
    /\ \/ Rekeys(key, Password) /\ Goto("check")
       \/ RekeyFails(key, Password) /\ Ends("failed")

CheckPassword ==
    /\ pc = "check"
    /\ UNCHANGED <<files, tpm, shown>>
    /\ \/ Unlocks(Password) /\ Goto("release")
       \/ UnlockFails(Password) /\ Goto("reinstate")

\* Mutant: after the key is back, try the whole unenrollment again.
ReinstateAndRetry ==
    /\ pc = "reinstate"
    /\ \/ Rekeys(Password, key) /\ Goto("revert")
       \/ RekeyFails(Password, key) /\ Ends("failed")
    /\ UNCHANGED <<files, tpm, shown>>

\* Mutant: a key that cannot be put back is taken for one that is not needed: the
\* keyring is still on the password, so go on.
ReinstateOrGoOn ==
    /\ pc = "reinstate"
    /\ \/ Rekeys(Password, key) /\ Ends("failed")
       \/ RekeyFails(Password, key) /\ Goto("release")
    /\ UNCHANGED <<files, tpm, shown>>

\* The password did not open the keyring: back to the key the blobs hold.
ReinstateKey ==
    /\ pc = "reinstate"
    /\ Rekeys(Password, key) \/ RekeyFails(Password, key)
    /\ Ends("failed")
    /\ UNCHANGED <<files, tpm, shown>>

\* Release the lockout hierarchy with the recovery secret r, when one was given
\* and the marker says tess owns the hierarchy.  A failure is only a warning.
\* The store of the face template may not resolve: its file then stays.
ReleaseLockout ==
    /\ pc = "release"
    /\ UNCHANGED <<keyring, files, shown, key, report>>
    /\ tx' \in {Blob, Blob \ {"template"}}
    /\ \/ pc' = "sweep" /\ UNCHANGED tpm
       \/ /\ marker
          /\ \E r \in shown \cup {Typo} :
                \/ ChangesAuth(r, None) /\ pc' = "release_mark"
                \/ ChangeAuthFails(r, None) /\ pc' = "sweep"

ReleaseMarker ==
    /\ pc = "release_mark"
    /\ marker' \in {FALSE, marker}
    /\ Goto("sweep")
    /\ UNCHANGED <<keyring, disk, stale, tpm, shown>>

SweepRank == [metadata |-> 1, recovery |-> 2, metadata_face |-> 3,
              face_key |-> 4, template |-> 5]

\* remove_blobs: in this order, stopping at the first failure.
SweepFile ==
    /\ pc = "sweep"
    /\ \E f \in tx :
          /\ \A g \in tx : SweepRank[f] <= SweepRank[g]
          /\ \/ Removes(f) /\ tx' = tx \ {f} /\ UNCHANGED <<pc, key, report>>
             \/ UNCHANGED <<disk, stale>> /\ Ends("failed")
    /\ UNCHANGED <<keyring, marker, tpm, shown>>

SweepDone ==
    /\ pc = "sweep"
    /\ tx = {}
    /\ Ends("unenrolled")
    /\ UNCHANGED <<keyring, files, tpm, shown>>

LifecycleBegin == Unlock \/ UnlockWithFace \/ RecoverBegin \/ UnenrollBegin

LifecycleStep ==
    \/ Recover \/ Reseal
    \/ ProveKey \/ RekeyToPassword \/ CheckPassword \/ ReinstateKey
    \/ ReleaseLockout \/ ReleaseMarker \/ SweepFile \/ SweepDone
=============================================================================

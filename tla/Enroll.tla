-------------------------------- MODULE Enroll --------------------------------
(***************************************************************************)
(* tess enroll: the transaction that moves the keyring from the user's     *)
(* password to a random key sealed in the TPM, and its rollback.           *)
(***************************************************************************)
EXTENDS Vault

\* A key no file, device or user has seen: a random draw never repeats one.
Fresh(k) ==
    /\ k \notin {cred, lockout} \cup shown
    /\ \A f \in Blob : disk[f] # k

\* Mutant: the face artifacts do not refuse an enrollment.
IgnoreFaceFiles == Present("metadata") \/ Present("recovery")

\* Any of these four refuses the enrollment; the template does not.
AlreadyEnrolled ==
    \E f \in {"metadata", "recovery", "metadata_face", "face_key"} : Present(f)

\* enroll up to commit: refuse, prove the old credential, generate the key.
EnrollBegin ==
    /\ pc = "idle"
    /\ UNCHANGED <<files, tpm, shown>>
    /\ \/ AlreadyEnrolled /\ UNCHANGED keyring /\ Ends("refused")
       \/ ~AlreadyEnrolled /\ UnlockFails(Password) /\ Ends("failed")
       \/ /\ ~AlreadyEnrolled
          /\ Unlocks(Password)
          /\ \E k \in Key : Fresh(k) /\ key' = k
          /\ pc' = "backup"
          /\ tx' = {}
          /\ report' = "none"

\* One persisted artifact: recorded in tx only when its save returned Ok.
Persist(at, f, next) ==
    /\ pc = at
    /\ UNCHANGED <<keyring, marker, tpm, shown, key, report>>
    /\ \/ Saves(f, key) /\ tx' = tx \cup {f} /\ pc' \in next
       \/ SaveFails(f, key) /\ UNCHANGED tx /\ pc' = "restore"

\* Mutant: a recovery blob that cannot be saved is only a warning.
BackupOptional ==
    \/ Persist("backup", "recovery", {"seal"})
    \/ pc = "backup" /\ Goto("seal") /\ UNCHANGED <<keyring, files, tpm, shown>>

BackupRecovery == Persist("backup", "recovery", {"seal"})

\* The unseal that proves the sealed object needs a TPM out of lockout; so does
\* the one of the face object.  The face leg is optional.
SealMetadata ==
    /\ pc = "seal"
    /\ \/ ~daLocked /\ Persist("seal", "metadata", {"face_seal", "bind"})
       \/ daLocked /\ Goto("restore") /\ UNCHANGED <<keyring, files, tpm, shown>>

SealFace ==
    /\ pc = "face_seal"
    /\ \/ ~daLocked /\ Persist("face_seal", "metadata_face", {"face_key"})
       \/ daLocked /\ Goto("restore") /\ UNCHANGED <<keyring, files, tpm, shown>>

StoreFaceKey == Persist("face_key", "face_key", {"template"})

StoreTemplate == Persist("template", "template", {"bind"})

\* Mutant: bind without reading whether the hierarchy has an authValue.
BindUnchecked ==
    /\ pc = "bind"
    /\ UNCHANGED <<keyring, files, shown, key, report>>
    /\ \/ ChangesAuth(None, key) /\ tx' = tx \cup {"lockout"} /\ pc' = "mark"
       \/ ChangeAuthFails(None, key) /\ pc' = "restore" /\ UNCHANGED tx

\* Step 4.6: a hierarchy that already has an authValue is left alone.
BindLockout ==
    /\ pc = "bind"
    /\ UNCHANGED <<keyring, files, shown, key, report>>
    /\ \/ lockout # None /\ pc' = "rekey" /\ UNCHANGED <<tpm, tx>>
       \/ /\ lockout = None
          /\ ChangesAuth(None, key)
          /\ tx' = tx \cup {"lockout"}
          /\ pc' = "mark"
       \/ lockout = None /\ ChangeAuthFails(None, key)
                         /\ pc' = "restore" /\ UNCHANGED tx
       \/ pc' = "restore" /\ UNCHANGED <<tpm, tx>>

\* Mutant: a marker that cannot be written is only a warning.
MarkerOptional ==
    /\ pc = "mark"
    /\ marker' \in {TRUE, marker}
    /\ Goto("rekey")
    /\ UNCHANGED <<keyring, disk, stale, tpm, shown>>

\* The ownership marker comes after the bind.
WriteMarker ==
    /\ pc = "mark"
    /\ UNCHANGED <<keyring, disk, stale, tpm, shown>>
    /\ \/ marker' = TRUE /\ Goto("rekey")
       \/ marker' \in {marker, marker \/ SyncFails} /\ Goto("restore")

\* Step 5, the destructive one: rekey old -> K.
RekeyToKey ==
    /\ pc = "rekey"
    /\ UNCHANGED <<files, tpm, shown, key, report>>
    /\ \/ Rekeys(Password, key) /\ tx' = tx \cup {"rekeyed"} /\ pc' = "verify"
       \/ RekeyFails(Password, key) /\ UNCHANGED tx /\ pc' = "restore"

\* Step 6.
VerifyKey ==
    /\ pc = "verify"
    /\ UNCHANGED <<files, tpm, shown>>
    /\ \/ Unlocks(key) /\ Goto("show")
       \/ UnlockFails(key) /\ Goto("restore")

\* The caller prints the recovery secret, once, after enroll returned Ok.
ShowSecret ==
    /\ pc = "show"
    /\ shown' = shown \cup {key}
    /\ Ends("enrolled")
    /\ UNCHANGED <<keyring, files, tpm>>

-----------------------------------------------------------------------------
(***************************************************************************)
(* Tx::rollback.                                                           *)
(***************************************************************************)

\* Mutant: a keyring that cannot be put back does not stop the cleanup.
RestoreBestEffort ==
    /\ pc = "restore"
    /\ Goto("unbind")
    /\ UNCHANGED <<files, tpm, shown>>
    /\ \/ UNCHANGED keyring
       \/ "rekeyed" \in tx /\ Rekeys(key, Password)

\* Mutant: the recovery secret is not printed when the rollback fails.
RestoreSilently ==
    /\ pc = "restore"
    /\ UNCHANGED <<files, tpm, shown>>
    /\ \/ "rekeyed" \notin tx /\ Goto("unbind") /\ UNCHANGED keyring
       \/ "rekeyed" \in tx /\ Rekeys(key, Password) /\ Goto("unbind")
       \/ "rekeyed" \in tx /\ RekeyFails(key, Password) /\ Ends("restore_failed")

\* The keyring first.  If it cannot be put back everything is kept and the
\* recovery secret is printed.
RestoreKeyring ==
    /\ pc = "restore"
    /\ UNCHANGED <<files, tpm>>
    /\ \/ "rekeyed" \notin tx /\ Goto("unbind") /\ UNCHANGED <<keyring, shown>>
       \/ /\ "rekeyed" \in tx
          /\ Rekeys(key, Password)
          /\ Goto("unbind")
          /\ UNCHANGED shown
       \/ /\ "rekeyed" \in tx
          /\ RekeyFails(key, Password)
          /\ shown' = shown \cup {key}
          /\ Ends("restore_failed")

\* Empty the lockout authValue if this enrollment set it; failing that, warn.
UnbindLockout ==
    /\ pc = "unbind"
    /\ UNCHANGED <<keyring, files, shown, key>>
    /\ tx' = tx \cap Blob
    /\ report' = "restored"
    /\ \/ "lockout" \notin tx /\ pc' = "cleanup" /\ UNCHANGED tpm
       \/ "lockout" \in tx /\ ChangesAuth(key, None) /\ pc' = "unmark"
       \/ "lockout" \in tx /\ ChangeAuthFails(key, None) /\ pc' = "cleanup"

RemoveMarker ==
    /\ pc = "unmark"
    /\ marker' \in {FALSE, marker}
    /\ Goto("cleanup")
    /\ UNCHANGED <<keyring, disk, stale, tpm, shown>>

RollbackRank == [template |-> 1, face_key |-> 2, metadata_face |-> 3,
                 metadata |-> 4, recovery |-> 5]

\* Mutant: a file that cannot be removed is not reported.
CleanupUnreported ==
    /\ pc = "cleanup"
    /\ \E f \in tx :
          /\ \A g \in tx : RollbackRank[f] <= RollbackRank[g]
          /\ tx' = tx \ {f}
          /\ Removes(f) \/ UNCHANGED <<disk, stale>>
    /\ UNCHANGED <<keyring, marker, tpm, shown, pc, key, report>>

\* Remove the files this enrollment recorded, last one first; a failure is
\* noted and does not stop the rest.
CleanupFile ==
    /\ pc = "cleanup"
    /\ \E f \in tx :
          /\ \A g \in tx : RollbackRank[f] <= RollbackRank[g]
          /\ tx' = tx \ {f}
          /\ \/ Removes(f) /\ UNCHANGED report
             \/ UNCHANGED <<disk, stale>> /\ report' = "cleanup_failed"
    /\ UNCHANGED <<keyring, marker, tpm, shown, pc, key>>

CleanupDone ==
    /\ pc = "cleanup"
    /\ tx = {}
    /\ Ends(report)
    /\ UNCHANGED <<keyring, files, tpm, shown>>

EnrollStep ==
    \/ BackupRecovery \/ SealMetadata \/ SealFace \/ StoreFaceKey
    \/ StoreTemplate \/ BindLockout \/ WriteMarker \/ RekeyToKey \/ VerifyKey
    \/ ShowSecret \/ RestoreKeyring \/ UnbindLockout \/ RemoveMarker
    \/ CleanupFile \/ CleanupDone
=============================================================================

------------------------------ MODULE TessProofs ------------------------------
(***************************************************************************)
(* The safety of the transaction of tess, for any set of keys and any of   *)
(* the modelled faults except a lost reply of the rekey to the new key.    *)
(***************************************************************************)
EXTENDS Tess, TLAPS

\* The inductive invariant holds on a machine tess was never run on.
LEMMA InitIndInv == Init => IndInv
<1> SUFFICES ASSUME Init PROVE IndInv
    OBVIOUS
<1> USE VaultAssumption DEF Init
<1>1. TypeOK
    BY DEF TypeOK, KeyringTypeOK, FilesTypeOK, TpmTypeOK, CommandTypeOK, Blob,
       SealedFile, Report
<1>2. BlobsKept /\ OwnedAuthMarked /\ FaceBelongs
    BY DEF BlobsKept, OwnedAuthMarked, FaceBelongs
<1>3. CredFollowsPC /\ BlobsFollowPC /\ LockoutFollowsPC /\ ReinstatePossible
    BY DEF CredFollowsPC, BlobsFollowPC, LockoutFollowsPC, ReinstatePossible,
           EnrollPC, UnenrollPC, OnPassword, OnKey, BeforeRekey
<1> QED BY <1>1, <1>2, <1>3 DEF IndInv

-----------------------------------------------------------------------------
(***************************************************************************)
(* Types.  Each part of the state keeps its type in every step; the        *)
(* lemmas first say so of the outcomes the actions are built from.         *)
(***************************************************************************)

\* A part of the state that stays keeps its type.
LEMMA StayTypes ==
    /\ KeyringTypeOK /\ UNCHANGED keyring => KeyringTypeOK'
    /\ FilesTypeOK /\ UNCHANGED files => FilesTypeOK'
    /\ TpmTypeOK /\ UNCHANGED tpm => TpmTypeOK'
    /\ CommandTypeOK /\ UNCHANGED command => CommandTypeOK'
BY DEF KeyringTypeOK, FilesTypeOK, TpmTypeOK, CommandTypeOK,
       keyring, files, tpm, command

\* unlock, whatever it returns.
LEMMA UnlockTypes ==
    ASSUME KeyringTypeOK, NEW s, Unlocks(s) \/ UnlockFails(s)
    PROVE  KeyringTypeOK'
BY DEF KeyringTypeOK, Unlocks, UnlockFails, keyring

\* rekey, whatever it returns, from one master password to another.
LEMMA RekeyTypes ==
    ASSUME KeyringTypeOK, NEW old, NEW new \in Key \cup {Password},
           Rekeys(old, new) \/ RekeyFails(old, new)
    PROVE  KeyringTypeOK'
BY DEF KeyringTypeOK, Rekeys, RekeyFails, keyring

\* A save or a removal, whatever it returns.
LEMMA SaveTypes ==
    ASSUME FilesTypeOK, NEW f \in Blob, NEW k \in Key \cup {None},
           \/ Saves(f, k)
           \/ SaveFails(f, k)
           \/ UNCHANGED <<disk, stale>>,
           UNCHANGED marker
    PROVE  FilesTypeOK'
<1>1. disk' \in [Blob -> Key \cup {None}]
    BY DEF FilesTypeOK, Saves, SaveFails
<1>2. stale' \subseteq SealedFile
    BY DEF FilesTypeOK, Saves, SaveFails
<1> QED
    BY <1>1, <1>2 DEF FilesTypeOK

\* set_lockout_auth, whatever it returns.
LEMMA ChangeAuthTypes ==
    ASSUME TpmTypeOK, NEW old, NEW new \in Key \cup {None},
           ChangesAuth(old, new) \/ ChangeAuthFails(old, new)
    PROVE  TpmTypeOK'
BY DEF TpmTypeOK, ChangesAuth, ChangeAuthFails, tpm

\* A command that goes on to its next step.
LEMMA GotoTypes ==
    ASSUME CommandTypeOK, NEW l \in EnrollPC \cup UnenrollPC \cup RecoverPC,
           Goto(l)
    PROVE  CommandTypeOK'
BY DEF CommandTypeOK, Goto

\* A command that returns.
LEMMA EndsTypes ==
    ASSUME NEW r \in Report, Ends(r)
    PROVE  CommandTypeOK'
BY DEF CommandTypeOK, Ends

\* That the key of a running enroll or unenroll is one of Key is what its saves
\* and rekeys need.
LEMMA RunningKey ==
    ASSUME CredFollowsPC, pc \in EnrollPC \cup UnenrollPC
    PROVE  key \in Key
BY DEF CredFollowsPC

\* The credential and the lock of the keyring.
LEMMA KeyringStep == ASSUME TypeOK, CredFollowsPC, Next PROVE KeyringTypeOK'
<1>0. KeyringTypeOK /\ (UNCHANGED keyring => KeyringTypeOK')
    BY StayTypes DEF TypeOK
<1>1. CASE EnrollBegin
    BY <1>0, <1>1, UnlockTypes DEF EnrollBegin
<1>2. CASE EnrollStep
  <2>1. CASE RekeyToKey
    <3>1. key \in Key
        BY <2>1, RunningKey DEF RekeyToKey, EnrollPC
    <3> QED
        BY <1>0, <2>1, <3>1, RekeyTypes DEF RekeyToKey
  <2>2. CASE VerifyKey
      BY <1>0, <2>2, UnlockTypes DEF VerifyKey
  <2>3. CASE RestoreKeyring
      BY <1>0, <2>3, RekeyTypes DEF RestoreKeyring
  <2> QED
      BY <1>0, <1>2, <2>1, <2>2, <2>3 DEF EnrollStep, BackupRecovery, SealMetadata,
         SealFace, StoreFaceKey, StoreTemplate, Persist, BindLockout,
         WriteMarker, ShowSecret, UnbindLockout, RemoveMarker, CleanupFile,
         CleanupDone
<1>3. CASE LifecycleBegin
    BY <1>0, <1>3, UnlockTypes DEF LifecycleBegin, Unlock, UnlockWithFace,
       UnlockWith, RecoverBegin, UnenrollBegin
<1>4. CASE LifecycleStep
  <2>1. CASE Recover \/ ProveKey \/ CheckPassword
      BY <1>0, <2>1, UnlockTypes DEF Recover, ProveKey, CheckPassword
  <2>2. CASE RekeyToPassword
      BY <1>0, <2>2, RekeyTypes DEF RekeyToPassword
  <2>3. CASE ReinstateKey
    <3>1. key \in Key
        BY <2>3, RunningKey DEF ReinstateKey, UnenrollPC
    <3> QED
        BY <1>0, <2>3, <3>1, RekeyTypes DEF ReinstateKey
  <2> QED
      BY <1>0, <1>4, <2>1, <2>2, <2>3 DEF LifecycleStep, Reseal, ReleaseLockout,
         ReleaseMarker, SweepFile, SweepDone
<1>5. CASE Crash
    BY <1>0, <1>5 DEF Crash
<1>6. CASE Environment
    BY <1>0, <1>6 DEF Environment, LockKeyring, LockoutTimers, TpmClear,
       RemoveStaleBlobs, KeyringTypeOK
<1> QED
    BY <1>1, <1>2, <1>3, <1>4, <1>5, <1>6 DEF Next, Step

\* The files of an enrollment and the ownership marker.
LEMMA FilesStep == ASSUME TypeOK, CredFollowsPC, Next PROVE FilesTypeOK'
<1>0. FilesTypeOK /\ (UNCHANGED files => FilesTypeOK')
    BY StayTypes DEF TypeOK
<1>1. CASE EnrollBegin
    BY <1>0, <1>1 DEF EnrollBegin
<1>2. CASE EnrollStep
  <2>1. ASSUME NEW at \in EnrollPC, NEW f \in Blob, NEW next, Persist(at, f, next)
        PROVE  FilesTypeOK'
    <3>1. key \in Key
        BY <2>1, RunningKey DEF Persist
    <3> QED
        BY <1>0, <2>1, <3>1, SaveTypes DEF Persist
  <2>2. CASE BackupRecovery \/ StoreFaceKey \/ StoreTemplate
      BY <2>1, <2>2 DEF BackupRecovery, StoreFaceKey, StoreTemplate, EnrollPC,
         Blob, SealedFile
  <2>3. CASE SealMetadata \/ SealFace
      BY <1>0, <2>1, <2>3 DEF SealMetadata, SealFace, EnrollPC, Blob, SealedFile
  <2>4. CASE WriteMarker \/ RemoveMarker
      BY <1>0, <2>4 DEF WriteMarker, RemoveMarker, FilesTypeOK,
         VaultAssumption
  <2>5. CASE CleanupFile
    <3>1. PICK f \in tx : Removes(f) \/ UNCHANGED <<disk, stale>>
        BY <2>5 DEF CleanupFile
    <3>2. pc = "cleanup" /\ tx \subseteq Blob \cup {"lockout", "rekeyed"}
        BY <2>5 DEF CleanupFile, TypeOK, CommandTypeOK
    <3>3. UNCHANGED marker
        BY <2>5 DEF CleanupFile
    <3>4. stale' \subseteq SealedFile
        BY <1>0, <3>1 DEF FilesTypeOK, Removes, Saves
    <3>5. disk' \in [Blob -> Key \cup {None}]
        BY <1>0, <3>1 DEF FilesTypeOK, Removes, Saves
    <3> QED
        BY <1>0, <3>3, <3>4, <3>5 DEF FilesTypeOK
  <2> QED
      BY <1>0, <1>2, <2>2, <2>3, <2>4, <2>5 DEF EnrollStep, BindLockout,
         RekeyToKey, VerifyKey, ShowSecret, RestoreKeyring, UnbindLockout,
         CleanupDone
<1>3. CASE LifecycleBegin
    BY <1>0, <1>3 DEF LifecycleBegin, Unlock, UnlockWithFace, UnlockWith,
       RecoverBegin, UnenrollBegin
<1>4. CASE LifecycleStep
  <2>1. CASE Reseal
    <3>1. disk["recovery"] = key => key \in Key \cup {None}
        BY <1>0 DEF FilesTypeOK, Blob
    <3> QED
        BY <1>0, <2>1, <3>1, SaveTypes DEF Reseal, Blob, SealedFile
  <2>2. CASE ReleaseMarker
      BY <1>0, <2>2 DEF ReleaseMarker, FilesTypeOK
  <2>3. CASE SweepFile
    <3>1. PICK f \in tx : Removes(f) \/ UNCHANGED <<disk, stale>>
        BY <2>3 DEF SweepFile
    <3>2. UNCHANGED marker
        BY <2>3 DEF SweepFile
    <3>3. stale' \subseteq SealedFile
        BY <1>0, <3>1 DEF FilesTypeOK, Removes, Saves
    <3>4. disk' \in [Blob -> Key \cup {None}]
        BY <1>0, <3>1 DEF FilesTypeOK, Removes, Saves
    <3> QED
        BY <1>0, <3>2, <3>3, <3>4 DEF FilesTypeOK
  <2> QED
      BY <1>0, <1>4, <2>1, <2>2, <2>3 DEF LifecycleStep, Recover, ProveKey,
         RekeyToPassword, CheckPassword, ReinstateKey, ReleaseLockout, SweepDone
<1>5. CASE Crash
    BY <1>0, <1>5 DEF Crash
<1>6. CASE Environment
  <2>1. CASE TpmClear
      BY <1>0, <2>1 DEF TpmClear, FilesTypeOK
  <2>2. CASE RemoveStaleBlobs
      BY <1>0, <2>2 DEF RemoveStaleBlobs, FilesTypeOK
  <2> QED
      BY <1>0, <1>6, <2>1, <2>2 DEF Environment, LockKeyring, LockoutTimers
<1> QED
    BY <1>1, <1>2, <1>3, <1>4, <1>5, <1>6 DEF Next, Step

\* The lockout hierarchy and the dictionary-attack lockout.
LEMMA TpmStep == ASSUME TypeOK, CredFollowsPC, Next PROVE TpmTypeOK'
<1>0. TpmTypeOK /\ (UNCHANGED tpm => TpmTypeOK')
    BY StayTypes DEF TypeOK
<1>1. CASE EnrollBegin
    BY <1>0, <1>1 DEF EnrollBegin
<1>2. CASE EnrollStep
  <2>1. CASE BindLockout
    <3>1. key \in Key
        BY <2>1, RunningKey DEF BindLockout, EnrollPC
    <3> QED
        BY <1>0, <2>1, <3>1, ChangeAuthTypes DEF BindLockout
  <2>2. CASE UnbindLockout
      BY <1>0, <2>2, ChangeAuthTypes DEF UnbindLockout
  <2> QED
      BY <1>0, <1>2, <2>1, <2>2 DEF EnrollStep, BackupRecovery, SealMetadata,
         SealFace, StoreFaceKey, StoreTemplate, Persist, WriteMarker,
         RekeyToKey, VerifyKey, ShowSecret, RestoreKeyring, RemoveMarker,
         CleanupFile, CleanupDone
<1>3. CASE LifecycleBegin
  <2>1. CASE RecoverBegin
    <3>1. \/ UNCHANGED tpm
          \/ \E r \in shown \cup {Typo} : ResetHardLockout(r)
        BY <2>1 DEF RecoverBegin
    <3> QED
        BY <1>0, <3>1 DEF ResetHardLockout, TpmTypeOK
  <2> QED
      BY <1>0, <1>3, <2>1 DEF LifecycleBegin, Unlock, UnlockWithFace,
         UnlockWith, UnenrollBegin
<1>4. CASE LifecycleStep
  <2>1. CASE ReleaseLockout
      BY <1>0, <2>1, ChangeAuthTypes DEF ReleaseLockout
  <2> QED
      BY <1>0, <1>4, <2>1 DEF LifecycleStep, Recover, Reseal, ProveKey,
         RekeyToPassword, CheckPassword, ReinstateKey, ReleaseMarker,
         SweepFile, SweepDone
<1>5. CASE Crash
    BY <1>0, <1>5 DEF Crash
<1>6. CASE Environment
    BY <1>0, <1>6 DEF Environment, LockKeyring, LockoutTimers, TpmClear,
       RemoveStaleBlobs, TpmTypeOK
<1> QED
    BY <1>1, <1>2, <1>3, <1>4, <1>5, <1>6 DEF Next, Step

\* The position, the key and the progress of the running command, and its report.
LEMMA CommandStep == ASSUME TypeOK, CredFollowsPC, Next PROVE CommandTypeOK'
<1>0. CommandTypeOK /\ (UNCHANGED command => CommandTypeOK')
    BY StayTypes DEF TypeOK
<1>1. CASE EnrollBegin
  <2>1. CASE pc' = "backup"
      BY <1>0, <1>1, <2>1 DEF EnrollBegin, Ends, CommandTypeOK, EnrollPC, Report
  <2>2. CASE pc' # "backup"
      BY <1>1, <2>2, EndsTypes DEF EnrollBegin, Report
  <2> QED
      BY <2>1, <2>2
<1>2. CASE EnrollStep
  <2>1. ASSUME NEW at, NEW f \in Blob, NEW next \in SUBSET EnrollPC,
               Persist(at, f, next)
        PROVE  CommandTypeOK'
    <3>1. pc' \in EnrollPC
        BY <2>1 DEF Persist, EnrollPC
    <3>2. tx' \subseteq Blob \cup {"lockout", "rekeyed"}
        BY <1>0, <2>1 DEF Persist, CommandTypeOK
    <3> QED
        BY <1>0, <2>1, <3>1, <3>2 DEF Persist, CommandTypeOK
  <2>2. CASE BackupRecovery \/ StoreFaceKey \/ StoreTemplate
      BY <2>1, <2>2 DEF BackupRecovery, StoreFaceKey, StoreTemplate, EnrollPC,
         Blob, SealedFile
  <2>3. CASE SealMetadata \/ SealFace
      BY <1>0, <2>1, <2>3, GotoTypes DEF SealMetadata, SealFace, EnrollPC,
         Blob, SealedFile
  <2>4. CASE BindLockout \/ RekeyToKey
    <3>1. tx' \subseteq Blob \cup {"lockout", "rekeyed"}
        BY <1>0, <2>4 DEF BindLockout, RekeyToKey, CommandTypeOK
    <3>2. pc' \in EnrollPC /\ UNCHANGED <<key, report>>
        BY <2>4 DEF BindLockout, RekeyToKey, EnrollPC
    <3> QED
        BY <1>0, <3>1, <3>2 DEF CommandTypeOK
  <2>5. CASE WriteMarker \/ VerifyKey \/ RemoveMarker
      BY <1>0, <2>5, GotoTypes DEF WriteMarker, VerifyKey, RemoveMarker, EnrollPC
  <2>6. CASE ShowSecret
      BY <2>6, EndsTypes DEF ShowSecret, Report
  <2>7. CASE RestoreKeyring
      BY <1>0, <2>7, GotoTypes, EndsTypes DEF RestoreKeyring, EnrollPC, Report
  <2>8. CASE UnbindLockout
    <3>1. tx' \subseteq Blob
        BY <2>8 DEF UnbindLockout
    <3>2. pc' \in EnrollPC /\ UNCHANGED key /\ report' \in Report
        BY <2>8 DEF UnbindLockout, EnrollPC, Report
    <3> QED
        BY <1>0, <3>1, <3>2 DEF CommandTypeOK
  <2>9. CASE CleanupFile
      BY <1>0, <2>9 DEF CleanupFile, CommandTypeOK, Report
  <2>10. CASE CleanupDone
      BY <1>0, <2>10, EndsTypes DEF CleanupDone, CommandTypeOK
  <2> QED
      BY <1>2, <2>2, <2>3, <2>4, <2>5, <2>6, <2>7, <2>8, <2>9, <2>10
         DEF EnrollStep
<1>3. CASE LifecycleBegin
  <2>1. CASE RecoverBegin /\ pc' = "recover"
    <3>1. key' \in Key \cup {Typo}
        BY <2>1 DEF RecoverBegin, Ends, TypeOK
    <3>2. tx' = {} /\ report' = "none"
        BY <2>1 DEF RecoverBegin, Ends
    <3> QED
        BY <2>1, <3>1, <3>2 DEF CommandTypeOK, RecoverPC, Report
  <2>2. CASE UnenrollBegin /\ pc' = "prove"
    <3>1. key' \in Key
        BY <2>2 DEF UnenrollBegin, Ends, Unsealable, Present, TypeOK,
           FilesTypeOK, Blob, SealedFile
    <3>2. tx' = {} /\ report' = "none"
        BY <2>2 DEF UnenrollBegin, Ends
    <3> QED
        BY <2>2, <3>1, <3>2 DEF CommandTypeOK, UnenrollPC, Report
  <2>3. CASE \E r \in Report : Ends(r)
      BY <2>3, EndsTypes
  <2> QED
      BY <1>3, <2>1, <2>2, <2>3 DEF LifecycleBegin, Unlock, UnlockWithFace,
         UnlockWith, RecoverBegin, UnenrollBegin, Report
<1>4. CASE LifecycleStep
  <2>1. CASE Recover \/ Reseal
      BY <1>0, <2>1, GotoTypes, EndsTypes DEF Recover, Reseal, RecoverPC, Report
  <2>2. CASE ProveKey \/ RekeyToPassword \/ CheckPassword \/ ReinstateKey
      BY <1>0, <2>2, GotoTypes, EndsTypes DEF ProveKey, RekeyToPassword,
         CheckPassword, ReinstateKey, UnenrollPC, Report
  <2>3. CASE ReleaseLockout
    <3>1. tx' \subseteq Blob
        BY <2>3 DEF ReleaseLockout
    <3>2. pc' \in UnenrollPC /\ UNCHANGED <<key, report>>
        BY <2>3 DEF ReleaseLockout, UnenrollPC
    <3> QED
        BY <1>0, <3>1, <3>2 DEF CommandTypeOK
  <2>4. CASE ReleaseMarker \/ SweepDone
      BY <1>0, <2>4, GotoTypes, EndsTypes DEF ReleaseMarker, SweepDone,
         UnenrollPC, Report
  <2>5. CASE SweepFile
      BY <1>0, <2>5, EndsTypes DEF SweepFile, CommandTypeOK, Report
  <2> QED
      BY <1>4, <2>1, <2>2, <2>3, <2>4, <2>5 DEF LifecycleStep
<1>5. CASE Crash
    BY <1>5, EndsTypes DEF Crash, Report
<1>6. CASE Environment
    BY <1>0, <1>6 DEF Environment, LockKeyring, LockoutTimers, TpmClear,
       RemoveStaleBlobs
<1> QED
    BY <1>1, <1>2, <1>3, <1>4, <1>5, <1>6 DEF Next, Step

\* Only the keys of an enrollment are ever shown.
LEMMA ShownStep == ASSUME TypeOK, CredFollowsPC, Next PROVE shown' \subseteq Key
<1>1. \/ UNCHANGED shown
      \/ (ShowSecret \/ RestoreKeyring) /\ shown' = shown \cup {key}
    BY DEF Next, Step, EnrollBegin, EnrollStep, BackupRecovery, SealMetadata,
       SealFace, StoreFaceKey, StoreTemplate, Persist, BindLockout,
       WriteMarker, RekeyToKey, VerifyKey, ShowSecret, RestoreKeyring,
       UnbindLockout, RemoveMarker, CleanupFile, CleanupDone, LifecycleBegin,
       Unlock, UnlockWithFace, UnlockWith, RecoverBegin, UnenrollBegin,
       LifecycleStep, Recover, Reseal, ProveKey, RekeyToPassword,
       CheckPassword, ReinstateKey, ReleaseLockout, ReleaseMarker, SweepFile,
       SweepDone, Crash, Environment, LockKeyring, LockoutTimers, TpmClear,
       RemoveStaleBlobs
<1>2. ShowSecret \/ RestoreKeyring => key \in Key
    BY RunningKey DEF ShowSecret, RestoreKeyring, EnrollPC
<1> QED
    BY <1>1, <1>2 DEF TypeOK

\* Every step of a command or of its environment keeps the types.
LEMMA StepTypeOK == ASSUME TypeOK, CredFollowsPC, Next PROVE TypeOK'
BY KeyringStep, FilesStep, TpmStep, CommandStep, ShownStep DEF TypeOK

-----------------------------------------------------------------------------
(***************************************************************************)
(* The safety of the transaction.                                          *)
(***************************************************************************)

\* Every step preserves the safety properties and the facts about the running
\* command they rest on, unless the reply of the rekey to the new key is lost.
LEMMA StepSafe ==
    ASSUME "rekey" \notin LostReplies, IndInv, Next
    PROVE  /\ (BlobsKept /\ OwnedAuthMarked /\ FaceBelongs)'
           /\ CredFollowsPC'
           /\ (BlobsFollowPC /\ LockoutFollowsPC /\ ReinstatePossible)'
<1> USE VaultAssumption
    DEF IndInv, TypeOK, KeyringTypeOK, FilesTypeOK, TpmTypeOK, CommandTypeOK,
        BlobsKept, OwnedAuthMarked, FaceBelongs, CredFollowsPC, BlobsFollowPC,
        LockoutFollowsPC, ReinstatePossible, EnrollPC,
        UnenrollPC, RecoverPC, OnPassword, OnKey, BeforeRekey, Blob,
        SealedFile, keyring, files, tpm, command
<1>1. CASE EnrollBegin
    BY <1>1 DEF EnrollBegin, AlreadyEnrolled, Present, Fresh, Unlocks,
       UnlockFails, Ends
<1>2. CASE BackupRecovery
    BY <1>2 DEF BackupRecovery, Persist, Saves, SaveFails
<1>3. CASE SealMetadata
    BY <1>3 DEF SealMetadata, Persist, Saves, SaveFails, Goto
<1>4. CASE SealFace
    BY <1>4 DEF SealFace, Persist, Saves, SaveFails, Goto
<1>5. CASE StoreFaceKey
    BY <1>5 DEF StoreFaceKey, Persist, Saves, SaveFails
<1>6. CASE StoreTemplate
    BY <1>6 DEF StoreTemplate, Persist, Saves, SaveFails
<1>7. CASE BindLockout
    BY <1>7 DEF BindLockout, ChangesAuth, ChangeAuthFails
<1>8. CASE WriteMarker
  <2>1. (BlobsKept /\ OwnedAuthMarked /\ FaceBelongs)'
      BY <1>8 DEF WriteMarker, Goto
  <2>2. CredFollowsPC'
      BY <1>8 DEF WriteMarker, Goto
  <2>3. (BlobsFollowPC /\ LockoutFollowsPC /\ ReinstatePossible)'
      BY <1>8 DEF WriteMarker, Goto
  <2> QED BY <2>1, <2>2, <2>3
<1>9. CASE RekeyToKey
  <2>1. (BlobsKept /\ OwnedAuthMarked /\ FaceBelongs)'
      BY <1>9 DEF RekeyToKey, Rekeys, RekeyFails
  <2>2. CredFollowsPC'
      BY <1>9 DEF RekeyToKey, Rekeys, RekeyFails
  <2>3. (BlobsFollowPC /\ LockoutFollowsPC /\ ReinstatePossible)'
      BY <1>9 DEF RekeyToKey, Rekeys, RekeyFails
  <2> QED BY <2>1, <2>2, <2>3
<1>10. CASE VerifyKey
  <2>1. UNCHANGED <<cred, disk, marker, lockout, key, tx>>
      BY <1>10 DEF VerifyKey, Unlocks, UnlockFails, Goto
  <2> QED
      BY <1>10, <2>1 DEF VerifyKey, Goto
<1>11. CASE ShowSecret
    BY <1>11 DEF ShowSecret, Ends
<1>12. CASE RestoreKeyring
    BY <1>12 DEF RestoreKeyring, Rekeys, RekeyFails, Goto, Ends
<1>13. CASE UnbindLockout
    BY <1>13 DEF UnbindLockout, ChangesAuth, ChangeAuthFails
<1>14. CASE RemoveMarker
    BY <1>14 DEF RemoveMarker, Goto
<1>15. CASE CleanupFile
    BY <1>15 DEF CleanupFile, Removes, Saves
<1>16. CASE CleanupDone
    BY <1>16 DEF CleanupDone, Ends
<1>17. CASE Unlock
    BY <1>17 DEF Unlock, UnlockWith, Unlocks, UnlockFails, Ends
<1>18. CASE UnlockWithFace
    BY <1>18 DEF UnlockWithFace, UnlockWith, Unlocks, UnlockFails, Ends
<1>19. CASE RecoverBegin
    BY <1>19 DEF RecoverBegin, ResetHardLockout, Ends
<1>20. CASE Recover
    BY <1>20 DEF Recover, Unlocks, UnlockFails, Goto, Ends
<1>21. CASE Reseal
    BY <1>21 DEF Reseal, Saves, SaveFails, Ends
<1>22. CASE UnenrollBegin
    BY <1>22 DEF UnenrollBegin, Unsealable, Present, Ends
<1>23. CASE ProveKey
    BY <1>23 DEF ProveKey, Unlocks, UnlockFails, Goto, Ends
<1>24. CASE RekeyToPassword
    BY <1>24 DEF RekeyToPassword, Rekeys, RekeyFails, Goto, Ends
<1>25. CASE CheckPassword
    BY <1>25 DEF CheckPassword, Unlocks, UnlockFails, Goto
<1>26. CASE ReinstateKey
    BY <1>26 DEF ReinstateKey, Rekeys, RekeyFails, Ends
<1>27. CASE ReleaseLockout
    BY <1>27 DEF ReleaseLockout, ChangesAuth, ChangeAuthFails
<1>28. CASE ReleaseMarker
    BY <1>28 DEF ReleaseMarker, Goto
<1>29. CASE SweepFile
    BY <1>29 DEF SweepFile, Removes, Saves, Ends
<1>30. CASE SweepDone
    BY <1>30 DEF SweepDone, Ends
<1>31. CASE Crash
    BY <1>31 DEF Crash, Ends
<1>32. CASE LockKeyring
    BY <1>32 DEF LockKeyring
<1>33. CASE LockoutTimers
    BY <1>33 DEF LockoutTimers
<1>34. CASE TpmClear
    BY <1>34 DEF TpmClear, Present
<1>35. CASE RemoveStaleBlobs
    BY <1>35 DEF RemoveStaleBlobs
<1> QED
    BY <1>1, <1>2, <1>3, <1>4, <1>5, <1>6, <1>7, <1>8, <1>9, <1>10, <1>11,
       <1>12, <1>13, <1>14, <1>15, <1>16, <1>17, <1>18, <1>19, <1>20, <1>21,
       <1>22, <1>23, <1>24, <1>25, <1>26, <1>27, <1>28, <1>29, <1>30, <1>31,
       <1>32, <1>33, <1>34, <1>35
       DEF Next, Step, EnrollStep, LifecycleBegin, LifecycleStep, Environment

\* The invariant is inductive.
LEMMA StepIndInv == ASSUME "rekey" \notin LostReplies, IndInv, Next PROVE IndInv'
BY StepTypeOK, StepSafe DEF IndInv

\* A step that changes nothing preserves the invariant.
LEMMA StutterIndInv == ASSUME IndInv, UNCHANGED vars PROVE IndInv'
BY DEF vars, IndInv, TypeOK, KeyringTypeOK, FilesTypeOK, TpmTypeOK,
       CommandTypeOK, BlobsKept, OwnedAuthMarked, FaceBelongs,
       CredFollowsPC, BlobsFollowPC, LockoutFollowsPC, ReinstatePossible

\* The inductive invariant holds in every reachable state.
THEOREM Inductive == ASSUME "rekey" \notin LostReplies PROVE Spec => []IndInv
<1>1. Init => IndInv
    BY InitIndInv
<1>2. IndInv /\ [Next]_vars => IndInv'
    BY StepIndInv, StutterIndInv
<1> QED
    BY <1>1, <1>2, PTL DEF Spec

\* Type correctness of the transaction of tess.
THEOREM TypeCorrect == ASSUME "rekey" \notin LostReplies PROVE Spec => []TypeOK
<1>1. IndInv => TypeOK
    BY DEF IndInv
<1> QED
    BY <1>1, Inductive, PTL

\* enroll, its rollback, unenroll, recover and every crash between two of their
\* steps: a keyring on a key has both blobs of that key on disk.
THEOREM BlobsAlwaysKept == ASSUME "rekey" \notin LostReplies PROVE Spec => []BlobsKept
<1>1. IndInv => BlobsKept
    BY DEF IndInv
<1> QED
    BY <1>1, Inductive, PTL

\* While an enrollment that bound the lockout hierarchy is in force, lockout-owned
\* exists, whatever failed or died.
THEOREM OwnershipIsMarked == ASSUME "rekey" \notin LostReplies PROVE Spec => []OwnedAuthMarked
<1>1. IndInv => OwnedAuthMarked
    BY DEF IndInv
<1> QED
    BY <1>1, Inductive, PTL

\* No face credential of an earlier enrollment is left beside the current one.
THEOREM FaceIsCurrent == ASSUME "rekey" \notin LostReplies PROVE Spec => []FaceBelongs
<1>1. IndInv => FaceBelongs
    BY DEF IndInv
<1> QED
    BY <1>1, Inductive, PTL

-----------------------------------------------------------------------------

\* Only the operations that authorize the lockout hierarchy can block it.
LEMMA SetsSelfLocked ==
    ASSUME IndInv, Next, selfLocked', ~selfLocked
    PROVE  \/ BindLockout \/ UnbindLockout
           \/ RecoverBegin \/ ReleaseLockout
<1> USE DEF IndInv, TypeOK, TpmTypeOK, tpm
<1>1. CASE EnrollBegin
    BY <1>1 DEF EnrollBegin
<1>2. CASE EnrollStep
    BY <1>2 DEF EnrollStep, BackupRecovery, SealMetadata, SealFace,
       StoreFaceKey, StoreTemplate, Persist, WriteMarker, RekeyToKey,
       VerifyKey, ShowSecret, RestoreKeyring, RemoveMarker, CleanupFile,
       CleanupDone
<1>3. CASE LifecycleBegin
    BY <1>3 DEF LifecycleBegin, Unlock, UnlockWithFace, UnlockWith,
       UnenrollBegin
<1>4. CASE LifecycleStep
    BY <1>4 DEF LifecycleStep, Recover, Reseal, ProveKey, RekeyToPassword,
       CheckPassword, ReinstateKey, ReleaseMarker, SweepFile, SweepDone
<1>5. CASE Crash
    BY <1>5 DEF Crash
<1>6. CASE Environment
    BY <1>6 DEF Environment, LockKeyring, LockoutTimers, TpmClear,
       RemoveStaleBlobs
<1> QED
    BY <1>1, <1>2, <1>3, <1>4, <1>5, <1>6 DEF Next, Step

\* enroll and Tx::rollback never block the lockout hierarchy: the bind reads
\* lockout_auth_is_set first, and the rollback releases only what enroll bound.
THEOREM EnrollDoesNotBlock == ASSUME "rekey" \notin LostReplies PROVE Spec => EnrollNeverBlocks
<1>1. ASSUME IndInv, Next, selfLocked', pc \in EnrollPC PROVE selfLocked
    <2> SUFFICES ASSUME ~selfLocked PROVE FALSE
        OBVIOUS
    <2>1. \/ BindLockout \/ UnbindLockout \/ RecoverBegin \/ ReleaseLockout
        BY <1>1, SetsSelfLocked
    <2>2. CASE BindLockout
        BY <1>1, <2>2 DEF BindLockout, ChangesAuth, ChangeAuthFails, tpm
    <2>3. CASE UnbindLockout
        BY <1>1, <2>3 DEF UnbindLockout, ChangesAuth, ChangeAuthFails, tpm,
           IndInv, LockoutFollowsPC
    <2>4. CASE RecoverBegin \/ ReleaseLockout
        BY <1>1, <2>4 DEF RecoverBegin, ReleaseLockout, EnrollPC
    <2> QED
        BY <2>1, <2>2, <2>3, <2>4
<1>2. IndInv /\ [Next]_vars => [selfLocked' /\ pc \in EnrollPC => selfLocked]_vars
    BY <1>1
<1> QED
    BY <1>2, Inductive, PTL DEF Spec, EnrollNeverBlocks

-----------------------------------------------------------------------------

\* Only a rekey changes the master password: from the password to a key whose
\* blobs are both on disk, or from a key to the password.
LEMMA CredStep ==
    ASSUME "rekey" \notin LostReplies, IndInv, Next, cred' # cred
    PROVE  /\ UNCHANGED disk
           /\ \/ cred = Password /\ cred' = key /\ disk["metadata"] = key
                                 /\ disk["recovery"] = key /\ key \in Key
              \/ cred \in Key /\ cred' = Password
<1> USE DEF keyring, files
<1>1. CASE EnrollBegin
    BY <1>1 DEF EnrollBegin, Unlocks, UnlockFails
<1>2. CASE EnrollStep
    <2>1. CASE RekeyToKey
        BY <2>1 DEF RekeyToKey, Rekeys, RekeyFails, IndInv, CredFollowsPC,
           BlobsFollowPC, EnrollPC, BeforeRekey
    <2>2. CASE RestoreKeyring
        BY <2>2 DEF RestoreKeyring, Rekeys, RekeyFails, IndInv, CredFollowsPC,
           EnrollPC
    <2> QED
        BY <1>2, <2>1, <2>2 DEF EnrollStep, BackupRecovery, SealMetadata,
           SealFace, StoreFaceKey, StoreTemplate, Persist, BindLockout,
           WriteMarker, VerifyKey, Unlocks, UnlockFails, ShowSecret,
           UnbindLockout, RemoveMarker, CleanupFile, CleanupDone
<1>3. CASE LifecycleBegin
    BY <1>3 DEF LifecycleBegin, Unlock, UnlockWithFace, UnlockWith, Unlocks,
       UnlockFails, RecoverBegin, UnenrollBegin
<1>4. CASE LifecycleStep
    <2>1. CASE RekeyToPassword
        BY <2>1 DEF RekeyToPassword, Rekeys, RekeyFails, IndInv, CredFollowsPC,
           UnenrollPC
    <2>2. CASE ReinstateKey
        BY <2>2 DEF ReinstateKey, Rekeys, RekeyFails, IndInv, CredFollowsPC,
           ReinstatePossible, UnenrollPC
    <2> QED
        BY <1>4, <2>1, <2>2 DEF LifecycleStep, Recover, Reseal, ProveKey,
           Unlocks, UnlockFails, CheckPassword, ReleaseLockout, ReleaseMarker,
           SweepFile, SweepDone
<1>5. CASE Crash
    BY <1>5 DEF Crash
<1>6. CASE Environment
    BY <1>6 DEF Environment, LockKeyring, LockoutTimers, TpmClear,
       RemoveStaleBlobs
<1> QED
    BY <1>1, <1>2, <1>3, <1>4, <1>5, <1>6 DEF Next, Step

\* While the keyring is on a key no step removes or replaces one of its blobs.
LEMMA OnKeyKeepsBlobs ==
    ASSUME IndInv, Next, cred \in Key
    PROVE  disk'["metadata"] = cred /\ disk'["recovery"] = cred
<1> USE VaultAssumption DEF files
<1>0. /\ disk["metadata"] = cred /\ disk["recovery"] = cred
      /\ disk \in [Blob -> Key \cup {None}]
      /\ cred # Password
    BY VaultAssumption DEF IndInv, BlobsKept, TypeOK, FilesTypeOK
<1>1. CASE EnrollBegin
    BY <1>0, <1>1 DEF EnrollBegin
<1>2. CASE EnrollStep
    <2>1. pc \notin OnPassword
        BY <1>0 DEF IndInv, CredFollowsPC
    <2>2. ~(BackupRecovery \/ SealMetadata \/ SealFace \/ StoreFaceKey
            \/ StoreTemplate \/ CleanupFile)
        BY <2>1 DEF OnPassword, BeforeRekey, BackupRecovery, SealMetadata,
           SealFace, StoreFaceKey, StoreTemplate, Persist, CleanupFile
    <2> QED
        BY <1>0, <1>2, <2>2 DEF EnrollStep, BindLockout,
           WriteMarker, RekeyToKey, VerifyKey, ShowSecret, RestoreKeyring,
           UnbindLockout, RemoveMarker, CleanupDone
<1>3. CASE LifecycleBegin
    BY <1>0, <1>3 DEF LifecycleBegin, Unlock, UnlockWithFace, UnlockWith,
       RecoverBegin, UnenrollBegin
<1>4. CASE LifecycleStep
    <2>1. CASE SweepFile
        BY <1>0, <2>1 DEF SweepFile, IndInv, CredFollowsPC, OnPassword
    <2>2. CASE Reseal
        BY <1>0, <2>2 DEF Reseal, Saves, SaveFails, Blob, SealedFile
    <2> QED
        BY <1>0, <1>4, <2>1, <2>2 DEF LifecycleStep, Recover, ProveKey,
           RekeyToPassword, CheckPassword, ReinstateKey, ReleaseLockout,
           ReleaseMarker, SweepDone
<1>5. CASE Crash
    BY <1>0, <1>5 DEF Crash
<1>6. CASE Environment
    BY <1>0, <1>6 DEF Environment, LockKeyring, LockoutTimers, TpmClear,
       RemoveStaleBlobs
<1> QED
    BY <1>1, <1>2, <1>3, <1>4, <1>5, <1>6 DEF Next, Step

\* The commands, with any of their failures and crashes, implement
\* KeyringCustody: every step is a step of it or leaves credential and kept keys alone.
THEOREM Refinement == ASSUME "rekey" \notin LostReplies PROVE Spec => CustodySpec
<1> USE VaultAssumption
<1>1. Init => Custody!Init
    BY DEF Init, Custody!Init, Kept, Blob, SealedFile
<1>2. ASSUME IndInv, Next PROVE Custody!Next \/ UNCHANGED <<cred, Kept>>
    <2>1. CASE cred = Password /\ UNCHANGED cred
        BY <2>1 DEF Custody!Next, Custody!Rearrange, Kept
    <2>2. CASE cred # Password /\ UNCHANGED cred
        <3>1. cred \in Key
            BY <1>2, <2>2 DEF IndInv, TypeOK, KeyringTypeOK
        <3>2. disk["metadata"] = cred /\ disk["recovery"] = cred
            BY <1>2, <3>1 DEF IndInv, BlobsKept
        <3> QED
            BY <1>2, <2>2, <3>1, <3>2, OnKeyKeepsBlobs DEF Kept
    <2>3. CASE cred' # cred
        <3>1. CASE cred = Password
            BY <1>2, <2>3, <3>1, CredStep DEF Custody!Next, Custody!TakeOver, Kept
        <3>2. CASE cred \in Key
            BY <1>2, <2>3, <3>2, CredStep
               DEF Custody!Next, Custody!GiveBack, Kept, IndInv, BlobsKept
        <3> QED
            BY <1>2, <3>1, <3>2 DEF IndInv, TypeOK, KeyringTypeOK
    <2> QED
        BY <2>1, <2>2, <2>3
<1>3. UNCHANGED vars => UNCHANGED <<cred, Kept>>
    BY DEF vars, Kept
<1>4. IndInv /\ [Next]_vars => [Custody!Next]_<<cred, Kept>>
    BY <1>2, <1>3
<1> QED
    BY <1>1, <1>4, Inductive, PTL DEF Spec, CustodySpec, Custody!Spec

-----------------------------------------------------------------------------

\* Every step preserves what an unenrollment knows, lost replies included.
LEMMA StepUnenrollInv == ASSUME UnenrollInv, Next PROVE UnenrollInv'
<1> USE DEF UnenrollInv, UnenrollPC, keyring, files, command
<1>1. CASE EnrollBegin
    BY <1>1 DEF EnrollBegin, Ends
<1>2. CASE EnrollStep
    <2>1. pc \notin UnenrollPC /\ pc' \notin UnenrollPC
        BY <1>2 DEF EnrollStep, BackupRecovery, SealMetadata, SealFace,
           StoreFaceKey, StoreTemplate, Persist, BindLockout, WriteMarker,
           RekeyToKey, VerifyKey, ShowSecret, RestoreKeyring, UnbindLockout,
           RemoveMarker, CleanupFile, CleanupDone, Goto, Ends
    <2> QED
        BY <2>1
<1>3. CASE LifecycleBegin
    <2>1. pc = "idle" /\ pc' \in {"idle", "recover", "prove"}
        BY <1>3 DEF LifecycleBegin, Unlock, UnlockWithFace, UnlockWith,
           RecoverBegin, UnenrollBegin, Ends
    <2>2. CASE UnenrollBegin
        BY <2>1, <2>2 DEF UnenrollBegin, Unsealable, Ends
    <2>3. pc' = "prove" => UnenrollBegin
        BY <1>3 DEF LifecycleBegin, Unlock, UnlockWithFace, UnlockWith,
           RecoverBegin, Ends
    <2> QED
        BY <2>1, <2>2, <2>3
<1>4. CASE Recover \/ Reseal
    BY <1>4 DEF Recover, Reseal, Goto, Ends
<1>5. CASE ProveKey \/ RekeyToPassword \/ CheckPassword \/ ReinstateKey
    BY <1>5 DEF ProveKey, RekeyToPassword, CheckPassword, ReinstateKey,
       Unlocks, UnlockFails, Rekeys, RekeyFails, Goto, Ends
<1>6. CASE ReleaseLockout \/ ReleaseMarker \/ SweepFile \/ SweepDone
    <2>1. pc \in {"release", "release_mark", "sweep"} /\ UNCHANGED cred
        BY <1>6 DEF ReleaseLockout, ReleaseMarker, SweepFile, SweepDone
    <2>2. pc' \in {"release", "release_mark", "sweep", "idle"}
        BY <1>6 DEF ReleaseLockout, ReleaseMarker, SweepFile, SweepDone, Goto, Ends
    <2> QED
        BY <2>1, <2>2
<1>7. CASE Crash
    BY <1>7 DEF Crash, Ends
<1>8. CASE Environment
    BY <1>8 DEF Environment, LockKeyring, LockoutTimers, TpmClear,
       RemoveStaleBlobs
<1> QED
    BY <1>1, <1>2, <1>3, <1>4, <1>5, <1>6, <1>7, <1>8
       DEF Next, Step, LifecycleStep

\* No step that an unenrollment takes, its last one and its death included, takes
\* both ways into the keyring away.
LEMMA UnenrollStepIsSafe ==
    ASSUME UnenrollInv, Next, pc \in UnenrollPC \ {"prove"}
    PROVE  PasswordOrPinOpens'
<1> USE DEF UnenrollInv, UnenrollPC, PasswordOrPinOpens, keyring, files, command
<1>1. CASE RekeyToPassword \/ CheckPassword \/ ReinstateKey
    BY <1>1 DEF RekeyToPassword, CheckPassword, ReinstateKey, Unlocks,
       UnlockFails, Rekeys, RekeyFails
<1>2. CASE ReleaseLockout \/ ReleaseMarker \/ SweepFile \/ SweepDone
    BY <1>2 DEF ReleaseLockout, ReleaseMarker, SweepFile, SweepDone
<1>3. CASE Crash
    BY <1>3 DEF Crash
<1>4. CASE Environment
    BY <1>4 DEF Environment, LockKeyring, LockoutTimers, TpmClear,
       RemoveStaleBlobs
<1>5. CASE EnrollBegin \/ EnrollStep
    BY <1>5 DEF EnrollBegin, EnrollStep, BackupRecovery, SealMetadata, SealFace,
       StoreFaceKey, StoreTemplate, Persist, BindLockout, WriteMarker,
       RekeyToKey, VerifyKey, ShowSecret, RestoreKeyring, UnbindLockout,
       RemoveMarker, CleanupFile, CleanupDone
<1>6. CASE LifecycleBegin \/ Recover \/ Reseal \/ ProveKey
    BY <1>6 DEF LifecycleBegin, Unlock, UnlockWithFace, RecoverBegin,
       UnenrollBegin, Recover, Reseal, ProveKey
<1> QED
    BY <1>1, <1>2, <1>3, <1>4, <1>5, <1>6 DEF Next, Step, LifecycleStep

\* unenroll: once its key is proved, every step leaves the keyring on the password
\* or on the key its sealed metadata holds, even when the daemon loses a reply.
THEOREM UnenrollIsSafe == Spec => UnenrollNeverStrands
<1>1. Init => UnenrollInv
    BY DEF Init, UnenrollInv, UnenrollPC
<1>2. UnenrollInv /\ [Next]_vars => UnenrollInv'
    BY StepUnenrollInv DEF UnenrollInv, vars
<1>3. UnenrollInv /\ [Next]_vars
        => [PasswordOrPinOpens' \/ pc \notin UnenrollPC \ {"prove"}]_vars
    BY UnenrollStepIsSafe
<1> QED
    BY <1>1, <1>2, <1>3, PTL DEF Spec, UnenrollNeverStrands

-----------------------------------------------------------------------------
(***************************************************************************)
(* The ways out: what a command leaves behind when it returns.             *)
(***************************************************************************)

\* A key that goes onto the keyring is shown before the command is over.
LEMMA StepShownInv ==
    ASSUME "rekey" \notin LostReplies, ~Crashes, IndInv, ShownInv, Next PROVE ShownInv'
<1> USE VaultAssumption DEF IndInv, CredFollowsPC, ShownInv, OnPassword, OnKey,
        BeforeRekey, EnrollPC, UnenrollPC, keyring, files, command
<1>1. CASE EnrollBegin
    BY <1>1 DEF EnrollBegin, Unlocks, UnlockFails, Ends
<1>2. CASE BackupRecovery \/ StoreFaceKey \/ StoreTemplate \/ SealMetadata
           \/ SealFace
    BY <1>2 DEF BackupRecovery, StoreFaceKey, StoreTemplate, SealMetadata,
       SealFace, Persist, Goto
<1>3. CASE BindLockout \/ WriteMarker
    BY <1>3 DEF BindLockout, WriteMarker, Goto
<1>4. CASE RekeyToKey
    BY <1>4 DEF RekeyToKey, Rekeys, RekeyFails
<1>5. CASE VerifyKey \/ ShowSecret
    BY <1>5 DEF VerifyKey, ShowSecret, Unlocks, UnlockFails, Goto, Ends
<1>6. CASE RestoreKeyring
    BY <1>6 DEF RestoreKeyring, Rekeys, RekeyFails, Goto, Ends
<1>7. CASE UnbindLockout \/ RemoveMarker \/ CleanupFile \/ CleanupDone
    BY <1>7 DEF UnbindLockout, RemoveMarker, CleanupFile, CleanupDone, Goto, Ends
<1>8. CASE Unlock \/ UnlockWithFace
    BY <1>8 DEF Unlock, UnlockWithFace, UnlockWith, Unlocks, UnlockFails, Ends
<1>9. CASE RecoverBegin \/ Recover \/ Reseal
    BY <1>9 DEF RecoverBegin, Recover, Reseal, Unlocks, UnlockFails, Goto, Ends
<1>10. CASE UnenrollBegin \/ ProveKey
    BY <1>10 DEF UnenrollBegin, ProveKey, Unlocks, UnlockFails, Goto, Ends
<1>11. CASE RekeyToPassword
    BY <1>11 DEF RekeyToPassword, Rekeys, RekeyFails, Goto, Ends
<1>12. CASE CheckPassword
    BY <1>12 DEF CheckPassword, Unlocks, UnlockFails, Goto
<1>13. CASE ReinstateKey
    BY <1>13 DEF ReinstateKey, Rekeys, RekeyFails, Ends
<1>14. CASE ReleaseLockout \/ ReleaseMarker \/ SweepFile \/ SweepDone
    BY <1>14 DEF ReleaseLockout, ReleaseMarker, SweepFile, SweepDone, Goto, Ends
<1>15. CASE Crash
    BY <1>15 DEF Crash
<1>16. CASE Environment
    BY <1>16 DEF Environment, LockKeyring, LockoutTimers, TpmClear,
       RemoveStaleBlobs
<1> QED
    BY <1>1, <1>2, <1>3, <1>4, <1>5, <1>6, <1>7, <1>8, <1>9, <1>10, <1>11,
       <1>12, <1>13, <1>14, <1>15, <1>16
       DEF Next, Step, EnrollStep, LifecycleBegin, LifecycleStep

\* Both invariants hold in every state, when no command is killed.
LEMMA ShownAlways ==
    ASSUME "rekey" \notin LostReplies, ~Crashes PROVE Spec => [](IndInv /\ ShownInv)
<1>1. Init => IndInv /\ ShownInv
    BY InitIndInv, VaultAssumption DEF Init, ShownInv
<1>2. IndInv /\ ShownInv /\ [Next]_vars => (IndInv /\ ShownInv)'
    <2>1. UNCHANGED vars => (ShownInv => ShownInv')
        BY DEF vars, ShownInv
    <2> QED
        BY <2>1, StepIndInv, StutterIndInv, StepShownInv
<1> QED
    BY <1>1, <1>2, PTL DEF Spec

\* When a command returns and the keyring is on a key, the recovery secret of
\* that key has been printed and its recovery blob is on disk, whatever failed.
THEOREM WayBackIsLeft ==
    ASSUME "rekey" \notin LostReplies, ~Crashes PROVE Spec => []WayBackWithoutTpm
<1>1. IndInv /\ ShownInv => WayBackWithoutTpm
    BY DEF IndInv, BlobsKept, ShownInv, WayBackWithoutTpm
<1> QED
    BY <1>1, ShownAlways, PTL

\* What the run "stranded" shows, with the reply of the rekey to the new key lost,
\* cannot happen unless that reply is lost (RekeyToKey and Tx::rollback): the
\* user can open the keyring whenever no command runs.
THEOREM UserIsNotStranded ==
    ASSUME "rekey" \notin LostReplies, ~Crashes PROVE Spec => []UserCanOpen
<1>1. IndInv /\ ShownInv => UserCanOpen
    BY DEF IndInv, TypeOK, KeyringTypeOK, BlobsKept, ShownInv, UserCanOpen
<1> QED
    BY <1>1, ShownAlways, PTL

-----------------------------------------------------------------------------

\* The files that refuse an enrollment after one of the files changed.
LEMMA RefusingChanges ==
    ASSUME FilesTypeOK
    PROVE  /\ \A f, k : Saves(f, k) => Refusing' \subseteq Refusing \cup {f}
           /\ \A f : Removes(f) => Refusing' \subseteq Refusing \ {f}
           /\ UNCHANGED disk => Refusing' = Refusing
<1> USE DEF FilesTypeOK, Refusing, Present, Saves, Blob, SealedFile
<1>1. ASSUME NEW f, NEW k, Saves(f, k) PROVE Refusing' \subseteq Refusing \cup {f}
    BY <1>1
<1>2. ASSUME NEW f, Removes(f) PROVE Refusing' \subseteq Refusing \ {f}
    BY <1>2 DEF Removes
<1>3. ASSUME UNCHANGED disk PROVE Refusing' = Refusing
    BY <1>3
<1> QED
    BY <1>1, <1>2, <1>3

\* A failed enrollment forgets no file that would refuse the next one.
LEMMA StepRollbackInv ==
    ASSUME "rekey" \notin LostReplies, ~SyncFails, IndInv, RollbackInv, Next PROVE RollbackInv'
<1> USE DEF RollbackInv, BeforeRekey, keyring, files, command
<1>0. FilesTypeOK
    BY DEF IndInv, TypeOK
<1>a. AlreadyEnrolled <=> Refusing # {}
    BY DEF AlreadyEnrolled, Refusing
<1>b. (AlreadyEnrolled <=> Refusing # {})'
    BY DEF AlreadyEnrolled, Refusing
<1>c. UNCHANGED disk => Refusing' = Refusing
    BY <1>0, RefusingChanges
    \* At the end of a command whose report is another.
<1>d. ASSUME NEW r \in Report \ {"restored", "cleanup_failed"}, Ends(r)
      PROVE  RollbackInv'
    BY <1>d DEF Ends, RolledBack
    \* In a command that is no enrollment.
<1>e. ASSUME pc' \in UnenrollPC \cup RecoverPC PROVE RollbackInv'
    BY <1>e DEF UnenrollPC, RecoverPC, RolledBack
<1>1. CASE EnrollBegin
    <2>1. CASE pc' = "backup"
        BY <1>1, <1>a, <1>c, <2>1 DEF EnrollBegin, Ends, RolledBack
    <2> QED
        BY <1>1, <1>d, <2>1 DEF EnrollBegin, Report
<1>2. ASSUME NEW at \in BeforeRekey, NEW f, NEW next \in SUBSET BeforeRekey,
             Persist(at, f, next)
      PROVE  RollbackInv'
    <2>1. pc' \in BeforeRekey \cup {"restore"} /\ Refusing \subseteq tx
        BY <1>2 DEF Persist
    <2>2. Refusing' \subseteq tx'
        BY <1>0, <1>2, <2>1, RefusingChanges DEF Persist, SaveFails
    <2> QED
        BY <2>1, <2>2 DEF RolledBack
<1>3. CASE BackupRecovery \/ StoreFaceKey \/ StoreTemplate
    BY <1>2, <1>3 DEF BackupRecovery, StoreFaceKey, StoreTemplate
<1>4. CASE SealMetadata \/ SealFace
    BY <1>2, <1>4, <1>c DEF SealMetadata, SealFace, Goto, RolledBack
<1>5. CASE BindLockout \/ WriteMarker \/ RekeyToKey \/ VerifyKey
    BY <1>5, <1>c DEF BindLockout, WriteMarker, RekeyToKey, VerifyKey, Goto,
       RolledBack
<1>6. CASE ShowSecret
    BY <1>6, <1>d DEF ShowSecret, Report
<1>7. CASE RestoreKeyring
    BY <1>7, <1>c, <1>d DEF RestoreKeyring, Goto, Report, RolledBack
<1>8. CASE UnbindLockout \/ RemoveMarker
    <2>1. Refusing \subseteq Blob
        BY DEF Refusing, Blob, SealedFile
    <2> QED
        BY <1>8, <1>c, <2>1 DEF UnbindLockout, RemoveMarker, Goto, RolledBack
<1>9. CASE CleanupFile
    BY <1>0, <1>9, <1>c, RefusingChanges DEF CleanupFile, RolledBack
<1>10. CASE CleanupDone
    <2>1. cred = Password
        BY <1>10 DEF CleanupDone, IndInv, CredFollowsPC, OnPassword
    <2> QED
        BY <1>10, <1>b, <1>c, <2>1 DEF CleanupDone, Ends, RolledBack
<1>11. CASE Unlock \/ UnlockWithFace
    BY <1>11, <1>d DEF Unlock, UnlockWithFace, UnlockWith, Report
<1>12. CASE RecoverBegin \/ Recover \/ Reseal
    BY <1>12, <1>d, <1>e DEF RecoverBegin, Recover, Reseal, RecoverPC, Goto, Report
<1>13. CASE UnenrollBegin \/ ProveKey \/ RekeyToPassword \/ CheckPassword
            \/ ReinstateKey
    BY <1>13, <1>d, <1>e DEF UnenrollBegin, ProveKey, RekeyToPassword,
       CheckPassword, ReinstateKey, UnenrollPC, Goto, Report
<1>14. CASE ReleaseLockout \/ ReleaseMarker \/ SweepFile \/ SweepDone
    BY <1>14, <1>d, <1>e DEF ReleaseLockout, ReleaseMarker, SweepFile, SweepDone,
       UnenrollPC, Goto, Report
<1>15. CASE Crash
    BY <1>15, <1>d DEF Crash, Report
<1>16. CASE LockKeyring \/ LockoutTimers \/ TpmClear
    BY <1>16, <1>a, <1>b, <1>c DEF LockKeyring, LockoutTimers, TpmClear, RolledBack
<1>17. CASE RemoveStaleBlobs
    BY <1>17 DEF RemoveStaleBlobs, RolledBack
<1> QED
    BY <1>1, <1>3, <1>4, <1>5, <1>6, <1>7, <1>8, <1>9, <1>10, <1>11,
       <1>12, <1>13, <1>14, <1>15, <1>16, <1>17
       DEF Next, Step, EnrollStep, LifecycleBegin, LifecycleStep, Environment

\* Tx::rollback: an enrollment that reports "rolled back to the original keyring"
\* has put the password back, and unless it reports a failed cleanup it has
\* removed every file that would refuse the next one; crashes included.
THEOREM RollbackIsComplete ==
    ASSUME "rekey" \notin LostReplies, ~SyncFails PROVE Spec => []RolledBack
<1>1. Init => IndInv /\ RollbackInv
    BY InitIndInv DEF Init, RollbackInv, RolledBack, BeforeRekey
<1>2. IndInv /\ RollbackInv /\ [Next]_vars => (IndInv /\ RollbackInv)'
    <2>1. UNCHANGED vars => (RollbackInv => RollbackInv')
        BY DEF vars, RollbackInv, Refusing, RolledBack, AlreadyEnrolled, Present
    <2> QED
        BY <2>1, StepIndInv, StutterIndInv, StepRollbackInv
<1>3. RollbackInv => RolledBack
    BY DEF RollbackInv
<1> QED
    BY <1>1, <1>2, <1>3, PTL DEF Spec
=============================================================================

--------------------------- MODULE FaceAccountProofs ---------------------------
(***************************************************************************)
(* What the face factor promises, for every set of scenes, environments    *)
(* and configurations: the transaction stays the one of Tess, and what a   *)
(* face opens is what its enrollment sealed.                               *)
(***************************************************************************)
EXTENDS FaceAccount, TessProofs, FiniteSetTheorems

-----------------------------------------------------------------------------
(* The transaction below. *)

\* A capture that fails is a face leg that fails before it writes anything.
LEMMA FailedCapture ==
    ASSUME pc = "face_seal", Goto("restore"),
           UNCHANGED <<keyring, files, tpm, shown>>
    PROVE  SealFace
BY DEF SealFace, Persist, SaveFails, Goto, files

\* A step of the face commands is a step of Tess, or leaves its state alone.
LEMMA StepOfTess == FaceNext => [Next]_vars
<1> SUFFICES ASSUME FaceNext PROVE Next \/ UNCHANGED vars
    OBVIOUS
<1>1. CASE \E e \in Shells : FaceEnroll(e)
    BY <1>1 DEF FaceEnroll, Next
<1>2. CASE \E e \in Shells : FaceTest(e)
    BY <1>2 DEF FaceTest
<1>3. CASE \E e \in Shells \cup Helpers : GateBegin(e)
    BY <1>3 DEF GateBegin
<1>4. CASE PlainCommand
    BY <1>4 DEF PlainCommand, Next, LifecycleBegin
<1>5. CASE CaptureTemplate
    <2>1. CASE Goto("restore")
        BY <1>5, <2>1, FailedCapture DEF CaptureTemplate, Next, Step, EnrollStep
    <2>2. CASE UNCHANGED command
        BY <1>5, <2>2 DEF CaptureTemplate, vars, keyring, files, tpm, command
    <2> QED
        BY <1>5, <2>1, <2>2 DEF CaptureTemplate
<1>6. CASE TransactionStep
    BY <1>6 DEF TransactionStep, SaveTemplate, OtherStep, Next, Step, EnrollStep
<1>7. CASE Match \/ GiveUp \/ TestCapture
    BY <1>7 DEF Match, GiveUp, TestCapture
<1>8. CASE OpenByFace
    BY <1>8 DEF OpenByFace, Next, LifecycleBegin
<1>9. CASE Outside
    BY <1>9 DEF Outside, Next, Environment
<1> QED
    BY <1>1, <1>2, <1>3, <1>4, <1>5, <1>6, <1>7, <1>8, <1>9 DEF FaceNext

\* With templates, cameras and models around it, the transaction is still that of
\* Tess: what is proved of Tess holds of the face commands.
THEOREM FaceIsTess == FaceSpec => Spec
<1>1. FaceInit => Init
    BY DEF FaceInit
<1>2. [FaceNext]_allVars => [Next]_vars
    BY StepOfTess DEF allVars
<1> QED
    BY <1>1, <1>2, PTL DEF FaceSpec, Spec

\* The face leg leaves a face object beside the template of its key only.
LEMMA StepLegInv == ASSUME "rekey" \notin LostReplies, IndInv, LegInv, Next PROVE LegInv'
<1> USE VaultAssumption DEF LegInv, keyring, files, command
<1>0. /\ disk \in [Blob -> Key \cup {None}]
      /\ cred \in Key \cup {Password}
      /\ pc \in EnrollPC \cup UnenrollPC => key \in Key
      /\ pc \in OnPassword => cred = Password
      /\ pc \in OnKey => cred = key
      /\ pc = "restore" => cred = IF "rekeyed" \in tx THEN key ELSE Password
    BY DEF IndInv, TypeOK, FilesTypeOK, KeyringTypeOK, CredFollowsPC
<1> USE DEF OnPassword, OnKey, BeforeRekey, EnrollPC, UnenrollPC
<1>1. CASE EnrollBegin
    <2>1. AlreadyEnrolled \/ disk["metadata_face"] = None
        BY DEF AlreadyEnrolled, Present
    <2> QED
        BY <1>0, <1>1, <2>1 DEF EnrollBegin, Unlocks, UnlockFails, Ends
<1>2. CASE BackupRecovery \/ SealMetadata \/ StoreFaceKey
    BY <1>0, <1>2 DEF BackupRecovery, SealMetadata, StoreFaceKey, Persist, Saves,
       SaveFails, Goto, Blob, SealedFile
<1>3. CASE SealFace
    BY <1>0, <1>3 DEF SealFace, Persist, Saves, SaveFails, Goto
<1>4. CASE StoreTemplate
    BY <1>0, <1>4 DEF StoreTemplate, Persist, Saves, SaveFails, Blob, SealedFile
<1>5. CASE BindLockout \/ WriteMarker
    BY <1>0, <1>5 DEF BindLockout, WriteMarker, Goto
<1>6. CASE RekeyToKey
    BY <1>0, <1>6 DEF RekeyToKey, Rekeys, RekeyFails
<1>7. CASE VerifyKey \/ ShowSecret
    BY <1>0, <1>7 DEF VerifyKey, ShowSecret, Unlocks, UnlockFails, Goto, Ends
<1>8. CASE RestoreKeyring
    BY <1>0, <1>8 DEF RestoreKeyring, Rekeys, RekeyFails, Goto, Ends
<1>9. CASE UnbindLockout \/ RemoveMarker
    BY <1>0, <1>9 DEF UnbindLockout, RemoveMarker, Goto
<1>10. CASE CleanupFile \/ CleanupDone
    BY <1>0, <1>10 DEF CleanupFile, CleanupDone, Removes, Saves, Ends
<1>11. CASE Unlock \/ UnlockWithFace
    BY <1>0, <1>11 DEF Unlock, UnlockWithFace, UnlockWith, Unlocks, UnlockFails,
       Ends
<1>12. CASE RecoverBegin \/ Recover
    BY <1>0, <1>12 DEF RecoverBegin, Recover, Unlocks, UnlockFails, Goto, Ends
<1>13. CASE Reseal
    BY <1>0, <1>13 DEF Reseal, Saves, SaveFails, Ends, Blob, SealedFile
<1>14. CASE UnenrollBegin \/ ProveKey
    BY <1>0, <1>14 DEF UnenrollBegin, ProveKey, Unlocks, UnlockFails, Goto, Ends
<1>15. CASE RekeyToPassword \/ CheckPassword
    BY <1>0, <1>15 DEF RekeyToPassword, CheckPassword, Rekeys, RekeyFails,
       Unlocks, UnlockFails, Goto, Ends
<1>16. CASE ReinstateKey
    BY <1>0, <1>16 DEF ReinstateKey, Rekeys, RekeyFails, Ends
<1>17. CASE ReleaseLockout \/ ReleaseMarker
    BY <1>0, <1>17 DEF ReleaseLockout, ReleaseMarker, Goto
<1>18. CASE SweepFile \/ SweepDone
    BY <1>0, <1>18 DEF SweepFile, SweepDone, Removes, Saves, Ends
<1>19. CASE Crash
    BY <1>19 DEF Crash, Ends
<1>20. CASE LockKeyring \/ LockoutTimers \/ TpmClear
    BY <1>20 DEF LockKeyring, LockoutTimers, TpmClear
<1>21. CASE RemoveStaleBlobs
    BY <1>0, <1>21 DEF RemoveStaleBlobs
<1> QED
    BY <1>1, <1>2, <1>3, <1>4, <1>5, <1>6, <1>7, <1>8, <1>9, <1>10, <1>11,
       <1>12, <1>13, <1>14, <1>15, <1>16, <1>17, <1>18, <1>19, <1>20, <1>21
       DEF Next, Step, EnrollStep, LifecycleBegin, LifecycleStep, Environment

\* It holds of Tess, and so of the face commands.
LEMMA LegAlways == ASSUME "rekey" \notin LostReplies PROVE FaceSpec => [](IndInv /\ LegInv)
<1>1. Init => IndInv /\ LegInv
    BY InitIndInv, VaultAssumption DEF Init, LegInv
<1>2. IndInv /\ LegInv /\ [Next]_vars => (IndInv /\ LegInv)'
    <2>1. UNCHANGED vars => (LegInv => LegInv')
        BY DEF vars, LegInv
    <2> QED
        BY <2>1, StepIndInv, StutterIndInv, StepLegInv
<1>3. Spec => [](IndInv /\ LegInv)
    BY <1>1, <1>2, PTL DEF Spec
<1> QED
    BY <1>3, FaceIsTess, PTL

-----------------------------------------------------------------------------
(* What the gate knows. *)

\* The face leg is entered at its beginning and gone through in order.
LEMMA StepOrder ==
    ASSUME Step
    PROVE  /\ pc # "idle" /\ pc' # "backup"
           /\ pc' = "seal" => pc = "backup"
           /\ pc' = "face_seal" => pc = "seal"
           /\ pc' = "face_key" => pc = "face_seal"
           /\ pc' = "template" => pc = "face_key"
           /\ pc' = "idle" \/ key' = key
           /\ pc = "template" => pc' \in {"bind", "restore"}
<1> USE DEF keyring, files, tpm, command, Goto, Ends, Persist
<1>1. CASE EnrollStep
    BY <1>1 DEF EnrollStep, BackupRecovery, SealMetadata, SealFace, StoreFaceKey,
       StoreTemplate, BindLockout, WriteMarker, RekeyToKey, VerifyKey, ShowSecret,
       RestoreKeyring, UnbindLockout, RemoveMarker, CleanupFile, CleanupDone
<1>2. CASE LifecycleStep
    BY <1>2 DEF LifecycleStep, Recover, Reseal, ProveKey, RekeyToPassword,
       CheckPassword, ReinstateKey, ReleaseLockout, ReleaseMarker, SweepFile,
       SweepDone
<1> QED
    BY <1>1, <1>2 DEF Step

\* Only its last step writes a template.
LEMMA StepFacts ==
    ASSUME TypeOK, Step
    PROVE  /\ pc # "template" => disk'["template"] \in {disk["template"], None}
           /\ pc = "template" => disk'["template"] \in {disk["template"], key}
<1>0. disk \in [Blob -> Key \cup {None}]
    BY DEF TypeOK, FilesTypeOK
<1> USE <1>0 DEF keyring, files, tpm, command, Goto, Ends, Saves, SaveFails,
        Removes, Persist, Blob, SealedFile
<1>1. CASE BackupRecovery \/ SealMetadata \/ SealFace \/ StoreFaceKey
    BY <1>1 DEF BackupRecovery, SealMetadata, SealFace, StoreFaceKey
<1>2. CASE StoreTemplate
    BY <1>2 DEF StoreTemplate
<1>3. CASE BindLockout \/ WriteMarker \/ RekeyToKey \/ VerifyKey \/ ShowSecret
    BY <1>3 DEF BindLockout, WriteMarker, RekeyToKey, VerifyKey, ShowSecret
<1>4. CASE RestoreKeyring \/ UnbindLockout \/ RemoveMarker \/ CleanupFile
           \/ CleanupDone
    BY <1>4 DEF RestoreKeyring, UnbindLockout, RemoveMarker, CleanupFile,
       CleanupDone
<1>5. CASE Recover \/ Reseal \/ ProveKey \/ RekeyToPassword \/ CheckPassword
           \/ ReinstateKey
    BY <1>5 DEF Recover, Reseal, ProveKey, RekeyToPassword, CheckPassword,
       ReinstateKey
<1>6. CASE ReleaseLockout \/ ReleaseMarker \/ SweepFile \/ SweepDone
    BY <1>6 DEF ReleaseLockout, ReleaseMarker, SweepFile, SweepDone
<1> QED
    BY <1>1, <1>2, <1>3, <1>4, <1>5, <1>6 DEF Step, EnrollStep, LifecycleStep

\* A command that begins is at its first step; it has the template it came with.
LEMMA BeginFacts ==
    ASSUME EnrollBegin \/ UnenrollBegin
    PROVE  /\ pc = "idle" /\ pc' \in {"idle", "backup", "prove"}
           /\ UNCHANGED <<disk, cred>>
BY DEF EnrollBegin, UnenrollBegin, Unlocks, UnlockFails, Ends, files, keyring

\* Every step keeps the gate and the transaction in step.
LEMMA StepGatesInv == ASSUME GatesInv, FaceNext PROVE GatesInv'
<1> USE DEF GatesInv, FaceLeg, Starts, Done
<1>1. CASE \E e \in Shells : FaceEnroll(e)
    BY <1>1, BeginFacts DEF FaceEnroll
<1>2. CASE \E e \in Shells : FaceTest(e)
    BY <1>2 DEF FaceTest, vars
<1>3. CASE \E e \in Shells \cup Helpers : GateBegin(e)
    BY <1>3 DEF GateBegin, vars
<1>4. CASE PlainCommand
    BY <1>4, BeginFacts DEF PlainCommand
<1>5. CASE CaptureTemplate
    BY <1>5 DEF CaptureTemplate, Goto, command
<1>6. CASE TransactionStep
    <2>1. Step
        BY <1>6 DEF TransactionStep, SaveTemplate, OtherStep, Step, EnrollStep
    <2>2. CASE pc' = "idle"
        BY <1>6, <2>2 DEF TransactionStep
    <2>3. CASE pc' # "idle" /\ SaveTemplate
        BY <1>6, <2>1, <2>3, StepOrder DEF TransactionStep, SaveTemplate
    <2>4. CASE pc' # "idle" /\ OtherStep
        BY <1>6, <2>1, <2>4, StepOrder DEF TransactionStep, OtherStep
    <2> QED
        BY <1>6, <2>2, <2>3, <2>4 DEF TransactionStep
<1>7. CASE Match \/ GiveUp \/ TestCapture
    BY <1>7 DEF Match, GiveUp, TestCapture, vars
<1>8. CASE OpenByFace
    BY <1>8 DEF OpenByFace, UnlockWithFace, UnlockWith, Ends
<1>9. CASE Outside
    BY <1>9 DEF Outside, Crash, Ends, RemoveStaleBlobs, command
<1> QED
    BY <1>1, <1>2, <1>3, <1>4, <1>5, <1>6, <1>7, <1>8, <1>9 DEF FaceNext

\* The store has a place for each user.
LEMMA StepUsers ==
    ASSUME FaceNext, DOMAIN templates = User PROVE DOMAIN templates' = User
BY DEF FaceNext, FaceEnroll, FaceTest, GateBegin, PlainCommand, CaptureTemplate,
   TransactionStep, SaveTemplate, OtherStep, Match, GiveUp, TestCapture,
   OpenByFace, Outside

\* Whoever looks for a template looks for the one of the user.
LEMMA NamesSelf ==
    ASSUME NEW e \in Shells \cup Helpers, UserPathResolves(e)
    PROVE  CurrentUsername(e) = Self
<1>1. CASE e \in Shells
    BY <1>1, FaceAssumption
<1>2. CASE e \in Helpers
  <2> DEFINE names == <<e.faceUser, e.user, e.logname>>
             fit == {i \in DOMAIN names : Named(names[i])}
  <2>1. e.faceUser = Self /\ Named(Self)
      BY <1>2, FaceAssumption
  <2>2. DOMAIN names = 1..3 /\ names[1] = e.faceUser
      OBVIOUS
  <2>3. 1 \in fit /\ fit \subseteq 1..3
      BY <2>1, <2>2
  <2>4. Min(fit) = 1
    <3> HIDE DEF fit
    <3>1. \E x \in fit : \A y \in fit : x <= y
        BY <2>3
    <3>2. Min(fit) \in fit /\ \A y \in fit : Min(fit) <= y
        BY <3>1 DEF Min
    <3>3. Min(fit) \in 1..3 /\ Min(fit) <= 1
        BY <2>3, <3>2
    <3> QED
        BY <3>3
  <2>5. CurrentUsername(e) = names[1]
    <3>1. FirstOf(names, Named) = names[Min(fit)]
        BY <2>3 DEF FirstOf
    <3> QED
        BY <2>4, <3>1 DEF CurrentUsername
  <2> QED
      BY <2>1, <2>2, <2>5
<1> QED
    BY <1>1, <1>2

\* Every step keeps the template in hand, and the one in the store, of the key
\* that the face object is of.
LEMMA StepTemplateInv ==
    ASSUME "rekey" \notin LostReplies, IndInv, LegInv, GatesInv, TemplateInv, FaceNext,
           DOMAIN templates = User
    PROVE  TemplateInv'
<1> USE VaultAssumption
        DEF TemplateInv, OpenedByItsEnrollment, Present, FaceLeg, Starts, Done
<1>0. /\ TypeOK /\ cred \in Key \cup {Password}
      /\ disk \in [Blob -> Key \cup {None}]
      /\ Self \in DOMAIN templates
    BY DEF IndInv, TypeOK, KeyringTypeOK, FilesTypeOK, User
<1>a. /\ pc \in FaceLeg => gate = "enroll"
      /\ gate = "enroll" /\ pc \in {"backup", "seal"} => template = None
      /\ pc \in {"face_key", "template"} => template # None
      /\ gate \in {"match", "accepted", "reference", "probe"} => pc = "idle"
    BY DEF GatesInv
<1>1. CASE \E e \in Shells : FaceEnroll(e)
    BY <1>1, BeginFacts DEF FaceEnroll
<1>2. CASE \E e \in Shells : FaceTest(e)
    BY <1>2 DEF FaceTest, vars
<1>3. CASE \E e \in Shells \cup Helpers : GateBegin(e)
    <2>1. /\ pc = "idle" /\ UNCHANGED <<vars, templates>> /\ gate' = "match"
          /\ templates[Self] # None /\ template' = templates[Self]
          /\ opened' = None
        BY <1>3, NamesSelf DEF GateBegin
    <2>2. cred \in Key /\ disk["metadata_face"] # None
            => disk["template"] = cred
        BY DEF LegInv
    <2> QED
        BY <2>1, <2>2 DEF vars
<1>4. CASE PlainCommand
    BY <1>4, BeginFacts DEF PlainCommand
<1>5. CASE CaptureTemplate
    <2>1. pc = "face_seal" /\ template = None /\ UNCHANGED <<templates, disk>>
          /\ opened' = None /\ UNCHANGED <<gate, cred, key>>
        BY <1>5 DEF CaptureTemplate, keyring, files, command, Goto
    <2>2. CASE pc' = "restore"
        BY <1>a, <2>1, <2>2
    <2>3. CASE UNCHANGED pc /\ template'.by = key
        BY <1>a, <2>1, <2>3
    <2> QED
        BY <1>5, <2>2, <2>3 DEF CaptureTemplate, command, Goto
<1>6. CASE TransactionStep
    <2>1. Step
        BY <1>6 DEF TransactionStep, SaveTemplate, OtherStep, Step, EnrollStep
    <2>2. opened' = None /\ pc # "idle"
        BY <1>6, <2>1, StepOrder DEF TransactionStep
    <2>3. gate' \notin {"match", "accepted"}
        BY <1>6, <1>a, <2>2 DEF TransactionStep
    <2>5. pc' \in FaceLeg /\ template' # None => template'.by = key'
        <3>1. CASE pc' \in FaceLeg
            <4>1. /\ key' = key /\ template' = template
                  /\ pc \in {"seal", "face_seal", "face_key"}
                  /\ pc = "seal" => pc' = "face_seal"
                BY <1>6, <2>1, <3>1, StepOrder DEF TransactionStep
            <4>2. ASSUME pc = "seal" PROVE template = None
                <5>1. OtherStep
                    BY <1>6, <4>2 DEF TransactionStep, SaveTemplate
                <5>2. gate = "enroll"
                    BY <4>1, <4>2, <5>1 DEF OtherStep
                <5> QED
                    BY <1>a, <4>2, <5>2
            <4>3. pc \in {"face_seal", "face_key"} /\ template # None
                    => template.by = key
                OBVIOUS
            <4> QED
                BY <4>1, <4>2, <4>3
        <3> QED
            BY <3>1
    <2>6. templates'[Self] = None \/ templates'[Self].by = disk'["template"]
        <3>1. CASE SaveTemplate
            <4>1. /\ pc = "template" /\ template.by = key
                  /\ disk'["template"] \in {disk["template"], key}
                BY <1>0, <1>a, <2>1, <3>1, StepFacts DEF SaveTemplate
            <4> QED
                BY <1>0, <3>1, <4>1 DEF SaveTemplate
        <3>2. CASE OtherStep
            <4>1. disk'["template"] \in {disk["template"], None}
                BY <1>0, <2>1, <3>2, StepFacts DEF OtherStep
            <4> QED
                BY <1>0, <3>2, <4>1 DEF OtherStep
        <3> QED
            BY <1>6, <3>1, <3>2 DEF TransactionStep
    <2> QED
        BY <2>2, <2>3, <2>5, <2>6
<1>7. CASE Match \/ GiveUp \/ TestCapture
    <2>1. UNCHANGED <<vars, templates>> /\ opened' = None /\ pc = "idle"
        BY <1>7, <1>a DEF Match, GiveUp, TestCapture
    <2>2. gate' \in {"match", "accepted"} =>
              gate \in {"match", "accepted"} /\ template' = template
        BY <1>7 DEF Match, GiveUp, TestCapture
    <2> QED
        BY <2>1, <2>2 DEF vars
<1>8. CASE OpenByFace
    <2>1. /\ gate = "accepted" /\ UnlockWith("metadata_face")
          /\ Present("metadata_face") /\ gate' = "none" /\ UNCHANGED templates
          /\ pc' = "idle"
        BY <1>8 DEF OpenByFace, UnlockWithFace, UnlockWith, Ends
    <2>2. UNCHANGED disk /\ UNCHANGED cred
        BY <2>1 DEF UnlockWith, Unlocks, UnlockFails, files, keyring
    <2>3. ASSUME report' = "unlocked"
          PROVE  cred = disk["metadata_face"] /\ cred \in Key
        BY <1>0, <2>1, <2>3 DEF UnlockWith, Unlocks, Ends, Blob, SealedFile
    <2>4. CASE report' = "unlocked"
        BY <1>8, <2>1, <2>2, <2>3, <2>4 DEF OpenByFace
    <2>5. CASE report' # "unlocked"
        BY <1>8, <2>1, <2>2, <2>5 DEF OpenByFace
    <2> QED
        BY <2>4, <2>5
<1>9. CASE Outside
    <2>1. CASE Crash /\ Done /\ UNCHANGED templates
        BY <2>1 DEF Crash, Ends, files
    <2>2. CASE RemoveStaleBlobs /\ opened' = None
                 /\ UNCHANGED <<templates, pipe, template, gate, look>>
        BY <1>0, <2>2 DEF RemoveStaleBlobs, command, keyring, Blob, SealedFile
    <2> QED
        BY <1>9, <2>1, <2>2 DEF Outside
<1> QED
    BY <1>1, <1>2, <1>3, <1>4, <1>5, <1>6, <1>7, <1>8, <1>9 DEF FaceNext

\* Before anything ran there is no face object, no template and no face.
LEMMA InitFaces == FaceInit => GatesInv /\ TemplateInv /\ DOMAIN templates = User
<1> SUFFICES ASSUME FaceInit
             PROVE  GatesInv /\ TemplateInv /\ DOMAIN templates = User
    OBVIOUS
<1>1. /\ pc = "idle" /\ gate = "none" /\ template = None /\ opened = None
      /\ templates = [u \in User |-> IF u = Self THEN None ELSE Others[u]]
    BY DEF FaceInit, Init
<1>2. Self \in User
    BY DEF User
<1> QED
    BY <1>1, <1>2 DEF GatesInv, TemplateInv, OpenedByItsEnrollment, FaceLeg

\* The template that lets a face open the keyring was captured by the enrollment
\* that sealed the key: none left over by a crash, a rollback or an unenrollment
\* is ever matched against for a later key (commit_face, try_face_unlock).
THEOREM NoTemplateIsLeftOver ==
    ASSUME "rekey" \notin LostReplies
    PROVE  FaceSpec => []OpenedByItsEnrollment
<1> DEFINE Inv == GatesInv /\ TemplateInv /\ DOMAIN templates = User
<1>1. FaceInit => Inv
    BY InitFaces
<1>2. IndInv /\ LegInv /\ Inv /\ [FaceNext]_allVars => Inv'
    <2>1. CASE FaceNext
        BY <2>1, StepGatesInv, StepTemplateInv, StepUsers
    <2>2. CASE UNCHANGED allVars
        BY <2>2 DEF allVars, faceVars, vars, keyring, files, tpm, command, GatesInv,
           TemplateInv, OpenedByItsEnrollment, Present
    <2> QED
        BY <2>1, <2>2
<1>3. Inv => OpenedByItsEnrollment
    BY DEF TemplateInv
<1> HIDE DEF Inv
<1> QED
    BY <1>1, <1>2, <1>3, LegAlways, PTL DEF FaceSpec

-----------------------------------------------------------------------------
(* Who is let in. *)

\* A pipeline that was built without the mock being allowed asks a model, of an
\* aligned face.
LEMMA BuildsModelled ==
    ASSUME NEW e \in Shells \cup Helpers, NEW allow, Builds(e, allow)
    PROVE  Modelled(Pipeline(e, allow))
<1> SUFFICES ASSUME ~(allow \/ MockFaceAllowed(e))
             PROVE  /\ Matcher(e, allow).by # Mock
                    /\ Detector(e, allow) # "whole"
    BY DEF Modelled, Pipeline
<1>1. Matcher(e, allow).by = <<ModelPath(e), Config(e).scale>>
    BY DEF Builds, Matcher, Set
<1>2. Detector(e, allow) = DetectorPath(e)
    BY DEF Builds, Detector, Set
<1>3. DetectorPath(e) # "whole"
    BY FaceAssumption DEF Builds
<1> QED
    BY <1>1, <1>2, <1>3 DEF Mock

\* One model tells an aligned face from another, at the distances it should.
LEMMA NearIsSame ==
    ASSUME NEW p, NEW s, NEW t, Modelled(p), Trusted(t),
           NEW face \in Located(p, s),
           NEW d \in Distances(Embeds(p, face), t.emb), d <= t.threshold
    PROVE  \/ face.shows = t.emb.of \/ Loose(t) \/ t.mocked \/ p.mocked
           \/ t.emb.by # p.matcher.by
<1> SUFFICES ASSUME ~t.mocked, ~p.mocked, t.emb.by = p.matcher.by
             PROVE  face.shows = t.emb.of \/ Loose(t)
    OBVIOUS
<1>1. p.matcher.by # Mock /\ p.detector # "whole" /\ t.emb.aligned
    BY DEF Modelled, Trusted
<1>2. face.aligned
    BY <1>1 DEF Located
<1>3. LET a == Embeds(p, face)
      IN  a.by = p.matcher.by /\ a.of = face.shows /\ a.aligned = face.aligned
    BY DEF Embeds, Embedding
<1>4. face.shows # t.emb.of => d \in Distance /\ Separation <= d
    BY <1>1, <1>2, <1>3 DEF Distances
<1> QED
    BY <1>4 DEF Loose

\* Every step keeps to aligned faces and models, unless the mock is allowed.
LEMMA StepMatchInv ==
    ASSUME GatesInv, MatchInv, FaceNext, DOMAIN templates = User
    PROVE  MatchInv'
<1> USE DEF MatchInv, StrangerStaysOut, FaceLeg, Starts, Done
<1>0. Self \in DOMAIN templates
    BY DEF User
<1>a. /\ pc \in FaceLeg => gate = "enroll"
      /\ gate = "enroll" /\ pc \in {"backup", "seal"} => template = None
      /\ pc \in {"face_key", "template"} => template # None
      /\ gate \in {"match", "accepted", "reference", "probe"} => pc = "idle"
    BY DEF GatesInv
<1>1. CASE \E e \in Shells : FaceEnroll(e)
    <2>1. gate' # "none" => Modelled(pipe')
        BY <1>1, BuildsModelled DEF FaceEnroll
    <2> QED
        BY <1>1, <2>1, BeginFacts DEF FaceEnroll
<1>2. CASE \E e \in Shells : FaceTest(e)
    <2>1. Modelled(pipe')
        BY <1>2, BuildsModelled DEF FaceTest
    <2> QED
        BY <1>2, <2>1 DEF FaceTest, vars, command
<1>3. CASE \E e \in Shells \cup Helpers : GateBegin(e)
    <2>1. Modelled(pipe')
        BY <1>3, BuildsModelled DEF GateBegin
    <2>2. /\ pc = "idle" /\ pc' = "idle" /\ UNCHANGED templates
          /\ gate' = "match" /\ opened' = None
          /\ templates[Self] # None /\ template' = templates[Self]
        BY <1>3, NamesSelf DEF GateBegin, vars, command
    <2> QED
        BY <2>1, <2>2
<1>4. CASE PlainCommand
    BY <1>4, BeginFacts DEF PlainCommand
<1>5. CASE CaptureTemplate
    <2>1. /\ pc = "face_seal" /\ gate = "enroll" /\ template = None
          /\ UNCHANGED <<templates, pipe, gate>> /\ opened' = None
          /\ Modelled(pipe)
        BY <1>5, <1>a DEF CaptureTemplate
    <2>2. CASE Goto("restore") /\ UNCHANGED <<template, look>>
        BY <2>1, <2>2
    <2>3. ASSUME NEW s, NEW face \in Located(pipe, s),
                 template' = [emb |-> Embeds(pipe, face), by |-> key,
                              score |-> pipe.config.liveness.score_threshold,
                              threshold |-> pipe.config.match_threshold,
                              mocked |-> pipe.mocked]
          PROVE  Trusted(template')
        BY <2>1, <2>3 DEF Modelled, Located, Embeds, Embedding, Trusted
    <2>4. Trusted(template') \/ UNCHANGED template
        BY <1>5, <2>3 DEF CaptureTemplate
    <2> QED
        BY <2>1, <2>4
<1>6. CASE TransactionStep
    <2>1. Step
        BY <1>6 DEF TransactionStep, SaveTemplate, OtherStep, Step, EnrollStep
    <2>2. opened' = None /\ pc # "idle"
        BY <1>6, <2>1, StepOrder DEF TransactionStep
    <2>3. gate' \notin {"match", "accepted"}
        BY <1>6, <1>a, <2>2 DEF TransactionStep
    <2>4. gate' # "none" => Modelled(pipe')
        BY <1>6 DEF TransactionStep
    <2>5. pc' \in FaceLeg /\ template' # None => Trusted(template')
        <3>1. CASE pc' \in FaceLeg
            <4>1. /\ template' = template
                  /\ pc \in {"seal", "face_seal", "face_key"}
                  /\ pc = "seal" => pc' = "face_seal"
                BY <1>6, <2>1, <3>1, StepOrder DEF TransactionStep
            <4>2. ASSUME pc = "seal" PROVE template = None
                <5>1. OtherStep
                    BY <1>6, <4>2 DEF TransactionStep, SaveTemplate
                <5>2. gate = "enroll"
                    BY <4>1, <4>2, <5>1 DEF OtherStep
                <5> QED
                    BY <1>a, <4>2, <5>2
            <4>3. pc \in {"face_seal", "face_key"} /\ template # None
                    => Trusted(template)
                OBVIOUS
            <4> QED
                BY <4>1, <4>2, <4>3
        <3> QED
            BY <3>1
    <2>6. templates'[Self] = None \/ Trusted(templates'[Self])
        <3>1. CASE SaveTemplate
            <4>1. pc = "template" /\ Trusted(template)
                BY <1>a, <3>1 DEF SaveTemplate
            <4> QED
                BY <1>0, <3>1, <4>1 DEF SaveTemplate
        <3>2. CASE OtherStep
            BY <1>0, <3>2 DEF OtherStep
        <3> QED
            BY <1>6, <3>1, <3>2 DEF TransactionStep
    <2> QED
        BY <2>2, <2>3, <2>4, <2>5, <2>6
<1>7. CASE Match
    <2>1. pc' = "idle" /\ UNCHANGED templates /\ opened' = None
        BY <1>7, <1>a DEF Match, vars, command
    <2>2. CASE Done
        BY <2>1, <2>2
    <2>3. CASE ~Done
        <3>1. gate = "match" /\ gate' = "accepted" /\ UNCHANGED <<pipe, template>>
            BY <1>7, <2>3 DEF Match
        <3>2. PICK s \in DOMAIN Scenes : \E face \in Located(pipe, s) :
                 /\ \E d \in Distances(Embeds(pipe, face), template.emb) :
                       d <= template.threshold
                 /\ look' = [scene |-> s, face |-> face]
            BY <1>7, <2>3 DEF Match, Captures
        <3>3. PICK face \in Located(pipe, s) :
                 /\ \E d \in Distances(Embeds(pipe, face), template.emb) :
                       d <= template.threshold
                 /\ look' = [scene |-> s, face |-> face]
            BY <3>2
        <3>4. Modelled(pipe) /\ Trusted(template)
            BY <3>1
        <3>5. Matches(template, look', pipe)
            BY <3>3, <3>4, NearIsSame DEF Matches
        <3> QED
            BY <2>1, <3>1, <3>4, <3>5
    <2> QED
        BY <2>2, <2>3
<1>8. CASE GiveUp \/ TestCapture
    BY <1>8, <1>a DEF GiveUp, TestCapture, vars, command
<1>9. CASE OpenByFace
    <2>1. /\ gate = "accepted" /\ pc' = "idle" /\ UNCHANGED templates
          /\ gate' = "none" /\ template' = None
          /\ opened' \in {[template |-> template, seen |-> look, pipe |-> pipe],
                          None}
        BY <1>9 DEF OpenByFace, UnlockWithFace, UnlockWith, Ends
    <2>2. Matches(template, look, pipe)
        BY <2>1
    <2> QED
        BY <2>1, <2>2 DEF Matches
<1>10. CASE Outside
    <2>1. CASE Crash /\ Done /\ UNCHANGED templates
        BY <2>1 DEF Crash, Ends
    <2>2. CASE RemoveStaleBlobs /\ opened' = None
                 /\ UNCHANGED <<templates, pipe, template, gate, look>>
        BY <2>2 DEF RemoveStaleBlobs, command
    <2> QED
        BY <1>10, <2>1, <2>2 DEF Outside
<1> QED
    BY <1>1, <1>2, <1>3, <1>4, <1>5, <1>6, <1>7, <1>8, <1>9, <1>10 DEF FaceNext

\* A face that is not the enrolled one never opens the keyring, whatever the
\* configurations and models, as long as the match threshold of the enrollment
\* was below the distances of its model between faces, neither the enrollment
\* nor the unlock was allowed the mock, and the model was not exchanged between
\* them; the threshold configured at the unlock is free.
THEOREM StrangersStayOut == FaceSpec => []StrangerStaysOut
<1> DEFINE Inv == GatesInv /\ MatchInv /\ DOMAIN templates = User
<1>1. FaceInit => Inv
    <2> SUFFICES ASSUME FaceInit PROVE MatchInv
        BY InitFaces
    <2>1. /\ pc = "idle" /\ gate = "none" /\ template = None /\ opened = None
          /\ templates = [u \in User |-> IF u = Self THEN None ELSE Others[u]]
        BY DEF FaceInit, Init
    <2>2. Self \in User
        BY DEF User
    <2> QED
        BY <2>1, <2>2 DEF MatchInv, StrangerStaysOut, FaceLeg
<1>2. Inv /\ [FaceNext]_allVars => Inv'
    <2>1. CASE FaceNext
        BY <2>1, StepGatesInv, StepMatchInv, StepUsers
    <2>2. CASE UNCHANGED allVars
        BY <2>2 DEF allVars, faceVars, vars, command, GatesInv, MatchInv,
           StrangerStaysOut
    <2> QED
        BY <2>1, <2>2
<1>3. Inv => StrangerStaysOut
    BY DEF MatchInv
<1> HIDE DEF Inv
<1> QED
    BY <1>1, <1>2, <1>3, PTL DEF FaceSpec

-----------------------------------------------------------------------------
(* Pictures and screens. *)

\* Another score changes none of the gates before it.
LEMMA ScoreAside ==
    ASSUME NEW c \in DOMAIN Configs, NEW score, NEW f,
           NEW g \in {"weak", "screen", "glare", "flat", "smooth"},
           Rejects(g, f, Configs[c].liveness)
    PROVE  Rejects(g, f, [Configs[c].liveness EXCEPT !.score_threshold = score])
<1> DEFINE cfg == Configs[c].liveness
           other == [cfg EXCEPT !.score_threshold = score]
<1>1. /\ other.min_mean_delta = cfg.min_mean_delta
      /\ other.max_baseline_for_live = cfg.max_baseline_for_live
      /\ other.emission_min_delta = cfg.emission_min_delta
      /\ other.max_saturated_fraction = cfg.max_saturated_fraction
      /\ other.min_delta_std = cfg.min_delta_std
      /\ other.min_gradient_energy = cfg.min_gradient_energy
    BY FaceAssumption
<1>2. Rejects(g, f, cfg)
    OBVIOUS
<1> HIDE DEF cfg, other
<1>3. Rejects(g, f, other)
    <2>1. CASE g = "weak"
        BY <1>1, <1>2, <2>1 DEF Rejects
    <2>2. CASE g = "screen"
        BY <1>1, <1>2, <2>2 DEF Rejects
    <2>3. CASE g = "glare"
        BY <1>1, <1>2, <2>3 DEF Rejects
    <2>4. CASE g = "flat"
        BY <1>1, <1>2, <2>4 DEF Rejects
    <2>5. CASE g = "smooth"
        BY <1>1, <1>2, <2>5 DEF Rejects
    <2> QED
        BY <2>1, <2>2, <2>3, <2>4, <2>5
<1> QED
    BY <1>3 DEF cfg, other

\* A pair that a gate rejects does not pass.
LEMMA OneGateSuffices ==
    ASSUME NEW f, NEW cfg, NEW i \in 1..5, Rejects(Gates[i], f, cfg)
    PROVE  FirstFailingGate(f, cfg) # "none"
<1> DEFINE failing == {j \in 1..Len(Gates) : Rejects(Gates[j], f, cfg)}
<1>1. Len(Gates) = 6
    BY DEF Gates
<1>2. failing \subseteq 1..6 /\ i \in failing
    BY <1>1
<1> HIDE DEF failing
<1>3. \E j \in failing : \A k \in failing : j <= k
    BY <1>2
<1>4. Min(failing) \in 1..6
    BY <1>2, <1>3 DEF Min
<1>5. FirstFailingGate(f, cfg) = Gates[Min(failing)]
    BY <1>2 DEF FirstFailingGate, failing
<1> HIDE DEF failing
<1>6. \A j \in 1..6 : Gates[j] # "none"
    BY DEF Gates
<1> QED
    BY <1>4, <1>5, <1>6

\* What is captured at any score is live.
LEMMA LiveIsLive ==
    ASSUME SpoofsRejected, NEW p, NEW s \in DOMAIN Scenes, NEW lit \in BOOLEAN,
           NEW score, p.config \in {Configs[c] : c \in DOMAIN Configs},
           LiveAt(p, s, lit, score)
    PROVE  Scenes[s].live
<1> SUFFICES ASSUME ~Scenes[s].live PROVE FALSE
    OBVIOUS
<1> DEFINE seen == IF lit THEN Sights[s].lit ELSE Sights[s].dark
<1>1. PICK c \in DOMAIN Configs : p.config = Configs[c]
    OBVIOUS
<1> DEFINE limits == [Configs[c].liveness EXCEPT !.score_threshold = score]
<1>2. seen \in {Sights[s].lit, Sights[s].dark}
    OBVIOUS
<1>3. FirstFailingGate(seen, limits) = "none"
    BY <1>1 DEF LiveAt
<1> HIDE DEF seen
<1>4. PICK g \in {"weak", "screen", "glare", "flat", "smooth"} :
            Rejects(g, seen, Configs[c].liveness)
    BY <1>2 DEF SpoofsRejected
<1>5. Rejects(g, seen, limits)
    BY <1>4, ScoreAside
<1>6. PICK i \in 1..5 : g = Gates[i]
    BY DEF Gates
<1> HIDE DEF limits
<1>7. Rejects(Gates[i], seen, limits)
    BY <1>5, <1>6
<1>8. FirstFailingGate(seen, limits) # "none"
    BY <1>7, OneGateSuffices
<1> QED
    BY <1>3, <1>8

\* A pipeline has one of the configurations.
LEMMA BuildsConfigured ==
    ASSUME NEW e \in Shells \cup Helpers, NEW allow, Builds(e, allow)
    PROVE  Pipeline(e, allow).config \in {Configs[c] : c \in DOMAIN Configs}
BY FaceAssumption DEF Builds, ConfigLoads, Config, Pipeline

\* Every step looks at live scenes only.
LEMMA StepSpoofInv ==
    ASSUME SpoofsRejected, GatesInv, SpoofInv, FaceNext
    PROVE  SpoofInv'
<1> USE DEF SpoofInv, SpoofStaysOut, FaceLeg, Starts, Done
<1> DEFINE Configured(p) == p.config \in {Configs[c] : c \in DOMAIN Configs}
<1>1. CASE \E e \in Shells : FaceEnroll(e)
    <2>1. gate' # "none" => Configured(pipe')
        BY <1>1, BuildsConfigured DEF FaceEnroll
    <2> QED
        BY <1>1, <2>1 DEF FaceEnroll
<1>2. CASE \E e \in Shells : FaceTest(e)
    <2>1. Configured(pipe')
        BY <1>2, BuildsConfigured DEF FaceTest
    <2> QED
        BY <1>2, <2>1 DEF FaceTest
<1>3. CASE \E e \in Shells \cup Helpers : GateBegin(e)
    <2>1. Configured(pipe')
        BY <1>3, BuildsConfigured DEF GateBegin
    <2> QED
        BY <1>3, <2>1 DEF GateBegin
<1>4. CASE PlainCommand
    BY <1>4 DEF PlainCommand
<1>5. CASE CaptureTemplate
    <2>1. gate = "enroll" /\ UNCHANGED <<pipe, gate>> /\ opened' = None
        BY <1>5 DEF CaptureTemplate, GatesInv
    <2>2. UNCHANGED look \/
            \E s \in DOMAIN Scenes, lit \in BOOLEAN :
                /\ LiveAt(pipe, s, lit, pipe.config.liveness.score_threshold)
                /\ look'.scene = s
        BY <1>5 DEF CaptureTemplate, Captures
    <2>3. look' # None => Scenes[look'.scene].live
        BY <2>1, <2>2, LiveIsLive
    <2> QED
        BY <2>1, <2>3
<1>6. CASE TransactionStep
    BY <1>6 DEF TransactionStep
<1>7. CASE Match
    <2>1. gate = "match" /\ opened' = None /\ (gate' # "none" => UNCHANGED pipe)
        BY <1>7 DEF Match
    <2>2. Done \/
            \E s \in DOMAIN Scenes, lit \in BOOLEAN :
                LiveAt(pipe, s, lit, template.score) /\ look'.scene = s
        BY <1>7 DEF Match, Captures
    <2>3. Done \/ Scenes[look'.scene].live
        BY <2>1, <2>2, LiveIsLive
    <2> QED
        BY <2>1, <2>3
<1>8. CASE TestCapture
    <2>1. /\ gate \in {"reference", "probe"} /\ opened' = None
          /\ Done \/ (gate' = "probe" /\ UNCHANGED pipe)
        BY <1>8 DEF TestCapture
    <2>2. Done \/
            \E s \in DOMAIN Scenes, lit \in BOOLEAN :
                /\ LiveAt(pipe, s, lit, pipe.config.liveness.score_threshold)
                /\ look'.scene = s
        BY <1>8 DEF TestCapture, Captures
    <2>3. Done \/ Scenes[look'.scene].live
        BY <2>1, <2>2, LiveIsLive
    <2> QED
        BY <2>1, <2>3
<1>9. CASE OpenByFace
    <2>1. /\ gate = "accepted" /\ gate' = "none" /\ look' = None
          /\ opened' \in {[template |-> template, seen |-> look, pipe |-> pipe],
                          None}
        BY <1>9 DEF OpenByFace
    <2> QED
        BY <2>1
<1>10. CASE GiveUp \/ Outside
    BY <1>10 DEF GiveUp, Outside
<1> QED
    BY <1>1, <1>2, <1>3, <1>4, <1>5, <1>6, <1>7, <1>8, <1>9, <1>10 DEF FaceNext

\* However low the score of a template or a configuration: where the gates before
\* it reject every picture and every screen, none is ever enrolled, tested or
\* opens the keyring (analyze, try_face_unlock).
THEOREM SpoofsStayOut == ASSUME SpoofsRejected PROVE FaceSpec => []SpoofStaysOut
<1> DEFINE Inv == GatesInv /\ SpoofInv
<1>1. FaceInit => Inv
    BY InitFaces DEF FaceInit, SpoofInv, SpoofStaysOut
<1>2. Inv /\ [FaceNext]_allVars => Inv'
    <2>1. CASE FaceNext
        BY <2>1, StepGatesInv, StepSpoofInv
    <2>2. CASE UNCHANGED allVars
        BY <2>2 DEF allVars, faceVars, vars, command, GatesInv, SpoofInv,
           SpoofStaysOut
    <2> QED
        BY <2>1, <2>2
<1>3. Inv => SpoofStaysOut
    BY DEF SpoofInv
<1> HIDE DEF Inv
<1> QED
    BY <1>1, <1>2, <1>3, PTL DEF FaceSpec

-----------------------------------------------------------------------------
(* The face that is judged. *)

\* What holds of a set when it holds of its strict subsets holds of every subset
\* of a finite set.
LEMMA SetInduction ==
    ASSUME NEW D, IsFiniteSet(D), NEW Good \in SUBSET (SUBSET D),
           \A s \in SUBSET D :
              (\A u \in SUBSET s : u # s => u \in Good) => s \in Good
    PROVE  Good = SUBSET D
  <1> DEFINE Bad == (SUBSET D) \ Good
  <1>1. SUFFICES ASSUME Bad # {} PROVE FALSE
    OBVIOUS
  <1>2. Bad \subseteq FiniteSubsetsOf(D)
    <2>1. \A s \in Bad : s \in SUBSET D /\ IsFiniteSet(s)
      BY FS_Subset
    <2> HIDE DEF Bad
    <2> QED
      BY <2>1 DEF FiniteSubsetsOf
  <1>3. IsWellFoundedOn(StrictSubsetOrdering(D), FiniteSubsetsOf(D))
    BY FS_StrictSubsetOrderingWellFounded
  <1>4. PICK s \in Bad : \A u \in Bad : ~(<<u, s>> \in StrictSubsetOrdering(D))
    <2> HIDE DEF Bad
    <2> QED
      BY <1>1, <1>2, <1>3, WFMin
  <1>5. ASSUME NEW u \in SUBSET s, u # s PROVE u \in Good
    <2>1. u \in SUBSET D /\ s \in SUBSET D
      OBVIOUS
    <2>2. <<u, s>> \in StrictSubsetOrdering(D)
      BY <1>5, <2>1 DEF StrictSubsetOrdering
    <2> QED
      BY <1>4, <2>1, <2>2
  <1> QED
    BY <1>4, <1>5

\* Detections whose scores are numbers.
Scored(D) == \A d \in D : Strength(d) \in Int

\* Of finitely many there is a weakest.
LEMMA WeakestIsElement ==
    ASSUME NEW D, IsFiniteSet(D), Scored(D)
    PROVE  \A s \in SUBSET D : s # {} =>
              Weakest(s) \in s /\ \A e \in s : Strength(Weakest(s)) <= Strength(e)
  <1> DEFINE Good == {s \in SUBSET D : s # {} =>
                        \E d \in s : \A e \in s : Strength(d) <= Strength(e)}
  <1>1. ASSUME NEW s \in SUBSET D, \A u \in SUBSET s : u # s => u \in Good
        PROVE  s \in Good
    <2>1. SUFFICES ASSUME NEW x \in s
                   PROVE  \E d \in s : \A e \in s : Strength(d) <= Strength(e)
      OBVIOUS
    <2>2. s \ {x} \in Good
      BY <1>1
    <2>3. \A e \in s : Strength(e) \in Int
      BY DEF Scored
    <2>4. CASE s \ {x} = {}
      <3>1. \A e \in s : e = x
        BY <2>4
      <3> QED
        BY <2>3, <3>1
    <2>5. CASE s \ {x} # {}
      <3>1. PICK m \in s \ {x} : \A e \in s \ {x} : Strength(m) <= Strength(e)
        BY <2>2, <2>5
      <3>2. CASE Strength(m) <= Strength(x)
        BY <3>1, <3>2
      <3>3. CASE ~(Strength(m) <= Strength(x))
        <4>1. \A e \in s : Strength(x) <= Strength(e)
          BY <2>3, <3>1, <3>3
        <4> QED
          BY <4>1
      <3> QED
        BY <3>2, <3>3
    <2> QED
      BY <2>4, <2>5
  <1>2. Good \in SUBSET (SUBSET D)
    OBVIOUS
  <1>3. Good = SUBSET D
    <2> HIDE DEF Good
    <2> QED
      BY <1>1, <1>2, SetInduction
  <1>4. \A s \in SUBSET D : s # {} =>
           \E d \in s : \A e \in s : Strength(d) <= Strength(e)
    BY <1>3
  <1> QED
    BY <1>4 DEF Weakest

\* A function that holds what is kept of the subsets of a set; and one turn of its
\* definition.
KeptIn(g, D) ==
    \A s \in SUBSET D :
        g[s] = IF s = {} THEN {} ELSE Keeping(Weakest(s), g[s \ {Weakest(s)}])

Turn(g, D) ==
    [s \in SUBSET D |->
        IF s = {} THEN {} ELSE Keeping(Weakest(s), g[s \ {Weakest(s)}])]

\* What is kept of the subsets of a set is what is kept of those of its subsets.
LEMMA KeptOfSubset ==
    ASSUME NEW D, NEW g, KeptIn(g, D), NEW S \in SUBSET D
    PROVE  KeptIn(g, S)
  BY DEF KeptIn

\* There is one value for each subset.
LEMMA KeptAgree ==
    ASSUME NEW D, IsFiniteSet(D), Scored(D),
           NEW g, NEW h, KeptIn(g, D), KeptIn(h, D)
    PROVE  \A s \in SUBSET D : g[s] = h[s]
  <1> DEFINE Good == {s \in SUBSET D : g[s] = h[s]}
  <1>1. ASSUME NEW s \in SUBSET D, \A u \in SUBSET s : u # s => u \in Good
        PROVE  s \in Good
    <2>1. CASE s = {}
      BY <2>1 DEF KeptIn
    <2>2. CASE s # {}
      <3>1. Weakest(s) \in s
        BY <2>2, WeakestIsElement
      <3>2. s \ {Weakest(s)} \in Good
        BY <1>1, <3>1
      <3>3. g[s \ {Weakest(s)}] = h[s \ {Weakest(s)}]
        BY <3>2
      <3>4. /\ g[s] = Keeping(Weakest(s), g[s \ {Weakest(s)}])
            /\ h[s] = Keeping(Weakest(s), h[s \ {Weakest(s)}])
        BY <2>2 DEF KeptIn
      <3>5. g[s] = h[s]
        BY <3>3, <3>4, Zenon
      <3> QED
        BY <3>5
    <2> QED
      BY <2>1, <2>2
  <1>2. Good = SUBSET D
    <2>1. Good \in SUBSET (SUBSET D)
      OBVIOUS
    <2> HIDE DEF Good
    <2> QED
      BY <1>1, <2>1, SetInduction
  <1> QED
    BY <1>2

\* There is such a function: the CHOOSE in the fold of the library finds one.
LEMMA KeptExists ==
    ASSUME NEW D, IsFiniteSet(D), Scored(D)
    PROVE  \E g : g = Turn(g, D)
  <1> DEFINE Chosen(s) == CHOOSE g : KeptIn(g, s)
             total(s) == IF s = {} THEN {}
                         ELSE Keeping(Weakest(s),
                                      Chosen(s \ {Weakest(s)})[s \ {Weakest(s)}])
             Good == {s \in SUBSET D : \E g : KeptIn(g, s)}
             f == [s \in SUBSET D |-> total(s)]
  <1>1. ASSUME NEW s \in SUBSET D, \A u \in SUBSET s : u # s => u \in Good
        PROVE  \A w \in SUBSET s : w # s => Chosen(w)[w] = total(w)
    <2>1. SUFFICES ASSUME NEW w \in SUBSET s, w # s
                   PROVE  Chosen(w)[w] = total(w)
      OBVIOUS
    <2>2. w \in SUBSET D
      OBVIOUS
    <2>3. KeptIn(Chosen(w), w)
      <3>1. w \in Good
        BY <1>1, <2>1, Zenon
      <3>2. \E g : KeptIn(g, w)
        BY <3>1
      <3> QED
        BY <3>2, Zenon
    <2>4. CASE w = {}
      <3> HIDE DEF Chosen
      <3> QED
        BY <2>3, <2>4 DEF KeptIn
    <2>5. CASE w # {}
      <3> DEFINE x == w \ {Weakest(w)}
      <3>1. Chosen(w)[w] = Keeping(Weakest(w), Chosen(w)[x])
        BY <2>3, <2>5 DEF KeptIn
      <3>2. x \in SUBSET w /\ x \in SUBSET s /\ x # s /\ x \in SUBSET D
        BY <2>2, <2>5, WeakestIsElement
      <3>3. KeptIn(Chosen(x), x) /\ KeptIn(Chosen(w), x)
        <4>1. \E g : KeptIn(g, x)
          BY <1>1, <3>2
        <4>2. KeptIn(Chosen(x), x)
          BY <4>1, Zenon
        <4> HIDE DEF Chosen, x
        <4> QED
          BY <2>3, <3>2, <4>2, KeptOfSubset
      <3>4. IsFiniteSet(x) /\ Scored(x)
        BY <3>2, FS_Subset DEF Scored
      <3>5. Chosen(w)[x] = Chosen(x)[x]
        <4> HIDE DEF Chosen, x
        <4> QED
          BY <3>3, <3>4, KeptAgree
      <3> QED
        BY <2>2, <2>5, <3>1, <3>5
    <2> QED
      BY <2>2, <2>4, <2>5
  <1>2. ASSUME NEW s \in SUBSET D, \A u \in SUBSET s : u # s => u \in Good
        PROVE  s \in Good
    <2>1. KeptIn([u \in SUBSET s |-> total(u)], s)
      <3> DEFINE h == [u \in SUBSET s |-> total(u)]
      <3>1. SUFFICES ASSUME NEW u \in SUBSET s
                     PROVE  h[u] = IF u = {} THEN {}
                                   ELSE Keeping(Weakest(u), h[u \ {Weakest(u)}])
        BY DEF KeptIn
      <3>2. h[u] = total(u)
        OBVIOUS
      <3>3. CASE u = {}
        BY <3>2, <3>3
      <3>4. CASE u # {}
        <4> DEFINE w == u \ {Weakest(u)}
        <4>1. Chosen(w)[w] = total(w)
          <5>1. w \in SUBSET s /\ w # s
            BY <3>4, WeakestIsElement
          <5> HIDE DEF w, total, Chosen
          <5> QED
            BY <1>1, <1>2, <5>1
        <4>2. h[w] = total(w)
          OBVIOUS
        <4>3. total(u) = Keeping(Weakest(u), Chosen(w)[w])
          BY <3>4
        <4> HIDE DEF h, total, Chosen
        <4> QED
          BY <3>2, <3>4, <4>1, <4>2, <4>3
      <3> QED
        BY <3>3, <3>4
    <2> HIDE DEF Chosen, total
    <2> QED
      BY <2>1
  <1>3. Good = SUBSET D
    <2>1. Good \in SUBSET (SUBSET D)
      OBVIOUS
    <2> HIDE DEF Good
    <2> QED
      BY <1>2, <2>1, SetInduction
  <1>4. \A s \in SUBSET D :
           f[s] = IF s = {} THEN {} ELSE Keeping(Weakest(s), f[s \ {Weakest(s)}])
    <2>1. TAKE s \in SUBSET D
    <2>2. f[s] = total(s)
      OBVIOUS
    <2>3. CASE s = {}
      BY <2>2, <2>3
    <2>4. CASE s # {}
      <3> DEFINE w == s \ {Weakest(s)}
      <3>1. \A u \in SUBSET s : u # s => u \in Good
        BY <1>3
      <3>2. w \in SUBSET s /\ w # s /\ w \in SUBSET D
        BY <2>4, WeakestIsElement
      <3>5. Chosen(w)[w] = total(w)
        <4> HIDE DEF w, total, Chosen
        <4> QED
          BY <1>1, <3>1, <3>2
      <3>3. f[w] = total(w)
        BY <3>2
      <3>4. total(s) = Keeping(Weakest(s), Chosen(w)[w])
        BY <2>4
      <3> HIDE DEF f, total, Chosen
      <3> QED
        BY <2>2, <2>4, <3>5, <3>3, <3>4
    <2> QED
      BY <2>3, <2>4
  <1>5. f = [s \in SUBSET D |-> f[s]]
    OBVIOUS
  <1>6. f = Turn(f, D)
    <2> HIDE DEF f
    <2> QED
      BY <1>4, <1>5, Zenon DEF Turn
  <1> HIDE DEF f
  <1> QED
    BY <1>6

\* What is kept of detections is the value of such a function.
LEMMA NmsIs ==
    ASSUME NEW D, IsFiniteSet(D), Scored(D)
    PROVE  \E g : KeptIn(g, D) /\ Nms(D) = g[D]
  <1> DEFINE kept == CHOOSE h : h = Turn(h, D)
  <1>1. kept = Turn(kept, D)
    BY KeptExists, Zenon
  <1>2. Nms(D) = kept[D]
    BY Zenon DEF Nms, MapThenFoldSet, Turn
  <1> HIDE DEF kept
  <1>3. KeptIn(kept, D)
    <2>1. \A s \in SUBSET D : kept[s] = Turn(kept, D)[s]
      BY <1>1, Zenon
    <2> QED
      BY <2>1 DEF KeptIn, Turn
  <1> QED
    BY <1>2, <1>3

\* What is kept are detections, and the most prominent of them is among it.
LEMMA NmsKeepsStrongest ==
    ASSUME NEW D, IsFiniteSet(D), Scored(D), NEW g, KeptIn(g, D)
    PROVE  \A s \in SUBSET D :
              /\ g[s] \subseteq s
              /\ s # {} => \E m \in g[s] : \A e \in s : Strength(e) <= Strength(m)
  <1> DEFINE Keeps(s) ==
                /\ g[s] \subseteq s
                /\ s # {} => \E m \in g[s] : \A e \in s : Strength(e) <= Strength(m)
             Good == {s \in SUBSET D : Keeps(s)}
  <1>1. ASSUME NEW s \in SUBSET D, \A u \in SUBSET s : u # s => u \in Good
        PROVE  Keeps(s)
    <2>1. CASE s = {}
      BY <2>1 DEF KeptIn
    <2>2. CASE s # {}
      <3> DEFINE w == Weakest(s)
                 rest == s \ {w}
      <3>1. w \in s /\ \A e \in s : Strength(w) <= Strength(e)
        BY <2>2, WeakestIsElement
      <3>2. g[s] = Keeping(w, g[rest])
        BY <2>2 DEF KeptIn
      <3>3. rest \in SUBSET s /\ rest # s
        BY <3>1
      <3>4. Keeps(rest)
        BY <1>1, <3>3
      <3>5. \A e \in s : Strength(e) \in Int
        BY DEF Scored
      <3> HIDE DEF w
      <3>6. g[s] \in {g[rest], g[rest] \cup {w}}
        BY <3>2 DEF Keeping
      <3>7. g[s] \subseteq s
        BY <3>1, <3>4, <3>6
      <3>8. CASE rest = {}
        <4>1. g[rest] = {}
          BY <3>4, <3>8
        <4>2. g[s] = {w}
          BY <3>2, <4>1 DEF Keeping
        <4>3. \A e \in s : e = w
          BY <3>8
        <4> QED
          BY <3>5, <3>7, <4>2, <4>3
      <3>9. CASE rest # {}
        <4>1. PICK m \in g[rest] : \A e \in rest : Strength(e) <= Strength(m)
          BY <3>4, <3>9
        <4>2. m \in s /\ m \in g[s]
          BY <3>4, <3>6, <4>1
        <4>3. \A e \in s : Strength(e) <= Strength(m)
          BY <3>1, <4>1, <4>2
        <4> QED
          BY <3>7, <4>2, <4>3
      <3> QED
        BY <3>8, <3>9
    <2> QED
      BY <2>1, <2>2
  <1>2. ASSUME NEW s \in SUBSET D, \A u \in SUBSET s : u # s => u \in Good
        PROVE  s \in Good
    <2>1. Keeps(s)
      BY <1>1, <1>2
    <2> HIDE DEF Keeps
    <2> QED
      BY <2>1
  <1>3. Good \in SUBSET (SUBSET D)
    OBVIOUS
  <1>4. Good = SUBSET D
    <2> HIDE DEF Good
    <2> QED
      BY <1>2, <1>3, SetInduction
  <1> QED
    BY <1>4

\* What is detected in a scene is as prominent as anything that decodes there.
LEMMA DetectIsProminent ==
    ASSUME NEW s \in DOMAIN Scenes, NEW d \in Detect(Scenes[s].cells)
    PROVE  LET cells == {c \in Scenes[s].cells : Decodes(c)}
           IN  d \in cells /\ \A c \in cells : Strength(c) <= Strength(d)
  <1> DEFINE cells == {c \in Scenes[s].cells : Decodes(c)}
  <1>1. cells \subseteq Scenes[s].cells /\ IsFiniteSet(cells)
    BY FS_Subset, FaceAssumption
  <1>2. Scored(cells)
    <2>1. \A c \in cells : c.cls \in Int /\ c.obj \in Int
      BY <1>1, FaceAssumption
    <2> QED
      BY <2>1 DEF Scored, Strength, Clamped
  <1>3. Detect(Scenes[s].cells)
          = {c \in Nms(cells) : \A e \in Nms(cells) : Strength(c) >= Strength(e)}
    BY DEF Detect
  <1> HIDE DEF cells
  <1>4. PICK g : KeptIn(g, cells) /\ Nms(cells) = g[cells]
    BY <1>1, <1>2, NmsIs
  <1>5. /\ Nms(cells) \subseteq cells
        /\ cells # {} => \E m \in Nms(cells) :
                            \A e \in cells : Strength(e) <= Strength(m)
    BY <1>1, <1>2, <1>4, NmsKeepsStrongest
  <1>6. d \in cells /\ \A e \in Nms(cells) : Strength(d) >= Strength(e)
    BY <1>3, <1>5
  <1>7. PICK m \in Nms(cells) : \A e \in cells : Strength(e) <= Strength(m)
    BY <1>5, <1>6
  <1>8. \A e \in cells : Strength(e) \in Int
    BY <1>2 DEF Scored
  <1>9. m \in cells /\ Strength(m) <= Strength(d)
    BY <1>5, <1>6, <1>7, <1>8
  <1>10. \A e \in cells : Strength(e) <= Strength(d)
    BY <1>6, <1>7, <1>8, <1>9
  <1> QED
    BY <1>6, <1>10 DEF cells

\* A face that was located by a detector is the most prominent of its scene.
LEMMA LocatedIsProminent ==
    ASSUME NEW p, NEW s \in DOMAIN Scenes, NEW face \in Located(p, s), face.aligned
    PROVE  LET cells == {c \in Scenes[s].cells : Decodes(c)}
           IN  \E d \in cells : /\ d.shows = face.shows
                                /\ \A c \in cells : Strength(c) <= Strength(d)
  <1>1. PICK d \in Detect(Scenes[s].cells) : face.shows = d.shows
    <2>1. p.detector # "whole"
      BY DEF Located
    <2>2. Sights[s].faces = Detect(Scenes[s].cells)
      BY DEF Sights
    <2> QED
      BY <2>1, <2>2 DEF Located
  <1> QED
    BY <1>1, DetectIsProminent

\* Of however many detections, it is a most prominent one that is enrolled, tested
\* or compared: suppressing overlaps, from the strongest on, never loses all of
\* them (YuNetDetector::detect, nms).
THEOREM MostProminentIsJudged == FaceSpec => []ProminentFaceIsJudged
<1>1. FaceInit => ProminentFaceIsJudged
    BY DEF FaceInit, ProminentFaceIsJudged
<1>2. ProminentFaceIsJudged /\ [FaceNext]_allVars => ProminentFaceIsJudged'
    <2> SUFFICES ASSUME ProminentFaceIsJudged, [FaceNext]_allVars
                 PROVE  ProminentFaceIsJudged'
        OBVIOUS
    <2>1. \/ UNCHANGED look \/ look' = None
          \/ \E s \in DOMAIN Scenes : \E face \in Located(pipe, s) :
                look' = [scene |-> s, face |-> face]
        BY DEF FaceNext, FaceEnroll, FaceTest, GateBegin, PlainCommand,
           CaptureTemplate, TransactionStep, Match, GiveUp, TestCapture,
           OpenByFace, Outside, Starts, Done, Captures, allVars, faceVars
    <2>2. CASE UNCHANGED look \/ look' = None
        BY <2>2 DEF ProminentFaceIsJudged
    <2>3. ASSUME NEW s \in DOMAIN Scenes, NEW face \in Located(pipe, s),
                 look' = [scene |-> s, face |-> face]
          PROVE  ProminentFaceIsJudged'
        BY <2>3, LocatedIsProminent DEF ProminentFaceIsJudged
    <2> QED
        BY <2>1, <2>2, <2>3
<1> QED
    BY <1>1, <1>2, PTL DEF FaceSpec

=============================================================================

----------------------------- MODULE SealedProofs -----------------------------
(***************************************************************************)
(* Theorems about SealedBlob, for every number of seeds, tries, chunks and *)
(* failures: handles, the tries of the dictionary attack, the authValue of *)
(* the lockout hierarchy, and the files as AtomicFiles.                    *)
(***************************************************************************)
EXTENDS SealedBlob, TLAPS

-----------------------------------------------------------------------------
(* The TPM. *)

\* The handles a call holds before each of its commands.
Held ==
    CASE pc \in {"digest", "flush_trial"} -> {"trial"}
      [] pc \in {"create", "flush_create", "load", "change", "flush_change"} ->
            {"hmac"}
      [] pc = "flush_load" ->
            IF pending = "ok" THEN {"hmac", "object"} ELSE {"hmac"}
      [] pc \in {"start_policy", "flush_object"} -> {"object"}
      [] pc \in {"unseal", "flush_policy"} -> {"object", "policy"}
      [] OTHER -> {}

\* A try is on the way from TPM2_Unseal to the return of the call.
Owed ==
    IF pc \in {"flush_policy", "flush_object"} /\ pending = "wrong_pin" THEN 1 ELSE 0

\* pending is what the command before the flush came to.
PendingFollowsPC ==
    /\ pc = "flush_load" => pending # "wrong_pin"
    /\ pc = "flush_change" => pending \in {"ok", "lockout_auth"}
    /\ pc = "flush_change" /\ pending = "ok" => auth = arg
    /\ pc \in {"flush_trial", "flush_create"} => pending \in {"ok", "tpm"}

TpmInv ==
    /\ live \subseteq {"primary"} \cup unflushed \cup Held
    /\ spent = Owed
    /\ PendingFollowsPC
    /\ ChangeIsKnown

\* Every command of a call keeps the invariant.
LEMMA CallStepInv == ASSUME TpmInv, CallStep PROVE TpmInv'
  <1> USE DEF TpmInv, Held, Owed, PendingFollowsPC, ChangeIsKnown, chip, handles,
              loop, call, Goes, Returns, GoesOn, Unwinds, Yields, Outcome
  <1>1. CASE CollectRandom
    BY <1>1 DEF CollectRandom, ReadsOn
  <1>2. CASE StartTrial
    BY <1>2 DEF StartTrial
  <1>3. CASE PolicyDigest
    BY <1>3 DEF PolicyDigest
  <1>4. CASE FlushTrial
    BY <1>4 DEF FlushTrial, Flushes
  <1>5. CASE StartCreate
    BY <1>5 DEF StartCreate, StartsSession
  <1>6. CASE Create
    BY <1>6 DEF Create
  <1>7. CASE FlushCreate
    BY <1>7 DEF FlushCreate, Flushes
  <1>8. CASE VerifyPrimaryName
    BY <1>8 DEF VerifyPrimaryName
  <1>9. CASE StartLoad
    BY <1>9 DEF StartLoad, StartsSession
  <1>10. CASE Load
    BY <1>10 DEF Load
  <1>11. CASE FlushLoad
    <2>1. PICK r \in Outcome :
              /\ Flushes("hmac", r)
              /\ CASE r = "ok" -> Goes("start_policy")
                   [] r # "ok" /\ pending = "ok" -> Unwinds(r)
                   [] r # "ok" /\ pending # "ok" -> Returns(r)
      BY <1>11 DEF FlushLoad
    <2>2. CASE r = "ok"
      BY <1>11, <2>1, <2>2 DEF FlushLoad, Flushes
    <2>3. CASE r # "ok" /\ pending = "ok"
      BY <1>11, <2>1, <2>3 DEF FlushLoad, Flushes
    <2>4. CASE r # "ok" /\ pending # "ok"
      BY <1>11, <2>1, <2>4 DEF FlushLoad, Flushes
    <2> QED
      BY <2>2, <2>3, <2>4
  <1>12. CASE StartPolicy
    BY <1>12 DEF StartPolicy, StartsSession
  <1>13. CASE UnsealCommand
    BY <1>13 DEF UnsealCommand
  <1>14. CASE FlushPolicy
    BY <1>14 DEF FlushPolicy, Flushes
  <1>15. CASE FlushObject
    BY <1>15 DEF FlushObject, Flushes
  <1>16. CASE StartChange
    BY <1>16 DEF StartChange, StartsSession
  <1>17. CASE ChangeAuth
    BY <1>17 DEF ChangeAuth
  <1>18. CASE FlushChange
    BY <1>18 DEF FlushChange, Flushes
  <1>19. CASE Resync
    BY <1>19 DEF Resync
  <1>20. CASE PollReset
    BY <1>20 DEF PollReset
  <1> QED
    BY <1>1, <1>2, <1>3, <1>4, <1>5, <1>6, <1>7, <1>8, <1>9, <1>10, <1>11,
       <1>12, <1>13, <1>14, <1>15, <1>16, <1>17, <1>18, <1>19, <1>20 DEF CallStep

\* As does a call that begins, holding and owing nothing.
LEMMA BeginCallInv == ASSUME TpmInv, BeginCall PROVE TpmInv'
  <1> USE DEF TpmInv, Held, Owed, PendingFollowsPC, ChangeIsKnown, chip, handles,
              loop, call, Begins, Returns, Tries, Ready
  <1>1. CASE OpenContext \/ DropSealer
    BY <1>1 DEF OpenContext, DropSealer
  <1>2. CASE GenerateKey \/ Seal \/ Unseal
    BY <1>2 DEF GenerateKey, Seal, Unseal
  <1>3. CASE PinHolderRecover
    BY <1>3 DEF PinHolderRecover
  <1>4. CASE SetLockoutAuth
    BY <1>4 DEF SetLockoutAuth
  <1>5. CASE ResetLockout
    BY <1>5 DEF ResetLockout
  <1> QED
    BY <1>1, <1>2, <1>3, <1>4, <1>5 DEF BeginCall

\* Only a call changes anything this is about, but for a TPM that is cleared
\* between two calls, and a process that dies with its context.
LEMMA TpmStepInv == TpmInv /\ [Next]_vars => TpmInv'
  <1> SUFFICES ASSUME TpmInv, [Next]_vars PROVE TpmInv'
    OBVIOUS
  <1> USE DEF tpmVars, chip, handles, loop, call
  <1>1. CASE UNCHANGED tpmVars
    BY <1>1 DEF TpmInv, Held, Owed, PendingFollowsPC, ChangeIsKnown
  <1>2. CASE LoadMetadata
    BY <1>2 DEF LoadMetadata, TpmInv, Held, Owed, PendingFollowsPC, ChangeIsKnown
  <1>3. CASE TpmStep
    <2>1. CASE ChildRuns
      BY <2>1 DEF ChildRuns, TpmInv, Held, Owed, PendingFollowsPC, ChangeIsKnown
    <2> QED
      BY <1>3, <2>1, CallStepInv, BeginCallInv DEF TpmStep
  <1>4. CASE ChipStep
    BY <1>4 DEF ChipStep, Chip, ChipChanges, ClearTpm, TpmInv, Held, Owed,
                PendingFollowsPC, ChangeIsKnown
  <1>5. CASE Crash \/ PowerCut
    BY <1>5 DEF Crash, PowerCut, ForgetsCall, TpmInv, Held, Owed,
                PendingFollowsPC, ChangeIsKnown
  <1> QED
    BY <1>1, <1>2, <1>3, <1>4, <1>5 DEF Next, vars, Save, FileStep

\* What a call holds and owes at each of its commands.
THEOREM TpmInvAlways == Spec => []TpmInv
  <1>1. Init => TpmInv
    BY DEF Init, TpmInit, TpmInv, Held, Owed, PendingFollowsPC, ChangeIsKnown
  <1> QED
    BY <1>1, TpmStepInv, PTL DEF Spec

\* Whichever command failed, and whether or not a flush did, the TPM keeps
\* nothing of a call that has returned except what it would not flush.
THEOREM NothingIsLeft == Spec => []HandlesFlushed
  <1>1. TpmInv => HandlesFlushed
    BY DEF TpmInv, Held, HandlesFlushed
  <1> QED
    BY <1>1, TpmInvAlways, PTL

\* The reports of a wrong PIN are as many as the tries that were spent.
THEOREM TriesAreReported == Spec => []EveryTryIsReported
  <1>1. TpmInv => EveryTryIsReported
    BY DEF TpmInv, Owed, EveryTryIsReported
  <1> QED
    BY <1>1, TpmInvAlways, PTL

\* A change of the lockout authValue that is taken for one is one.
THEOREM KnownChange == Spec => []ChangeIsKnown
  <1>1. TpmInv => ChangeIsKnown
    BY DEF TpmInv
  <1> QED
    BY <1>1, TpmInvAlways, PTL

-----------------------------------------------------------------------------
(* The files. *)

\* A save works with a content, and acknowledges nothing before it is over; the
\* contents of its temporary are durable before it is renamed.
FilesInv ==
    /\ kind \in Kind
    /\ seed \in Seed /\ sealed \in Seed \cup {NoObject}
    /\ step # "idle" => content \in Content /\ saved = FALSE
    /\ step = "rename" => temp = "whole"

USE DEF Kind

\* What is sealed, and so what is saved, is a seed.
LEMMA SealedIsSeed ==
    ASSUME FilesInv, [Next]_vars
    PROVE  sealed' \in Seed \cup {NoObject} /\ seed' \in Seed
  <1> USE DEF FilesInv, tpmVars, chip, handles, loop, call
  <1>1. CASE UNCHANGED tpmVars
    BY <1>1
  <1>2. CASE LoadMetadata
    BY <1>2, BlobAssumption DEF LoadMetadata
  <1>3. CASE TpmStep
    <2>1. CASE BeginCall
      BY <2>1 DEF BeginCall, OpenContext, DropSealer, GenerateKey, Seal, Unseal,
                  PinHolderRecover, SetLockoutAuth, ResetLockout
    <2>2. CASE CallStep
      BY <2>2 DEF CallStep, CollectRandom, StartTrial, PolicyDigest, FlushTrial,
                  StartCreate, Create, FlushCreate, VerifyPrimaryName, StartLoad,
                  Load, FlushLoad, StartPolicy, UnsealCommand, FlushPolicy,
                  FlushObject, StartChange, ChangeAuth, FlushChange, Resync,
                  PollReset
    <2> QED
      BY <1>3, <2>1, <2>2 DEF TpmStep, ChildRuns
  <1>4. CASE ChipStep
    BY <1>4, TpmAssumption DEF ChipStep, Chip, ChipChanges, ClearTpm, Seed
  <1>5. CASE Crash \/ PowerCut
    BY <1>5 DEF Crash, PowerCut, ForgetsCall
  <1> QED
    BY <1>1, <1>2, <1>3, <1>4, <1>5 DEF Next, vars, Save, FileStep

\* A step of a save is one of an AtomicFile, or none of its business.
LEMMA SaveStepAtomic ==
    ASSUME FilesInv, SaveStep
    PROVE  /\ Atomic!Next \/ UNCHANGED <<file, disk, saved>>
           /\ kind' \in Kind
           /\ step' # "idle" => content' \in Content /\ saved' = FALSE
           /\ step' = "rename" => temp' = "whole"
  <1> USE DEF FilesInv, Does, Ends, Fails, FailsRemoving, Atomic!Next, Atomic!Put,
              Atomic!Acknowledge, Atomic!Forget
  <1>1. CASE NameTaken
    BY <1>1 DEF NameTaken
  <1>2. CASE CreateTemp
    BY <1>2 DEF CreateTemp
  <1>3. CASE WriteTemp \/ SyncTemp
    BY <1>3 DEF WriteTemp, SyncTemp, WriteFails
  <1>4. CASE Rename
    BY <1>4 DEF Rename
  <1>5. CASE SyncDir
    BY <1>5 DEF SyncDir
  <1> QED
    BY <1>1, <1>2, <1>3, <1>4, <1>5 DEF SaveStep

\* As is every step of the client.
LEMMA FilesStep ==
    ASSUME FilesInv, [Next]_vars
    PROVE  /\ FilesInv'
           /\ Atomic!Next \/ UNCHANGED <<file, disk, saved>>
  <1>s. sealed' \in Seed \cup {NoObject} /\ seed' \in Seed
    BY SealedIsSeed
  <1>1. CASE UNCHANGED fileVars
    BY <1>1, <1>s DEF fileVars, FilesInv
  <1>2. CASE Save
    BY <1>2, <1>s, BlobAssumption
       DEF Save, BeginSave, Ends, FilesInv, Atomic!Next, Atomic!Forget
  <1>3. CASE FileStep
    BY <1>3, <1>s, SaveStepAtomic DEF FileStep, FilesInv
  <1>4. CASE Crash \/ PowerCut
    BY <1>4, <1>s DEF Crash, PowerCut, KillSaver, LosePower, Dies, Ends, FilesInv,
                      fileVars, Atomic!Next, Atomic!Forget, Atomic!LosePower
  <1> QED
    BY <1>1, <1>2, <1>3, <1>4
       DEF Next, vars, LoadMetadata, TpmStep, ChipStep

\* Every file is an AtomicFile, whoever writes it and whenever power is lost.
THEOREM FilesAreAtomic == Spec => FilesAtomic
  <1>1. Init => FilesInv /\ Atomic!Init
    BY TpmAssumption
       DEF Init, TpmInit, FilesInit, FilesInv, Seed, NoObject, Atomic!Init
  <1>2. FilesInv /\ [Next]_vars =>
            FilesInv' /\ [Atomic!Next]_<<file, disk, saved>>
    BY FilesStep
  <1> QED
    BY <1>1, <1>2, PTL DEF Spec, FilesAtomic, Atomic!Spec
=============================================================================

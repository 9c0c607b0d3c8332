------------------------------ MODULE SealedBlob ------------------------------
(***************************************************************************)
(* A sealed object on its way to the disk and back: one client that calls  *)
(* TpmAccess and SealedFiles in turn.  What it saves is the object it has  *)
(* in memory; what it loads it may unseal.  It may be killed, and power    *)
(* may be lost, between any two steps of either.                           *)
(***************************************************************************)
EXTENDS TpmAccess, SealedFiles

\* What is saved is the seed an object was made under.
ASSUME BlobAssumption == Content = Seed

vars == <<tpmVars, fileVars>>

TypeOK == TpmTypeOK /\ FilesTypeOK

Init == TpmInit /\ FilesInit

Calm == pc = "idle" /\ step = "idle"

\* The metadata hold the object; another file is of the same enrollment.
Save ==
    /\ Calm /\ sealed # NoObject
    /\ BeginSave(sealed)
    /\ UNCHANGED tpmVars

\* load and from_metadata: what is no whole file of this version, with a
\* supported policy and a pinned Name, is an error and no object.
LoadMetadata ==
    /\ Calm /\ kind = "metadata"
    /\ sealed' = IF file \in Content THEN file ELSE NoObject
    /\ UNCHANGED <<chip, handles, call, child, spent, fileVars>>

TpmStep ==
    /\ step = "idle"
    /\ BeginCall \/ CallStep \/ ChildRuns
    /\ UNCHANGED fileVars

FileStep == SaveStep /\ UNCHANGED tpmVars

ChipStep == Chip /\ UNCHANGED fileVars

\* What dies with the process: its context, its child is orphaned and ends.
ForgetsCall ==
    /\ live' = {} /\ unflushed' = {} /\ sealed' = NoObject
    /\ pending' = "none" /\ child' = "none" /\ part' = 0 /\ empty' = 0
    /\ pc' = "idle" /\ arg' = "none" /\ spent' = 0

Crash ==
    /\ ~Calm
    /\ KillSaver \/ (step = "idle" /\ UNCHANGED fileVars)
    /\ ForgetsCall
    /\ UNCHANGED chip

PowerCut == LosePower /\ ForgetsCall /\ UNCHANGED chip

Next ==
    \/ Save \/ LoadMetadata \/ TpmStep \/ FileStep \/ ChipStep
    \/ Crash \/ PowerCut

Spec == Init /\ [][Next]_vars

\* The client is scheduled.
FairSpec == Spec /\ WF_vars(TpmStep /\ pc # "idle") /\ WF_vars(FileStep)
=============================================================================

----------------------------- MODULE FaceAccount ------------------------------
(***************************************************************************)
(* The commands of Tess with what is in front of the camera: enrollment    *)
(* captures a template, and an unlock by face is an unlock with the key    *)
(* sealed for the face once a capture has been found to match.  A template *)
(* outlives the enrollment it was made in when a crash, a failure or an    *)
(* unenrollment that cannot find the store leaves it.                      *)
(***************************************************************************)
EXTENDS Tess, FaceSetup

CONSTANTS
    Self,       \* the user whose keyring it is
    Others,     \* the templates of other users in the same store
    Shells,     \* the environments tess is run in
    Helpers     \* the environments the PAM module runs its helper in

\* A shell names its own user, or nobody the store can have; the PAM module
\* hands on whom it authenticates.  A scene has finitely many cells, a
\* configuration all the limits of the liveness gates, and no model is called
\* what the detector is that takes the whole scene.
ASSUME FaceAssumption ==
    /\ Self \notin DOMAIN Others /\ Named(Self)
    /\ \A e \in Shells : UserPathResolves(e) => CurrentUsername(e) = Self
    /\ \A e \in Helpers : e.faceUser = Self
    /\ \A s \in DOMAIN Scenes :
          /\ IsFiniteSet(Scenes[s].cells)
          /\ \A c \in Scenes[s].cells : {c.cls, c.obj} \subseteq Int
    /\ "defaults" \in DOMAIN Configs
    /\ \A c \in DOMAIN Configs :
          {"min_mean_delta", "min_delta_std", "min_gradient_energy",
           "max_baseline_for_live", "emission_min_delta",
           "max_saturated_fraction"} \subseteq DOMAIN Configs[c].liveness
    /\ \A e \in Shells \cup Helpers : ConfigLoads(e) => DetectorPath(e) # "whole"

VARIABLES
    templates,  \* the store, a file per user
    pipe,       \* the pipeline of the running face command
    template,   \* the template it has captured or loaded
    gate,       \* where it is, outside the transaction
    look,       \* its last capture: what was seen, and the face judged
    opened      \* the last step opened the keyring by face: on what grounds

faceVars == <<templates, pipe, template, gate, look, opened>>
allVars == <<vars, faceVars>>

User == {Self} \cup DOMAIN Others

FaceTypeOK ==
    /\ TypeOK
    /\ DOMAIN templates = User
    /\ gate \in {"none", "enroll", "match", "accepted", "reference", "probe"}
    /\ gate = "none" => pipe = None /\ template = None /\ look = None

\* The lockout hierarchy has another owner: binding it is the subject of Tess.
FaceInit ==
    /\ Init /\ lockout = Foreign
    /\ templates = [u \in User |-> IF u = Self THEN None ELSE Others[u]]
    /\ pipe = None /\ template = None /\ gate = "none"
    /\ look = None /\ opened = None

-----------------------------------------------------------------------------

Starts(next, p) ==
    /\ gate' = next /\ pipe' = p
    /\ look' = None /\ opened' = None

Done ==
    /\ gate' = "none" /\ pipe' = None /\ template' = None
    /\ look' = None /\ opened' = None

\* tess enroll --face in e: everything it needs is built before the transaction.
FaceEnroll(e) ==
    /\ gate = "none"
    /\ StoreResolves(e) /\ Set(CurrentUsername(e)) /\ Builds(e, FALSE)
    /\ EnrollBegin
    /\ IF pc' = "backup" THEN Starts("enroll", Pipeline(e, FALSE)) /\ template' = None
       ELSE Done
    /\ UNCHANGED templates

\* The commands that touch the face artifacts without a face; unlock and recover
\* do not, and what locks the keyring or the TPM leaves them alone (Tess).
PlainCommand ==
    /\ gate = "none"
    /\ EnrollBegin \/ UnenrollBegin
    /\ Done /\ UNCHANGED templates

Captures(scene, face) == look' = [scene |-> scene, face |-> face]

\* capture_template: live, a face to align, an embedding; nothing is written
\* before, and what fails rolls back.
CaptureTemplate ==
    /\ pc = "face_seal" /\ template = None
    /\ UNCHANGED <<templates, pipe, gate>> /\ opened' = None
    /\ UNCHANGED <<keyring, files, tpm, shown>>
    /\ \/ \E s \in DOMAIN Scenes, lit \in BOOLEAN :
             /\ LiveAt(pipe, s, lit, pipe.config.liveness.score_threshold)
             /\ \E face \in Located(pipe, s) :
                   /\ template' =
                        [emb |-> Embeds(pipe, face), by |-> key,
                         score |-> pipe.config.liveness.score_threshold,
                         threshold |-> pipe.config.match_threshold,
                         mocked |-> pipe.mocked]
                   /\ Captures(s, face)
             /\ UNCHANGED command
       \/ Goto("restore") /\ UNCHANGED <<template, look>>

\* Mutant: an enrolled face is not enrolled again.
TemplateOnce ==
    /\ pc = "template"
    /\ \/ StoreTemplate
       \/ /\ templates[Self] # None
          /\ Saves("template", key) /\ tx' = tx \cup {"template"} /\ pc' = "bind"
          /\ UNCHANGED <<keyring, marker, tpm, shown, key, report>>
    /\ templates' = IF templates[Self] = None /\ disk'["template"] = key
                    THEN [templates EXCEPT ![Self] = template] ELSE templates

\* EnrollStore::save replaces what was there, under a name that can be one.
SaveTemplate ==
    /\ pc = "template"
    /\ StoreTemplate
    /\ ~OneComponent(pipe.user) => pc' = "restore" /\ disk' = disk
    /\ templates' = IF disk'["template"] = key
                    THEN [templates EXCEPT ![Self] = template] ELSE templates

\* Any other step of a command; it removes the template if it removes its file.
\* The face leg of the transaction is taken with --face, and with it only.
OtherStep ==
    /\ pc # "template"
    /\ Step
    /\ pc = "seal" => pc' # (IF gate = "enroll" THEN "bind" ELSE "face_seal")
    /\ pc = "face_seal" => template # None
    /\ templates' = IF disk'["template"] = None
                    THEN [templates EXCEPT ![Self] = None] ELSE templates

TransactionStep ==
    /\ SaveTemplate \/ OtherStep
    /\ IF pc' = "idle" THEN Done
       ELSE UNCHANGED <<pipe, template, gate, look>> /\ opened' = None

\* try_face_unlock, and face_front_unlock of the helper, up to the match: all
\* the artifacts are there, the template loads, the pipeline builds.
GateBegin(e) ==
    /\ pc = "idle" /\ gate = "none"
    /\ \A f \in {"metadata", "metadata_face", "face_key"} : Present(f)
    /\ UserPathResolves(e)
    /\ templates[CurrentUsername(e)] # None
    /\ template' = templates[CurrentUsername(e)]
    /\ Builds(e, FALSE) /\ Starts("match", Pipeline(e, FALSE))
    /\ UNCHANGED <<vars, templates>>

\* Mutant: the threshold in the configuration of who unlocks.
MatchAsConfigured ==
    /\ gate = "match"
    /\ UNCHANGED <<vars, templates>>
    /\ \/ \E s \in DOMAIN Scenes, lit \in BOOLEAN :
             /\ LiveAt(pipe, s, lit, template.score)
             /\ \E face \in Located(pipe, s) :
                   /\ \E d \in Distances(Embeds(pipe, face), template.emb) :
                         d <= pipe.config.match_threshold
                   /\ Captures(s, face)
             /\ gate' = "accepted" /\ opened' = None
             /\ UNCHANGED <<pipe, template>>
       \/ Done

\* verify, all its frames as one; both thresholds are those of the enrollment.
Match ==
    /\ gate = "match"
    /\ UNCHANGED <<vars, templates>>
    /\ \/ \E s \in DOMAIN Scenes, lit \in BOOLEAN :
             /\ LiveAt(pipe, s, lit, template.score)
             /\ \E face \in Located(pipe, s) :
                   /\ \E d \in Distances(Embeds(pipe, face), template.emb) :
                         d <= template.threshold
                   /\ Captures(s, face)
             /\ gate' = "accepted" /\ opened' = None
             /\ UNCHANGED <<pipe, template>>
       \/ Done

\* unlock_with_face.
OpenByFace ==
    /\ gate = "accepted"
    /\ UnlockWithFace
    /\ gate' = "none" /\ pipe' = None /\ template' = None /\ look' = None
    /\ opened' = IF report' = "unlocked"
                 THEN [template |-> template, seen |-> look, pipe |-> pipe]
                 ELSE None
    /\ UNCHANGED templates

GiveUp ==
    /\ gate \in {"match", "accepted", "reference", "probe"}
    /\ Done /\ UNCHANGED <<vars, templates>>

\* tess face-test: two captures, compared; the mock will do.
FaceTest(e) ==
    /\ pc = "idle" /\ gate = "none"
    /\ Builds(e, TRUE) /\ Starts("reference", Pipeline(e, TRUE))
    /\ template' = None
    /\ UNCHANGED <<vars, templates>>

\* A capture that is not live ends the test; the first one is the reference.
TestCapture ==
    /\ gate \in {"reference", "probe"}
    /\ \E s \in DOMAIN Scenes, lit \in BOOLEAN :
          /\ LiveAt(pipe, s, lit, pipe.config.liveness.score_threshold)
          /\ \E face \in Located(pipe, s) :
                IF gate = "reference"
                THEN /\ gate' = "probe" /\ Captures(s, face)
                     /\ template' = Embeds(pipe, face)
                     /\ opened' = None /\ UNCHANGED pipe
                ELSE /\ Distances(Embeds(pipe, face), template) # {}
                     /\ Done
    /\ UNCHANGED <<vars, templates>>

Outside ==
    \/ Crash /\ Done /\ UNCHANGED templates
    \/ /\ RemoveStaleBlobs /\ opened' = None
       /\ UNCHANGED <<templates, pipe, template, gate, look>>

FaceNext ==
    \/ \E e \in Shells : FaceEnroll(e) \/ FaceTest(e)
    \/ \E e \in Shells \cup Helpers : GateBegin(e)
    \/ PlainCommand \/ CaptureTemplate \/ TransactionStep
    \/ Match \/ OpenByFace \/ GiveUp \/ TestCapture \/ Outside

FaceSpec == FaceInit /\ [][FaceNext]_allVars

-----------------------------------------------------------------------------
(* Properties. *)

\* A template accepts a distance at which its model still tells faces apart:
\* nothing checks the threshold it was enrolled with.
Loose(t) == \E d \in Distance : Separation <= d /\ d <= t.threshold

\* A face opens the keyring only if it is the enrolled one, whatever threshold
\* the configuration has now, unless the one at the enrollment was too loose, or
\* somebody let the mock stand in, then or now, or put another model in place of
\* the one it was enrolled with: the template does not say which it was
\* (build_matcher, build_detector, cosine_distance, decide_match).
StrangerStaysOut ==
    opened # None =>
        \/ opened.seen.face.shows = opened.template.emb.of
        \/ Loose(opened.template)
        \/ opened.template.mocked \/ opened.pipe.mocked
        \/ opened.template.emb.by # opened.pipe.matcher.by

\* The template a face is judged by was captured in the enrollment that sealed
\* the key it opens, not in an earlier one of which it is left over
\* (commit_face, EnrollStore::save, remove_blobs).
OpenedByItsEnrollment == opened # None => opened.template.by = cred

\* Neither a picture nor a screen is enrolled or opens anything, however low
\* the score is set: the gates before it do not depend on it (analyze).
SpoofStaysOut ==
    /\ look # None => Scenes[look.scene].live
    /\ opened # None => Scenes[opened.seen.scene].live

\* Of several faces it is the most prominent one that is judged: suppressing
\* overlaps never loses it (YuNetDetector::detect).
ProminentFaceIsJudged ==
    look # None /\ look.face.aligned =>
        LET cells == {c \in Scenes[look.scene].cells : Decodes(c)}
        IN  \E d \in cells :
                /\ d.shows = look.face.shows
                /\ \A c \in cells : Strength(c) <= Strength(d)

-----------------------------------------------------------------------------
(***************************************************************************)
(* The inductive invariants behind the properties.                         *)
(***************************************************************************)

\* Whenever the face object of a key can open the keyring the template on disk
\* is of that key: the face leg of the transaction saves it last.
LegInv ==
    /\ pc \in {"backup", "seal"} => disk["metadata_face"] = None
    /\ pc \in {"bind", "mark", "rekey", "check", "reinstate"}
             /\ disk["metadata_face"] # None => disk["template"] = key
    /\ cred \in Key /\ disk["metadata_face"] # None => disk["template"] = cred

\* Only an enrollment with --face gets to the face leg, and only between two
\* commands is a face looked at to open something.
FaceLeg == {"face_seal", "face_key", "template"}
GatesInv ==
    /\ pc \in FaceLeg => gate = "enroll"
    /\ gate = "enroll" /\ pc \in {"backup", "seal"} => template = None
    /\ pc \in {"face_key", "template"} => template # None
    /\ gate \in {"match", "accepted", "reference", "probe"} => pc = "idle"

\* The template in hand is of the key it may open.
TemplateInv ==
    /\ templates[Self] = None \/ templates[Self].by = disk["template"]
    /\ pc \in FaceLeg /\ template # None => template.by = key
    /\ gate \in {"match", "accepted"} /\ cred \in Key /\ Present("metadata_face")
          => template.by = cred
    /\ OpenedByItsEnrollment

\* Where the mock was not allowed, a model is asked about an aligned face; and a
\* face that is accepted was compared with the template.
Modelled(p) == p.mocked \/ (p.matcher.by # Mock /\ p.detector # "whole")
Trusted(t) == t.mocked \/ t.emb.aligned
Matches(t, l, p) ==
    \/ l.face.shows = t.emb.of \/ Loose(t)
    \/ t.mocked \/ p.mocked \/ t.emb.by # p.matcher.by

MatchInv ==
    /\ gate # "none" => Modelled(pipe)
    /\ templates[Self] = None \/ Trusted(templates[Self])
    /\ pc \in FaceLeg /\ template # None => Trusted(template)
    /\ gate \in {"match", "accepted"} => Trusted(template)
    /\ gate = "accepted" => Matches(template, look, pipe)
    /\ StrangerStaysOut

\* The gates before the score reject every scene that is not live, in every
\* configuration; and what is looked at has passed those of a configuration.
SpoofsRejected ==
    \A s \in DOMAIN Scenes, c \in DOMAIN Configs :
        Scenes[s].live \/
            \A seen \in {Sights[s].lit, Sights[s].dark} :
                \E g \in {"weak", "screen", "glare", "flat", "smooth"} :
                    Rejects(g, seen, Configs[c].liveness)

SpoofInv ==
    /\ gate # "none" => pipe.config \in {Configs[c] : c \in DOMAIN Configs}
    /\ gate = "accepted" => Scenes[look.scene].live
    /\ SpoofStaysOut
=============================================================================

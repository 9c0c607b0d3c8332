------------------------------ MODULE FaceSetup -------------------------------
(***************************************************************************)
(* tess-cli/face.rs and mug/store.rs, config.rs: what a face command finds *)
(* in its environment and makes of it.  An environment is a record of what *)
(* its variables say and of what is attached; every failure has one        *)
(* outcome, that the face factor is unavailable.                           *)
(***************************************************************************)
EXTENDS IrPipeline

CONSTANTS
    Unset,      \* a variable that is not in the environment, a key not given
    Configs,    \* what is in the files MUG_CONFIG may name, "defaults" besides
    Models,     \* what is under the paths of the models
    Scenes      \* what the camera may see: one frame unlit, one lit, and what
                \* the detector makes of the lit one

Set(v) == v # Unset

\* The first of a sequence of candidates that will do, Unset if none does.
FirstOf(candidates, Will(_)) ==
    LET fit == {i \in DOMAIN candidates : Will(candidates[i])}
    IN  IF fit = {} THEN Unset ELSE candidates[Min(fit)]

Named(v) == Set(v) /\ v # ""

\* current_username: the user PAM resolved comes first.
CurrentUsername(e) == FirstOf(<<e.faceUser, e.user, e.logname>>, Named)

\* EnrollStore::default_location and user_path: a relative path is as good as
\* none, and a name must be one component of a path.
StoreResolves(e) ==
    "absolute" \in {e.storeDir, e.xdgData, e.home}

OneComponent(name) == name \notin {"", ".", "..", "a/b", "/a"}

UserPathResolves(e) ==
    /\ StoreResolves(e)
    /\ Set(CurrentUsername(e)) /\ OneComponent(CurrentUsername(e))

\* load_config: a file that is named must be a whole configuration.
ConfigLoads(e) == Set(e.config) => e.config \in DOMAIN Configs
Config(e) == Configs[IF Set(e.config) THEN e.config ELSE "defaults"]

\* find_brio_ir_node: by its name, and by the format it offers when it can be
\* opened; one that cannot does not end the search.
IrNode(e) ==
    FirstOf(e.videos, LAMBDA n : n.brio /\ n.offers = "grey")

\* V4l2IrDevice::open and MmapStream::start: the driver may grant another format
\* or size than it is asked for, or no buffers.
StreamOpens(n) == n.grants = <<"grey", 340, 340>> /\ n.buffers > 0

\* select_backend and resolve_backend: hardware asked for wins, then the virtual
\* substrate, then a camera if one is found.
Backend(e) ==
    CASE e.backend = "hardware" -> "hardware"
      [] e.backend = "virtual" -> IF e.substrate THEN "virtual" ELSE "none"
      [] e.backend \in {Unset, "", "auto"} ->
            IF e.substrate THEN "virtual"
            ELSE IF Set(IrNode(e)) THEN "hardware" ELSE "none"
      [] OTHER -> "none"

\* parse_hex_payload: an even number of digits, nothing else but separators.
PayloadParses(p) ==
    /\ p.len <= 256 /\ p.onlyHex
    /\ p.digits > 0 /\ p.digits % 2 = 0

\* parse_hex_u8.
ByteParses(b) == b.len <= 64 /\ b.value \in 0..255

\* validate_device_node, on the path with its links resolved.
IsVideoNode(n) == n.exists /\ n.underDev /\ n.videoName /\ n.charDevice

\* emitter_env_configured: SET_CUR only for who asks for it, by any of the five.
EmitterConfigured(e) ==
    \E v \in {"on", "off", "unit", "selector", "node"} : Set(e.emitter[v])

EmitterOpens(e) ==
    /\ \A v \in {"on", "off"} : Set(e.emitter[v]) => PayloadParses(e.emitter[v])
    /\ \A v \in {"unit", "selector"} : Set(e.emitter[v]) => ByteParses(e.emitter[v])
    /\ Set(e.emitter.node) => ~e.emitter.node.empty /\ IsVideoNode(e.emitter.node)

\* build_hardware_backend and split_from_env.
CaptureOpens(e) ==
    \/ Backend(e) = "virtual"
    \/ /\ Backend(e) = "hardware"
       /\ Set(IrNode(e)) /\ StreamOpens(IrNode(e))
       /\ EmitterConfigured(e) => EmitterOpens(e)

\* A configured path comes before the variable.
ModelPath(e) == IF Set(Config(e).model) THEN Config(e).model ELSE e.model
DetectorPath(e) ==
    IF Set(Config(e).detector) THEN Config(e).detector ELSE e.detector

\* mock_face_allowed: exactly "1".
MockFaceAllowed(e) == e.allowMock = "1"

\* Mutant: without a model the mock stands in.
MatcherOrMock(e, allowMock) ==
    IF Set(ModelPath(e)) /\ e.faceModel
    THEN IF LoadsExtractor(Models[ModelPath(e)], Config(e).scale)
         THEN [by |-> <<ModelPath(e), Config(e).scale>>,
               len |-> Elements(Models[ModelPath(e)].output)]
         ELSE Unset
    ELSE [by |-> Mock, len |-> MockDim]

\* build_matcher: a path that does not load is an error, not a reason for the
\* mock; the mock stands in only where it is allowed.
Matcher(e, allowMock) ==
    IF Set(ModelPath(e)) /\ e.faceModel
    THEN IF LoadsExtractor(Models[ModelPath(e)], Config(e).scale)
         THEN [by |-> <<ModelPath(e), Config(e).scale>>,
               len |-> Elements(Models[ModelPath(e)].output)]
         ELSE Unset
    ELSE IF allowMock \/ MockFaceAllowed(e)
         THEN [by |-> Mock, len |-> MockDim]
         ELSE Unset

\* build_detector, likewise: "whole" looks at the whole scene.
Detector(e, allowMock) ==
    IF Set(DetectorPath(e)) /\ e.faceModel
    THEN IF LoadsDetector(Models[DetectorPath(e)]) THEN DetectorPath(e) ELSE Unset
    ELSE IF allowMock \/ MockFaceAllowed(e) THEN "whole" ELSE Unset

\* The pipeline a command captures with.
Builds(e, allowMock) ==
    /\ ConfigLoads(e) /\ CaptureOpens(e)
    /\ Set(Matcher(e, allowMock)) /\ Set(Detector(e, allowMock))

Pipeline(e, allowMock) ==
    [user |-> CurrentUsername(e),
     matcher |-> Matcher(e, allowMock),
     detector |-> Detector(e, allowMock),
     config |-> Config(e),
     mocked |-> allowMock \/ MockFaceAllowed(e)]

-----------------------------------------------------------------------------

\* What there is to a scene.
Sights ==
    [s \in DOMAIN Scenes |->
        [lit |-> LivenessFeatures(Scenes[s].off, Scenes[s].on),
         dark |-> LivenessFeatures(Scenes[s].off, Scenes[s].off),
         faces |-> Detect(Scenes[s].cells)]]

\* The face that is judged in a scene: the detection that is aligned, or the
\* whole scene.  None when nothing is found, or it is an error.
Located(p, s) ==
    IF p.detector = "whole"
    THEN {[shows |-> Scenes[s].kind, aligned |-> FALSE]}
    ELSE {[shows |-> d.shows, aligned |-> TRUE] : d \in
            {c \in Sights[s].faces : Models[p.detector].yunet /\ Aligns(c)}}

\* capture_liveness_pair and analyze: the lamp may not light the scene.  The
\* score is the one a template was enrolled with, or is about to be.
LiveAt(p, s, lit, score) ==
    FirstFailingGate(IF lit THEN Sights[s].lit ELSE Sights[s].dark,
                     [p.config.liveness EXCEPT !.score_threshold = score])
        = "none"

Embeds(p, face) ==
    Embedding(p.matcher.by, p.matcher.len, face.shows, face.aligned)
=============================================================================

---------------------------- MODULE MCFaceAccount -----------------------------
(* FaceAccount for TLC: frames of nine pixels that differ in the one gate     *)
(* that tells them apart, and the environments that differ in one variable.   *)
EXTENDS FaceAccount

KeySymmetry == Permutations(Key)

Levels(s) == [p \in Pixel |-> s[p[1] + 3 * (p[2] - 1)]]
Uniform(n) == [p \in Pixel |-> n]

Cell(shows, x, cls, marks) ==
    [shows |-> shows, cls |-> cls, obj |-> 90, x |-> x, y |-> 0, w |-> 40,
     h |-> 40, marks |-> marks]

AFace == <<140, 60, 30, 90, 150, 40, 30, 80, 120>>

Scene(live, kind, off, on, cells) ==
    [live |-> live, kind |-> kind, off |-> off, on |-> on, cells |-> cells]

\* ada twice, bob, both, a face too weak, broken cells; then a screen, a print
\* with relief, a glossy one, a reflection, a distant screen.
SceneSet ==
    [ada |-> Scene(TRUE, "room", Uniform(20), Levels(AFace),
                {Cell("ada", 0, 95, "face"), Cell("ada", 8, 80, "face")}),
     bob |-> Scene(TRUE, "room", Uniform(10), Levels(AFace),
                {Cell("bob", 0, 90, "face")}),
     both |-> Scene(TRUE, "room", Uniform(20), Levels(AFace),
                {Cell("ada", 0, 85, "face"), Cell("bob", 20, 120, "face"),
                 Cell("ada", 30, 70, "face")}),
     dim |-> Scene(TRUE, "room", Uniform(10),
                Levels(<<20, 10, 60, 30, 20, 10, 55, 10, 10>>),
                {Cell("bob", 0, 90, "face")}),
     broken |-> Scene(TRUE, "room", Uniform(20), Levels(AFace),
                {Cell("bob", 0, NotFinite, "face"), Cell("bob", 9, 90, "mirrored")}),
     screen |-> Scene(FALSE, "room", Uniform(120),
                Levels(<<160, 130, 120, 150, 170, 124, 120, 140, 120>>),
                {Cell("ada", 0, 95, "face")}),
     textured |-> Scene(FALSE, "room", Uniform(20),
                Levels(<<110, 80, 110, 80, 110, 80, 110, 80, 110>>),
                {Cell("ada", 0, 95, "face")}),
     glossy |-> Scene(FALSE, "room", Uniform(120),
                Levels(<<145, 145, 145, 145, 145, 145, 145, 145, 240>>),
                {Cell("ada", 0, 95, "face")}),
     glare |-> Scene(FALSE, "room", Uniform(20),
                Levels(<<250, 250, 30, 250, 255, 30, 250, 20, 20>>),
                {Cell("ada", 0, 95, "face")}),
     distant |-> Scene(FALSE, "room", Uniform(20),
                Levels(<<20, 20, 20, 20, 110, 20, 20, 20, 20>>),
                {Cell("ada", 0, 95, "face")})]

Symmetric == [mode |-> "symmetric"]
Liveness ==
    [min_mean_delta |-> 12, min_delta_std |-> 16, min_gradient_energy |-> 5,
     max_baseline_for_live |-> 70, emission_min_delta |-> 20,
     max_saturated_fraction |-> 50, score_threshold |-> 45]
DefaultConfig ==
    [liveness |-> Liveness, match_threshold |-> 34, model |-> Unset,
     detector |-> Unset, scale |-> Symmetric]
LowScore ==
    [DefaultConfig EXCEPT !.liveness.score_threshold = 0, !.model = "arc"]
\* Accepts every distance there is.
Open == [DefaultConfig EXCEPT !.match_threshold = 200]
BadScale ==
    [DefaultConfig EXCEPT !.scale = [mode |-> "standardized", std |-> 0]]
MCConfigs ==
    [defaults |-> DefaultConfig, loose |-> LowScore, open |-> Open,
     bad_scale |-> BadScale]

Onnx(input, output, yunet) ==
    [onnx |-> TRUE, input |-> input, output |-> output, yunet |-> yunet]

\* Two models of one length, one of another, one that is too large, a detector,
\* one for odd frames, and a file that is no model.
ModelFiles ==
    [arc |-> Onnx(<<1, 3, 8, 8>>, <<1, 16>>, FALSE),
     sface |-> Onnx(<<1, 3, 8, 8>>, <<1, 16, 1, 1>>, FALSE),
     small |-> Onnx(<<1, 3, 8, 8>>, <<1, 4>>, FALSE),
     huge |-> Onnx(<<1, 3, 800, 800>>, <<1, 16>>, FALSE),
     yunet |-> Onnx(<<1, 3, 32, 32>>, <<>>, TRUE),
     odd |-> Onnx(<<1, 3, 30, 30>>, <<>>, TRUE),
     text |-> [onnx |-> FALSE]]

Node(brio, offers, width) ==
    [brio |-> brio, offers |-> offers, grants |-> <<"grey", width, 340>>,
     buffers |-> 4]

\* A laptop camera, and three nodes of a Brio.
Videos ==
    <<Node(FALSE, "grey", 640), Node(TRUE, "denied", 340),
      Node(TRUE, "rgb", 340), Node(TRUE, "grey", 340)>>

NoEmitter == [v \in {"on", "off", "unit", "selector", "node"} |-> Unset]

Usual ==
    [faceUser |-> Unset, user |-> "ada", logname |-> "ada",
     storeDir |-> "relative", xdgData |-> Unset, home |-> "absolute",
     config |-> Unset, backend |-> Unset, substrate |-> FALSE,
     videos |-> Videos, emitter |-> NoEmitter, model |-> "arc",
     detector |-> "yunet", allowMock |-> Unset, faceModel |-> TRUE]

Variants(e) ==
    {e,
     [e EXCEPT !.model = Unset],
     [e EXCEPT !.model = "sface"],
     [e EXCEPT !.model = "small"],
     [e EXCEPT !.model = "huge"],
     [e EXCEPT !.model = Unset, !.allowMock = "1"],
     [e EXCEPT !.detector = Unset, !.allowMock = "1"],
     [e EXCEPT !.detector = "odd"],
     [e EXCEPT !.detector = "arc"],
     [e EXCEPT !.detector = Unset, !.allowMock = "yes"],
     [e EXCEPT !.faceModel = FALSE],
     [e EXCEPT !.model = Unset, !.config = "loose"],
     [e EXCEPT !.config = "open"],
     [e EXCEPT !.config = "bad_scale"],
     [e EXCEPT !.config = "bad"],
     [e EXCEPT !.home = Unset],
     [e EXCEPT !.backend = "virtual"],
     [e EXCEPT !.videos = <<>>],
     [e EXCEPT !.videos[4].grants[2] = 320],
     [e EXCEPT !.emitter.on = [len |-> 3, digits |-> 3, onlyHex |-> TRUE]]}

MCShells ==
    Variants(Usual) \cup
    {[Usual EXCEPT !.user = "", !.logname = Unset],
     [Usual EXCEPT !.user = "a/b"]}

\* A session with somebody else's name in it.
MCHelpers == Variants([Usual EXCEPT !.faceUser = "ada", !.user = "bob"])

MCOthers ==
    [bob |-> [emb |-> Embedding(<<"arc", Symmetric>>, 16, "bob", TRUE),
              by |-> Foreign, score |-> 45, threshold |-> 34, mocked |-> FALSE]]

\* No picture and no screen of these passes the gates before the score.
ASSUME MCAssumption == SpoofsRejected
=============================================================================

------------------------------ MODULE IrPipeline ------------------------------
(***************************************************************************)
(* mug: what is made of a pair of infrared frames.  Liveness is computed   *)
(* from the pixels, in integers: levels in 0..255, fractions and scores in *)
(* percent.  A detector is what it says of its cells, and an embedding     *)
(* what it describes, who made it, and its length.                         *)
(***************************************************************************)
EXTENDS Integers, FiniteSetsExt, SequencesExt

CONSTANTS
    Width, Height,      \* of a frame
    MinScore, MaxOverlap,   \* of a detection, in percent
    Separation,     \* how near a model lets two faces come, in percent
    MaxInput, MaxOutput,    \* elements of a model
    Strides,            \* of the detector
    MockDim             \* length of an embedding by the mock

Distance == 0..200  \* cosine distances, in percent
Pixel == (1..Width) \X (1..Height)

ASSUME IrAssumption ==
    /\ {Width, Height} \subseteq Nat \ (0..2)
    /\ {MinScore, MaxOverlap} \subseteq 0..100
    /\ Separation \in Distance
    /\ {MaxInput, MaxOutput, MockDim} \subseteq Nat \ {0}
    /\ Strides \subseteq Nat \ {0}

NotFinite == -1     \* a NaN or an infinity a model has put out

-----------------------------------------------------------------------------
(* Liveness. *)

Over(values) == MapThenSumSet(LAMBDA p : values[p], DOMAIN values)
Average(values) == Over(values) \div Cardinality(DOMAIN values)
Percent(S) == (100 * Cardinality(S)) \div Cardinality(Pixel)
Apart(a, b) == IF a < b THEN b - a ELSE a - b

\* What the lamp adds to a pixel; less light than without it counts as none.
Return(off, on) == [p \in Pixel |-> Max({on[p] - off[p], 0})]

Deviation(values) ==
    LET n == Cardinality(Pixel)
        squares == [p \in Pixel |-> values[p] * values[p]]
    IN  Max({s \in 0..255 :
                s * s * n * n <= n * Over(squares) - Over(values) * Over(values)})

\* Pixels with a neighbour to the right and one below.
MeanGradient(values) ==
    Average([p \in (1..Width - 1) \X (1..Height - 1) |->
                Apart(values[p], values[<<p[1] + 1, p[2]>>])
                + Apart(values[p], values[<<p[1], p[2] + 1>>])])

Share(weight, value, full) == (weight * Min({value, full})) \div full

CompositeScore(f) ==
    Share(30, f.mean, 60) + Share(30, f.deviation, 45)
    + Share(30, f.gradient, 25) + Share(10, f.specular, 2)

LivenessFeatures(off, on) ==
    LET delta == Return(off, on)
    IN  [mean |-> Average(delta),
         deviation |-> Deviation(delta),
         gradient |-> MeanGradient(delta),
         specular |-> Percent({p \in Pixel : on[p] >= 235 /\ delta[p] >= 40}),
         saturated |-> Percent({p \in Pixel : on[p] >= 250}),
         baseline |-> Average(off)]

Rejects(gate, f, cfg) ==
    CASE gate = "weak" -> f.mean < cfg.min_mean_delta
      [] gate = "screen" -> /\ f.baseline > cfg.max_baseline_for_live
                            /\ f.mean < cfg.emission_min_delta
      [] gate = "glare" -> f.saturated > cfg.max_saturated_fraction
      [] gate = "flat" -> f.deviation < cfg.min_delta_std
      [] gate = "smooth" -> f.gradient < cfg.min_gradient_energy
      [] gate = "score" -> CompositeScore(f) < cfg.score_threshold

Gates == <<"weak", "screen", "glare", "flat", "smooth", "score">>

\* Mutant: a score that is high enough will do.
ScoreDecides(f, cfg) == IF Rejects("score", f, cfg) THEN "score" ELSE "none"

\* The reason a pair is rejected for, "none" when it passes.
FirstFailingGate(f, cfg) ==
    LET failing == {i \in 1..Len(Gates) : Rejects(Gates[i], f, cfg)}
    IN  IF failing = {} THEN "none" ELSE Gates[Min(failing)]

-----------------------------------------------------------------------------
(* Detection and alignment. *)

Clamped(score) == IF score < 0 THEN 0 ELSE IF score > 100 THEN 100 ELSE score

\* The square of what a detection scores.
Strength(d) == Clamped(d.cls) * Clamped(d.obj)

\* A cell of a stride becomes a detection if every number of it is usable and
\* the geometric mean of its two scores is high enough.
Decodes(cell) ==
    /\ NotFinite \notin {cell.cls, cell.obj, cell.x, cell.y, cell.w, cell.h}
    /\ cell.w > 0 /\ cell.h > 0
    /\ cell.marks # "not_finite"
    /\ Strength(cell) >= MinScore * MinScore

Shared(from1, size1, from2, size2) ==
    Max({0, Min({from1 + size1, from2 + size2}) - Max({from1, from2})})

\* Intersection over union, compared with the limit.
Overlap(a, b) ==
    LET inter == Shared(a.x, a.w, b.x, b.w) * Shared(a.y, a.h, b.y, b.h)
        union == a.w * a.h + b.w * b.h - inter
    IN  union > 0 /\ 100 * inter > MaxOverlap * union

\* A detection after those that come before it: what overlaps one that is kept
\* is dropped.
Keeping(d, kept) == IF \E k \in kept : Overlap(d, k) THEN kept ELSE kept \cup {d}

Weakest(dets) == CHOOSE d \in dets : \A e \in dets : Strength(d) <= Strength(e)
Strongest(dets) == CHOOSE d \in dets : \A e \in dets : Strength(d) >= Strength(e)

\* Mutant: the weakest first.
NmsWeakestFirst(dets) ==
    MapThenFoldSet(Keeping, {}, LAMBDA d : d, Strongest, dets)

\* Strongest first: the last to be looked at is the weakest.
Nms(dets) == MapThenFoldSet(Keeping, {}, LAMBDA d : d, Weakest, dets)

\* The strongest that is kept; none is NoFace.
Detect(cells) ==
    LET kept == Nms({c \in cells : Decodes(c)})
    IN  {d \in kept : \A e \in kept : Strength(d) >= Strength(e)}

\* The landmarks determine a similarity: they do not coincide and are not a
\* mirror image.
Aligns(d) == d.marks = "face"

-----------------------------------------------------------------------------
(* Models. *)

Elements(shape) == FoldLeft(LAMBDA n, d : n * d, 1, shape)

NchwWithin(shape, most) ==
    Len(shape) = 4 /\ shape[1] = 1 /\ Elements(shape) \in 1..most

\* TractExtractor::from_path.
LoadsExtractor(m, scale) ==
    /\ scale.mode = "standardized" => scale.std > 0
    /\ m.onnx
    /\ NchwWithin(m.input, MaxInput)
    /\ Elements(m.output) \in 1..MaxOutput

\* YuNetDetector::from_path.
LoadsDetector(m) ==
    /\ m.onnx
    /\ NchwWithin(m.input, MaxInput)
    /\ \A s \in Strides : m.input[3] % s = 0 /\ m.input[4] % s = 0

\* The extractor without a model: it averages brightness.
Mock == <<"mock">>

\* The embedding by an extractor of an aligned face, or of the whole scene.
Embedding(by, len, of, aligned) ==
    [by |-> by, len |-> len, of |-> of, aligned |-> aligned]

\* How far apart two embeddings may be found; of different lengths, not at all.
\* One model tells two aligned faces apart; the mock, a whole scene, or two
\* models tell nothing.
Distances(a, b) ==
    LET told == /\ a.by = b.by /\ a.by # Mock
                /\ a.aligned /\ b.aligned /\ a.of # b.of
    IN  {d \in Distance : a.len = b.len /\ (told => Separation <= d)}
=============================================================================

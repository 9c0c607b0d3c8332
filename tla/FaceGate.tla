------------------------------- MODULE FaceGate -------------------------------
(***************************************************************************)
(* One face verification: a pair of infrared frames with the lamp off and  *)
(* on, liveness, then a vote of further frames.  What the models make of a *)
(* frame is a choice; the frames come from IrCamera.  The second capture   *)
(* of face-test is the same up to the liveness, on a camera that has       *)
(* already taken a pair.                                                   *)
(***************************************************************************)
EXTENDS IrCamera

CONSTANTS
    Deadline,                   \* of the verification
    FrameBudget,                \* of one more frame
    Work,                       \* at most this long for the models on a frame
    MatchFrames, MinFrames,     \* frames wanted, and needed, for a vote
    Distance, Threshold,        \* of a frame to the enrolled face
    LiveDelta                   \* how much brighter the lit frame must be

\* The light around changes by less than the lamp has to add.
ASSUME FaceAssumption ==
    /\ {Deadline, Work, MatchFrames, Threshold, LiveDelta} \subseteq Nat
    /\ {FrameBudget, MinFrames} \subseteq Nat \ {0}
    /\ Distance \subseteq Nat /\ IsFiniteSet(Distance)
    /\ \A m, n \in Unlit : m < n + LiveDelta
    /\ \A m \in Unlit \cup Lit, n \in Lit : m < n + LiveDelta

VARIABLES
    pc,         \* the call that is next
    used,       \* this is the second capture of face-test
    pair,       \* the frames of the pair
    live,       \* the pair has passed the liveness analysis
    votes,      \* how many frames have been found at each distance
    result

vars == <<cameraVars, pc, used, pair, live, votes, result>>

Verdict == {"ok", "no_match", "too_few", "rejected", "compared"}

SumOver(f, S) == MapThenSumSet(LAMBDA x : f[x], S)

\* The frames that voted at one of the distances.
Count(distances) == SumOver(votes, distances)
Votes == Count(Distance)

TypeOK ==
    /\ CameraTypeOK
    /\ used \in BOOLEAN /\ live \in BOOLEAN
    /\ pair \in [{"off", "on"} -> Frame \cup {None}]
    /\ votes \in [Distance -> Nat] /\ Votes <= MatchFrames
    /\ result \in Verdict \cup {"none", "timeout", "error"}

Init ==
    /\ used \in BOOLEAN /\ CameraInit(used)
    /\ pc = "load"
    /\ pair = [f \in {"off", "on"} |-> None]
    /\ live = FALSE
    /\ votes = [d \in Distance |-> 0]
    /\ result = "none"

-----------------------------------------------------------------------------

Returns(how) == pc' = "returned" /\ result' = how

Goes(next) == pc' = next /\ UNCHANGED result

Left == IF now < Deadline THEN Deadline - now ELSE 0

\* The camera is open and streams while the models load, or while face-test
\* waits for Enter.
Load ==
    /\ pc = "load" /\ camera # "virtual"
    /\ StreamRuns
    /\ UNCHANGED <<now, camera, lamp, phase, cold, until, slice, best>>
    /\ UNCHANGED <<pc, used, pair, live, votes, result>>

\* The lamp goes off and half the budget is for the first frame of the pair.
LampOffForBaseline ==
    /\ pc = "load"
    /\ SetEnabled(FALSE) /\ Opens(Deadline \div 2)
    /\ Goes("off_frame")
    /\ UNCHANGED <<now, camera, warm, ring, cold, used, pair, live, votes>>

\* A capture that is not over, or fails.
Capturing(at) ==
    /\ pc = at
    /\ \/ CaptureGoesOn /\ UNCHANGED <<pc, result>>
       \/ TimesOut /\ Returns("timeout") /\ UNCHANGED cameraVars
       \/ CaptureFails /\ Returns("error") /\ UNCHANGED cameraVars
    /\ UNCHANGED <<used, pair, live, votes>>

\* A frame of the pair is there.
Keeps(name, next) ==
    /\ \E f \in Frame : Captured(f) /\ pair' = [pair EXCEPT ![name] = f]
    /\ Goes(next)
    /\ UNCHANGED <<until, slice, used, live, votes>>

CaptureOff == Capturing("off_frame") \/ (pc = "off_frame" /\ Keeps("off", "lamp_on"))

\* What is left of the deadline is for the other one.
LampOn ==
    /\ pc = "lamp_on"
    /\ SetEnabled(TRUE) /\ Opens(Left)
    /\ Goes("on_frame")
    /\ UNCHANGED <<now, camera, warm, ring, cold, used, pair, live, votes>>

CaptureOn == Capturing("on_frame") \/ (pc = "on_frame" /\ Keeps("on", "restore"))

RestoreLamp ==
    /\ pc = "restore"
    /\ SetEnabled(FALSE)
    /\ Goes("analyze")
    /\ UNCHANGED <<now, camera, warm, ring, cold, until, slice, best>>
    /\ UNCHANGED <<used, pair, live, votes>>

\* The models get a frame.
Embeds(next) == slice' = now + Work /\ Goes(next)

\* Mutant: the lit frame need not be brighter.
AnalyzeAnyPair ==
    /\ pc = "analyze"
    /\ \/ live' = TRUE /\ IF used THEN Returns("compared") /\ UNCHANGED slice
                           ELSE Embeds("first")
       \/ Returns("rejected") /\ UNCHANGED <<live, slice>>
    /\ UNCHANGED <<now, camera, lamp, warm, ring, phase, cold, until, best>>
    /\ UNCHANGED <<used, pair, votes>>

\* The difference of the pair, and other gates that may reject it.
Analyze ==
    /\ pc = "analyze"
    /\ \/ /\ pair["on"].mean >= pair["off"].mean + LiveDelta
          /\ live' = TRUE
          /\ IF used THEN Returns("compared") /\ UNCHANGED slice
             ELSE Embeds("first")
       \/ Returns("rejected") /\ UNCHANGED <<live, slice>>
    /\ UNCHANGED <<now, camera, lamp, warm, ring, phase, cold, until, best>>
    /\ UNCHANGED <<used, pair, votes>>

\* The models take their time.
Works ==
    /\ pc \in {"first", "vote"} /\ now < slice
    /\ Tick
    /\ UNCHANGED <<camera, lamp, phase, cold, until, slice, best>>
    /\ UNCHANGED <<pc, used, pair, live, votes, result>>

\* Embed a frame and compare; one without a face does not vote.
FrameDistance(next) ==
    /\ Goes(next)
    /\ \/ UNCHANGED votes
       \/ \E d \in Distance : votes' = [votes EXCEPT ![d] = @ + 1]

MatcherFails == "matcher" \in Fails /\ Returns("error") /\ UNCHANGED votes

\* The frame of the pair is the first to vote.
FirstVote ==
    /\ pc = "first"
    /\ FrameDistance("relight") \/ MatcherFails
    /\ UNCHANGED <<cameraVars, used, pair, live>>

\* From here on every exit drops the guard that switches the lamp off.
Relight ==
    /\ pc = "relight"
    /\ SetEnabled(TRUE) /\ Goes("loop")
    /\ UNCHANGED <<now, camera, warm, ring, cold, until, slice, best>>
    /\ UNCHANGED <<used, pair, live, votes>>

\* Mutant: the budget of a frame does not shrink with what is left.
FixedBudget ==
    /\ pc = "loop" /\ phase' = phase
    /\ IF Votes < MatchFrames /\ Left > 0
       THEN Opens(FrameBudget) /\ Goes("capture")
       ELSE Goes("decide") /\ UNCHANGED <<until, slice, best>>
    /\ UNCHANGED <<now, camera, lamp, warm, ring, cold, used, pair, live, votes>>

Loop ==
    /\ pc = "loop" /\ phase' = phase
    /\ IF Votes < MatchFrames /\ Left > 0
       THEN Opens(Smaller(Left, FrameBudget)) /\ Goes("capture")
       ELSE Goes("decide") /\ UNCHANGED <<until, slice, best>>
    /\ UNCHANGED <<now, camera, lamp, warm, ring, cold, used, pair, live, votes>>

\* Mutant: a frame that is not there yet is not waited for.
CaptureNonBlocking ==
    /\ pc = "capture"
    /\ \/ (\E f \in Frame : Captured(f)) /\ Embeds("vote") /\ UNCHANGED until
       \/ Goes("loop") /\ UNCHANGED cameraVars
    /\ UNCHANGED <<used, pair, live, votes>>

\* A frame that does not come in time is tried for again.
CaptureFrame ==
    /\ pc = "capture"
    /\ \/ CaptureGoesOn /\ UNCHANGED <<pc, result>>
       \/ (\E f \in Frame : Captured(f)) /\ Embeds("vote") /\ UNCHANGED until
       \/ TimesOut /\ Goes("loop") /\ UNCHANGED cameraVars
       \/ /\ CaptureFails /\ Returns("error") /\ SetEnabled(FALSE)
          /\ UNCHANGED <<now, camera, warm, ring, cold, until, slice, best>>
    /\ UNCHANGED <<used, pair, live, votes>>

Vote ==
    /\ pc = "vote"
    /\ \/ FrameDistance("loop") /\ UNCHANGED <<lamp, phase>>
       \/ MatcherFails /\ SetEnabled(FALSE)
    /\ UNCHANGED <<now, camera, warm, ring, cold, until, slice, best>>
    /\ UNCHANGED <<used, pair, live>>

\* Mutant: the lower median.
LowerMedian ==
    Min({d \in Distance : 2 * Count({e \in Distance : e <= d}) >= Votes})

\* The element at index len / 2 of the sorted distances.
Median ==
    Min({d \in Distance : Count({e \in Distance : e <= d}) > Votes \div 2})

Decision ==
    CASE Votes < MinFrames -> "too_few"
      [] Votes >= MinFrames /\ Median <= Threshold -> "ok"
      [] Votes >= MinFrames /\ Median > Threshold -> "no_match"

\* Mutant: the lamp stays on for the next verification.
DecideLit ==
    /\ pc = "decide"
    /\ Returns(Decision)
    /\ UNCHANGED <<cameraVars, used, pair, live, votes>>

DecideMatch ==
    /\ pc = "decide"
    /\ Returns(Decision)
    /\ SetEnabled(FALSE)
    /\ UNCHANGED <<now, camera, warm, ring, cold, until, slice, best>>
    /\ UNCHANGED <<used, pair, live, votes>>

Next ==
    \/ Load \/ LampOffForBaseline \/ CaptureOff \/ LampOn \/ CaptureOn
    \/ RestoreLamp \/ Analyze \/ Works \/ FirstVote \/ Relight
    \/ Loop \/ CaptureFrame \/ Vote \/ DecideMatch

\* Every call returns, and the clock does not stand still however many frames
\* are looked at; the camera need not deliver any.
Spec == Init /\ [][Next]_vars /\ WF_vars(Next) /\ SF_vars(Works)

-----------------------------------------------------------------------------
(* Properties. *)

\* A face is accepted only on a live pair and by a strict majority of at least
\* MinFrames frames: no transient match among the frames of somebody else is
\* enough (verify, decide_match).
AcceptedByMajority ==
    result = "ok" =>
        /\ live
        /\ Votes >= MinFrames
        /\ 2 * Count({d \in Distance : d <= Threshold}) > Votes

\* The difference between the frames of a live pair is the work of the lamp,
\* although the first of them has waited in its buffer while the models were
\* loading, and on a camera that has taken a pair before, or with a lamp left on,
\* may well be lit (capture_liveness_pair, WarmingSource::capture).  On a lamp
\* that was off, the first pair of a stream does start with a dark frame.
PairIsOffOn ==
    /\ live => ~pair["off"].lit /\ pair["on"].lit
    /\ pair["off"] # None /\ ~used /\ camera \in {"virtual", "streaming"} =>
           ~pair["off"].lit

\* "Never blocks past" the deadline, but for the models on one frame: all waits
\* for the camera end with it, however they are cut up (FaceGate::authorize).
WaitsWithinDeadline == now <= Deadline + Work

\* A verification that has come to a verdict has switched off a lamp that can be
\* switched, whichever way it went.
VerdictInTheDark == result \in Verdict /\ camera # "deaf" => ~lamp

\* It ends, however many frames show no face or do not come.
VerificationEnds == <>(pc = "returned")
=============================================================================

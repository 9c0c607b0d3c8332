------------------------------ MODULE FaceProofs ------------------------------
(***************************************************************************)
(* Theorems about FaceGate, for every camera, budget and brightness its    *)
(* assumptions admit: the deadline, the lamp, the pair of frames, and the  *)
(* vote. The sums behind the vote are a fold over a set; what holds of     *)
(* them is proved by induction, which SetInduction gets from the library's *)
(* theorem that strict inclusion is well founded on finite sets.           *)
(***************************************************************************)
EXTENDS FaceGate, FiniteSetTheorems, SequenceTheorems, TLAPS

\* Calls that begin within the deadline.
InTime == {"off_frame", "lamp_on", "on_frame", "restore", "analyze", "capture"}

\* Calls that wait for a frame, and calls of the models.
Waiting == {"off_frame", "on_frame", "capture"}
Embedding == {"first", "vote"}

ClockTypes == now \in Nat /\ until \in Nat /\ slice \in Nat

\* Every wait is cut off at the end of its budget, and no budget ends after the
\* deadline; the models may begin at the last moment.
WithinBudget ==
    /\ pc = "load" => now = 0
    /\ pc \in InTime => now <= Deadline
    /\ pc \in Waiting => slice <= until /\ until <= Deadline
    /\ pc \in Embedding => slice <= Deadline + Work

TimeInv == ClockTypes /\ WithinBudget /\ WaitsWithinDeadline

USE DEF WaitsWithinDeadline, ClockTypes, WithinBudget, InTime, Waiting, Embedding

\* A budget that fits into what is left ends with the deadline.
LEMMA BudgetIsKept ==
    ASSUME TimeInv, NEW budget \in Nat, Opens(budget), now + budget <= Deadline,
           UNCHANGED now
    PROVE  ClockTypes' /\ slice' <= until' /\ until' <= Deadline
  BY CameraAssumption, FaceAssumption
     DEF TimeInv, Opens, Smaller

\* A wait that goes on stays within its budget.
LEMMA WaitIsCutOff ==
    ASSUME TimeInv, pc \in Waiting, CaptureGoesOn
    PROVE  /\ ClockTypes' /\ until' = until
           /\ now' <= Deadline /\ slice' <= until'
  BY CameraAssumption, FaceAssumption, SMTT(30)
     DEF TimeInv, CaptureGoesOn, Tick, LooksAgain, Smaller

\* Every step keeps to the deadline.
LEMMA TimeStep == TimeInv /\ [Next]_vars => TimeInv'
  <1> SUFFICES ASSUME TimeInv, [Next]_vars PROVE TimeInv'
    OBVIOUS
  <1> USE CameraAssumption, FaceAssumption DEF TimeInv
  <1>1. CASE UNCHANGED vars
    BY <1>1 DEF vars, cameraVars
  <1>2. CASE Load
    BY <1>2 DEF Load
  <1>3. CASE LampOffForBaseline
    <2>1. Deadline \div 2 \in Nat /\ Deadline \div 2 <= Deadline
      OBVIOUS
    <2> QED
      BY <1>3, <2>1, BudgetIsKept DEF LampOffForBaseline, Goes
  <1>4. ASSUME NEW at \in Waiting, Capturing(at) PROVE TimeInv'
    <2>1. CASE CaptureGoesOn /\ UNCHANGED pc
      BY <1>4, <2>1, WaitIsCutOff DEF Capturing
    <2>2. CASE pc' = "returned" /\ UNCHANGED cameraVars
      BY <1>4, <2>2 DEF Capturing, cameraVars
    <2> QED
      BY <1>4, <2>1, <2>2 DEF Capturing, Returns
  <1>5. ASSUME NEW name, NEW next \in {"lamp_on", "restore"}, pc \in Waiting,
               Keeps(name, next)
        PROVE  TimeInv'
    BY <1>5 DEF Keeps, Captured, Goes
  <1>6. CASE LampOn
    <2>1. Left \in Nat /\ now + Left <= Deadline
      BY <1>6 DEF LampOn, Left
    <2> QED
      BY <1>6, <2>1, BudgetIsKept DEF LampOn, Goes
  <1>7. CASE RestoreLamp
    BY <1>7 DEF RestoreLamp, Goes
  <1>8. CASE Analyze
    BY <1>8 DEF Analyze, Embeds, Returns, Goes
  <1>9. CASE Works
    BY <1>9 DEF Works, Tick
  <1>10. CASE FirstVote
    BY <1>10 DEF FirstVote, FrameDistance, MatcherFails, Goes, Returns, cameraVars
  <1>11. CASE Relight
    BY <1>11 DEF Relight, Goes
  <1>12. CASE Loop
    <2>1. CASE Left > 0 /\ Opens(Smaller(Left, FrameBudget)) /\ pc' = "capture"
      <3>1. /\ Smaller(Left, FrameBudget) \in Nat
            /\ now + Smaller(Left, FrameBudget) <= Deadline
        BY <2>1 DEF Left, Smaller
      <3> QED
        BY <1>12, <2>1, <3>1, BudgetIsKept DEF Loop
    <2>2. CASE pc' = "decide" /\ UNCHANGED <<until, slice>>
      BY <1>12, <2>2 DEF Loop
    <2> QED
      BY <1>12, <2>1, <2>2 DEF Loop, Goes
  <1>13. CASE CaptureFrame
    <2>1. CASE CaptureGoesOn /\ UNCHANGED pc
      BY <1>13, <2>1, WaitIsCutOff DEF CaptureFrame
    <2>2. CASE (\E f \in Frame : Captured(f)) /\ Embeds("vote") /\ UNCHANGED until
      BY <1>13, <2>2 DEF CaptureFrame, Captured, Embeds, Goes
    <2>3. CASE pc' = "loop" /\ UNCHANGED cameraVars
      BY <1>13, <2>3 DEF CaptureFrame, cameraVars
    <2>4. CASE pc' = "returned" /\ UNCHANGED <<now, until, slice>>
      BY <1>13, <2>4
    <2> QED
      BY <1>13, <2>1, <2>2, <2>3, <2>4 DEF CaptureFrame, Goes, Returns
  <1>14. CASE Vote
    BY <1>14 DEF Vote, FrameDistance, MatcherFails, Goes, Returns
  <1>15. CASE DecideMatch
    BY <1>15 DEF DecideMatch, Returns
  <1> QED
    BY <1>1, <1>2, <1>3, <1>4, <1>5, <1>6, <1>7, <1>8, <1>9, <1>10, <1>11,
       <1>12, <1>13, <1>14, <1>15 DEF Next, CaptureOff, CaptureOn

\* All waits for the camera end with the deadline of the verification.
THEOREM InTimeAlways == Spec => []WaitsWithinDeadline
  <1>1. Init => TimeInv
    BY CameraAssumption, FaceAssumption DEF Init, CameraInit, TimeInv
  <1> QED
    BY <1>1, TimeStep, PTL DEF Spec, TimeInv

-----------------------------------------------------------------------------
(* The lamp. *)

Cameras == {"virtual", "streaming", "switched", "deaf"}

\* A lamp that only comes on by itself is never set, a verdict is the last thing
\* there is, and the pair is judged with the lamp restored.
DarkInv ==
    /\ camera \in Cameras
    /\ camera = "streaming" => ~lamp
    /\ pc = "analyze" /\ camera # "deaf" => ~lamp
    /\ result \in Verdict => pc = "returned"
    /\ VerdictInTheDark

\* Every step leaves the lamp as it has to be.
LEMMA DarkStep == DarkInv /\ [Next]_vars => DarkInv'
  <1> SUFFICES ASSUME DarkInv, [Next]_vars PROVE DarkInv'
    OBVIOUS
  <1> USE DEF DarkInv, Cameras, VerdictInTheDark, Verdict, SetEnabled, Goes,
              Returns, Embeds
  <1>1. CASE UNCHANGED vars
    BY <1>1 DEF vars, cameraVars
  <1>2. CASE Load \/ LampOffForBaseline \/ LampOn \/ RestoreLamp
    BY <1>2 DEF Load, LampOffForBaseline, LampOn, RestoreLamp
  <1>3. ASSUME NEW at \in {"off_frame", "on_frame"}, Capturing(at) PROVE DarkInv'
    BY <1>3 DEF Capturing, CaptureGoesOn, cameraVars
  <1>4. ASSUME NEW name, NEW next \in {"lamp_on", "restore"}, Keeps(name, next),
               result \notin Verdict
        PROVE  DarkInv'
    BY <1>4 DEF Keeps, Captured
  <1>5. CASE CaptureOff \/ CaptureOn
    BY <1>3, <1>4, <1>5 DEF CaptureOff, CaptureOn
  <1>6. CASE Analyze
    BY <1>6 DEF Analyze
  <1>7. CASE Works \/ FirstVote
    BY <1>7 DEF Works, FirstVote, FrameDistance, MatcherFails, cameraVars
  <1>10. CASE Relight
    BY <1>10 DEF Relight
  <1>11. CASE Loop
    BY <1>11 DEF Loop
  <1>8. CASE CaptureFrame
    BY <1>8 DEF CaptureFrame, CaptureGoesOn, Captured, cameraVars
  <1>9. CASE Vote \/ DecideMatch
    BY <1>9 DEF Vote, FrameDistance, MatcherFails, DecideMatch
  <1> QED
    BY <1>1, <1>2, <1>5, <1>6, <1>7, <1>8, <1>9, <1>10,
       <1>11 DEF Next

\* Whatever the verdict, a lamp that can be switched is off with it.
THEOREM DarkAtTheEnd == Spec => []VerdictInTheDark
  <1>1. Init => DarkInv
    BY DEF Init, CameraInit, DarkInv, Cameras, VerdictInTheDark, Verdict
  <1> QED
    BY <1>1, DarkStep, PTL DEF Spec, DarkInv

-----------------------------------------------------------------------------
(* The pair. *)

\* The frames a camera can take.
Seen == {f \in Frame : f.mean \in Means(f.lit)}

Judged == {"first", "relight", "loop", "capture", "vote", "decide", "returned"}

\* A stream that has just begun has not lit the frame that is taken first.
FirstFrameIsDark ==
    pc \in {"load", "off_frame"} /\ ~used /\ camera = "streaming" =>
        /\ cold = None
        /\ ring = <<>> => ~warm
        /\ ring # <<>> => Head(ring) = FALSE

PairInv ==
    /\ DarkInv /\ PairIsOffOn /\ FirstFrameIsDark
    /\ ring \in Seq(BOOLEAN) /\ warm \in BOOLEAN /\ lamp \in BOOLEAN
    /\ best \in Seen \cup {None}
    /\ pair \in [{"off", "on"} -> Seen \cup {None}]
    /\ pc \in {"lamp_on", "on_frame", "restore", "analyze"} => pair["off"] \in Seen
    /\ pc \in {"restore", "analyze"} => pair["on"] \in Seen
    /\ live => pc \in Judged
    /\ pc = "off_frame" => phase = "cold"
    /\ pc = "off_frame" /\ camera = "virtual" => ~lamp

\* A frame that is captured is one a camera can take.
LEMMA CapturedIsSeen ==
    ASSUME PairInv, NEW f \in Frame, Captured(f)
    PROVE  /\ f \in Seen
           /\ best' \in Seen \cup {None}
           /\ ring' \in Seq(BOOLEAN)
  <1>1. Dequeues(f) => f \in Seen /\ ring' \in Seq(BOOLEAN)
    BY HeadTailProperties DEF PairInv, Dequeues, Seen
  <1> QED
    BY <1>1, CameraAssumption DEF PairInv, Captured, Seen, Frame

\* The first frame of the first pair is dark.
LEMMA BaselineIsDark ==
    ASSUME PairInv, pc = "off_frame", NEW f \in Frame, Captured(f),
           ~used, camera \in {"virtual", "streaming"}
    PROVE  f.lit = FALSE
  <1>1. Dequeues(f)
    BY DEF PairInv, Captured, Warming
  <1> QED
    BY <1>1 DEF PairInv, Dequeues, FirstFrameIsDark

\* A difference the lamp has to make shows which frame is lit.
LEMMA DifferenceIsTheLamp ==
    ASSUME NEW off \in Seen, NEW on \in Seen, on.mean >= off.mean + LiveDelta
    PROVE  ~off.lit /\ on.lit
  <1>1. on.mean \in Unlit \cup Lit /\ off.mean \in Unlit \cup Lit
    BY DEF Seen, Frame
  <1>2. off.lit => off.mean \in Lit
    BY DEF Seen, Means, Frame
  <1>3. ~on.lit => on.mean \in Unlit
    BY DEF Seen, Means, Frame
  <1>4. on.mean \in Nat /\ off.mean \in Nat /\ LiveDelta \in Nat
    BY <1>1, CameraAssumption, FaceAssumption
  <1>5. ~off.lit
    BY <1>1, <1>2, <1>4, FaceAssumption
  <1>6. off.mean \in Unlit
    BY <1>5 DEF Seen, Means, Frame
  <1>7. on.lit
    BY <1>3, <1>4, <1>6, FaceAssumption
  <1> QED
    BY <1>5, <1>7

\* What is put at the end of a sequence is its head only if it was empty.
LEMMA HeadOfAppend ==
    ASSUME NEW S, NEW s \in Seq(S), NEW e \in S
    PROVE  /\ s = <<>> => Head(Append(s, e)) = e
           /\ s # <<>> => Head(Append(s, e)) = Head(s)
  OBVIOUS

\* While the stream fills its buffers before the first frame is taken.
LEMMA StreamKeepsFirstDark ==
    ASSUME PairInv, StreamRuns, pc \in {"load", "off_frame"},
           UNCHANGED <<pc, used, camera, cold>>
    PROVE  FirstFrameIsDark' /\ ring' \in Seq(BOOLEAN) /\ warm' \in BOOLEAN
  <1> USE DEF PairInv, DarkInv, FirstFrameIsDark
  <1>1. CASE ring' = ring
    BY <1>1 DEF StreamRuns
  <1>2. CASE ring' = Delivered /\ Len(ring) < Ring
    <2>1. ring' = Append(ring, lamp \/ warm) /\ (lamp \/ warm) \in BOOLEAN
      BY <1>2 DEF Delivered
    <2>0. ring \in Seq(BOOLEAN)
      OBVIOUS
    <2> HIDE DEF PairInv, DarkInv, FirstFrameIsDark
    <2>2. ring' \in Seq(BOOLEAN) /\ ring' # <<>>
      BY <2>1, <2>0, AppendProperties, Zenon
    <2>3. ring = <<>> => Head(ring') = (lamp \/ warm)
      BY <2>1, <2>0, HeadOfAppend
    <2>4. ring # <<>> => Head(ring') = Head(ring)
      BY <2>1, <2>0, HeadOfAppend
    <2> USE DEF PairInv, DarkInv, FirstFrameIsDark
    <2> QED
      BY <2>2, <2>3, <2>4 DEF StreamRuns
  <1> QED
    BY <1>1, <1>2 DEF StreamRuns, Delivered

\* The ring holds frames, whatever the driver delivers.
LEMMA StreamTypes ==
    ASSUME PairInv, StreamRuns
    PROVE  ring' \in Seq(BOOLEAN) /\ warm' \in BOOLEAN
  <1>1. Append(ring, lamp \/ warm) \in Seq(BOOLEAN)
    BY AppendProperties DEF PairInv
  <1>2. Delivered \in Seq(BOOLEAN)
    BY <1>1 DEF PairInv, Delivered
  <1>3. ring' \in Seq(BOOLEAN)
    BY <1>2 DEF PairInv, StreamRuns
  <1>4. warm' \in BOOLEAN
    BY DEF PairInv, StreamRuns
  <1> QED
    BY <1>3, <1>4

\* A wait disturbs neither the lamp nor the baseline.
LEMMA WaitKeepsPair ==
    ASSUME PairInv, CaptureGoesOn
    PROVE  /\ ring' \in Seq(BOOLEAN) /\ warm' \in BOOLEAN
           /\ best' \in Seen \cup {None}
           /\ UNCHANGED <<camera, lamp, phase, cold>>
  <1>1. CASE UNCHANGED best /\ StreamRuns
    BY <1>1, StreamTypes DEF PairInv, CaptureGoesOn
  <1>2. CASE UNCHANGED <<ring, best>> /\ LooksAgain
    BY <1>2 DEF PairInv, CaptureGoesOn, LooksAgain
  <1>3. ASSUME NEW f \in Frame, Dequeues(f), LooksAgain,
               best' = IF best = None THEN f
                       ELSE IF f.mean > best.mean THEN f ELSE best
        PROVE  /\ ring' \in Seq(BOOLEAN) /\ warm' \in BOOLEAN
               /\ best' \in Seen \cup {None}
    BY <1>3 DEF PairInv, Dequeues, LooksAgain, Seen
  <1> QED
    BY <1>1, <1>2, <1>3 DEF CaptureGoesOn, Tick

\* A capture of the pair, or of a frame for the vote, that goes on.
LEMMA GoingOnKeepsPair ==
    ASSUME PairInv, DarkInv', CaptureGoesOn,
           pc \in {"off_frame", "on_frame", "capture"},
           UNCHANGED <<pc, result, used, pair, live, votes>>
    PROVE  PairInv'
  <1>1. FirstFrameIsDark'
    <2>1. CASE pc = "off_frame"
      <3>1. StreamRuns
        BY <2>1 DEF PairInv, CaptureGoesOn, Warming, Tick
      <3> QED
        BY <3>1, <2>1, StreamKeepsFirstDark, WaitKeepsPair
    <2>2. CASE pc # "off_frame"
      BY <2>2 DEF FirstFrameIsDark
    <2> QED
      BY <2>1, <2>2
  <1> QED
    BY <1>1, WaitKeepsPair DEF PairInv, PairIsOffOn

\* Every step keeps what is known of the pair.
LEMMA PairStep == PairInv /\ [Next]_vars => PairInv'
  <1> SUFFICES ASSUME PairInv, [Next]_vars PROVE PairInv'
    OBVIOUS
  <1>d. DarkInv'
    BY DarkStep DEF PairInv
  <1> USE DEF PairIsOffOn, Judged, Goes, Returns
  <1>1. CASE UNCHANGED vars
    BY <1>1, <1>d DEF vars, cameraVars, PairInv, FirstFrameIsDark
  <1>2. CASE Load
    BY <1>2, <1>d, StreamKeepsFirstDark DEF Load, PairInv
  <1>3. CASE LampOffForBaseline
    BY <1>3, <1>d DEF LampOffForBaseline, SetEnabled, Opens, PairInv, DarkInv,
                      Cameras, FirstFrameIsDark
  <1>4. ASSUME NEW at \in {"off_frame", "on_frame"}, Capturing(at) PROVE PairInv'
    <2>1. CASE CaptureGoesOn /\ UNCHANGED <<pc, result>>
      BY <1>4, <1>d, <2>1, GoingOnKeepsPair DEF Capturing
    <2>2. CASE pc' = "returned" /\ UNCHANGED cameraVars
      BY <1>4, <1>d, <2>2 DEF Capturing, cameraVars, PairInv, FirstFrameIsDark
    <2> QED
      BY <1>4, <2>1, <2>2 DEF Capturing
  <1>5. CASE pc = "off_frame" /\ Keeps("off", "lamp_on")
    <2>1. PICK f \in Frame : Captured(f) /\ pair' = [pair EXCEPT !["off"] = f]
      BY <1>5 DEF Keeps
    <2>2. ~used /\ camera \in {"virtual", "streaming"} => f.lit = FALSE
      BY <2>1, <1>5, BaselineIsDark
    <2>3. f \in Seen /\ best' \in Seen \cup {None} /\ ring' \in Seq(BOOLEAN)
      BY <2>1, CapturedIsSeen
    <2>4. pair' \in [{"off", "on"} -> Seen \cup {None}] /\ pair'["off"] = f
      BY <2>1, <2>3 DEF PairInv
    <2>5. UNCHANGED <<camera, lamp, warm, used, live>> /\ ~live /\ pc' = "lamp_on"
      BY <1>5, <2>1 DEF Keeps, Captured, PairInv
    <2> QED
      BY <1>d, <2>2, <2>3, <2>4, <2>5 DEF PairInv, FirstFrameIsDark
  <1>6. CASE pc = "on_frame" /\ Keeps("on", "restore")
    <2>1. PICK f \in Frame : Captured(f) /\ pair' = [pair EXCEPT !["on"] = f]
      BY <1>6 DEF Keeps
    <2>2. f \in Seen /\ best' \in Seen \cup {None} /\ ring' \in Seq(BOOLEAN)
      BY <2>1, CapturedIsSeen
    <2>3. /\ pair' \in [{"off", "on"} -> Seen \cup {None}]
          /\ pair'["off"] = pair["off"] /\ pair'["on"] = f
      BY <2>1, <2>2 DEF PairInv
    <2>4. UNCHANGED <<camera, lamp, warm, used, live>> /\ ~live /\ pc' = "restore"
      BY <1>6, <2>1 DEF Keeps, Captured, PairInv
    <2> QED
      BY <1>6, <1>d, <2>2, <2>3, <2>4 DEF PairInv, FirstFrameIsDark
  <1>7. CASE LampOn
    BY <1>7, <1>d DEF LampOn, SetEnabled, Opens, PairInv, FirstFrameIsDark
  <1>15. CASE RestoreLamp
    BY <1>15, <1>d DEF RestoreLamp, SetEnabled, PairInv, FirstFrameIsDark
  <1>16. CASE Relight
    BY <1>16, <1>d DEF Relight, SetEnabled, PairInv, FirstFrameIsDark
  <1>8. CASE Analyze
    <2>1. live' => pair["on"].mean >= pair["off"].mean + LiveDelta
      BY <1>8 DEF Analyze, PairInv
    <2>2. live' => ~pair["off"].lit /\ pair["on"].lit
      BY <1>8, <2>1, DifferenceIsTheLamp DEF Analyze, PairInv
    <2> QED
      BY <1>8, <1>d, <2>2 DEF Analyze, Embeds, PairInv, FirstFrameIsDark
  <1>9. CASE Works
    BY <1>9, <1>d, StreamTypes DEF Works, Tick, PairInv, FirstFrameIsDark
  <1>10. CASE FirstVote
    BY <1>10, <1>d DEF FirstVote, FrameDistance, MatcherFails, cameraVars,
                       PairInv, FirstFrameIsDark
  <1>11. CASE Loop
    BY <1>11, <1>d DEF Loop, Opens, PairInv, FirstFrameIsDark
  <1>12. CASE CaptureFrame
    <2>1. CASE CaptureGoesOn /\ UNCHANGED <<pc, result>>
      BY <1>12, <1>d, <2>1, GoingOnKeepsPair DEF CaptureFrame
    <2>2. CASE (\E f \in Frame : Captured(f)) /\ Embeds("vote")
      BY <1>12, <1>d, <2>2, CapturedIsSeen
         DEF CaptureFrame, Captured, Embeds, PairInv, FirstFrameIsDark
    <2>3. CASE pc' = "loop" /\ UNCHANGED cameraVars
      BY <1>12, <1>d, <2>3 DEF CaptureFrame, cameraVars, PairInv, FirstFrameIsDark
    <2>4. CASE Returns("error") /\ SetEnabled(FALSE)
               /\ UNCHANGED <<camera, warm, ring, best>>
      <3>1. UNCHANGED <<used, pair, live>> /\ lamp' \in BOOLEAN
        BY <1>12, <2>4 DEF CaptureFrame, SetEnabled, PairInv
      <3> QED
        BY <1>d, <2>4, <3>1 DEF PairInv, FirstFrameIsDark
    <2> QED
      BY <1>12, <2>1, <2>2, <2>3, <2>4 DEF CaptureFrame
  <1>13. CASE Vote
    BY <1>13, <1>d DEF Vote, FrameDistance, MatcherFails, SetEnabled, PairInv,
                       FirstFrameIsDark
  <1>14. CASE DecideMatch
    BY <1>14, <1>d DEF DecideMatch, SetEnabled, PairInv, FirstFrameIsDark
  <1> QED
    BY <1>1, <1>2, <1>3, <1>4, <1>5, <1>6, <1>7, <1>8, <1>9, <1>10, <1>11,
       <1>12, <1>13, <1>14, <1>15, <1>16 DEF Next, CaptureOff, CaptureOn

\* A pair that counts as live was taken without and with the lamp, whatever was
\* in the buffers and whatever the lamp did by itself.
THEOREM PairShowsTheLamp == Spec => []PairIsOffOn
  <1>1. ASSUME Init PROVE PairInv
    <2>1. DarkInv
      BY <1>1 DEF Init, CameraInit, DarkInv, Cameras, VerdictInTheDark, Verdict
    <2>2. lamp \in BOOLEAN /\ warm \in BOOLEAN
      BY <1>1 DEF Init, CameraInit
    <2>3. ring = <<>> /\ ring \in Seq(BOOLEAN)
      BY <1>1, EmptySeq DEF Init, CameraInit
    <2>4. /\ pc = "load" /\ live = FALSE /\ best = None
          /\ pair = [f \in {"off", "on"} |-> None]
          /\ ~used => cold = None /\ warm = FALSE
      BY <1>1 DEF Init, CameraInit
    <2> QED
      BY <2>1, <2>2, <2>3, <2>4 DEF PairInv, PairIsOffOn, FirstFrameIsDark
  <1> QED
    BY <1>1, PairStep, PTL DEF Spec, PairInv

-----------------------------------------------------------------------------
(* Sums over finite sets. *)

\* What holds of a set when it holds of its strict subsets holds of every subset
\* of a finite set.
LEMMA SetInduction ==
    ASSUME NEW D, IsFiniteSet(D), NEW Good \in SUBSET (SUBSET D),
           \A s \in SUBSET D :
              (\A u \in SUBSET s : u # s => u \in Good) => s \in Good
    PROVE  Good = SUBSET D
  <1> DEFINE Bad == (SUBSET D) \ Good
  <1>1. SUFFICES ASSUME Bad # {} PROVE FALSE
    OBVIOUS
  <1>2. Bad \subseteq FiniteSubsetsOf(D)
    <2>1. \A s \in Bad : s \in SUBSET D /\ IsFiniteSet(s)
      BY FS_Subset
    <2> HIDE DEF Bad
    <2> QED
      BY <2>1 DEF FiniteSubsetsOf
  <1>3. IsWellFoundedOn(StrictSubsetOrdering(D), FiniteSubsetsOf(D))
    BY FS_StrictSubsetOrderingWellFounded
  <1>4. PICK s \in Bad : \A u \in Bad : ~(<<u, s>> \in StrictSubsetOrdering(D))
    <2> HIDE DEF Bad
    <2> QED
      BY <1>1, <1>2, <1>3, WFMin
  <1>5. ASSUME NEW u \in SUBSET s, u # s PROVE u \in Good
    <2>1. u \in SUBSET D /\ s \in SUBSET D
      OBVIOUS
    <2>2. <<u, s>> \in StrictSubsetOrdering(D)
      BY <1>5, <2>1 DEF StrictSubsetOrdering
    <2> QED
      BY <1>4, <2>1, <2>2
  <1> QED
    BY <1>4, <1>5

\* A finite set of numbers that is not empty has a least one.
LEMMA MinOfFinite ==
    ASSUME NEW D \in SUBSET Nat, IsFiniteSet(D), D # {}
    PROVE  Min(D) \in D /\ \A x \in D : Min(D) <= x
  <1> DEFINE Good ==
                {s \in SUBSET D : s # {} => \E m \in s : \A x \in s : m <= x}
  <1>1. ASSUME NEW s \in SUBSET D, \A u \in SUBSET s : u # s => u \in Good
        PROVE  s \in Good
    <2>1. SUFFICES ASSUME NEW x \in s
                   PROVE  \E m \in s : \A y \in s : m <= y
      OBVIOUS
    <2>2. s \ {x} \in Good
      BY <1>1
    <2>3. CASE s \ {x} = {}
      BY <2>3
    <2>4. CASE s \ {x} # {}
      <3>1. PICK m \in s \ {x} : \A y \in s \ {x} : m <= y
        BY <2>2, <2>4
      <3>2. CASE m <= x
        BY <3>1, <3>2
      <3>3. CASE ~(m <= x)
        <4>1. \A y \in s : x <= y
          BY <3>1, <3>3
        <4> QED
          BY <4>1
      <3> QED
        BY <3>2, <3>3
    <2> QED
      BY <2>3, <2>4
  <1>2. Good \in SUBSET (SUBSET D)
    OBVIOUS
  <1>3. D \in Good
    <2> HIDE DEF Good
    <2>1. Good = SUBSET D
      BY <1>1, <1>2, SetInduction
    <2> QED
      BY <2>1
  <1>4. \E m \in D : \A x \in D : m <= x
    BY <1>3
  <1> QED
    BY <1>4 DEF Min

\* And a largest one.
LEMMA MaxOfFinite ==
    ASSUME NEW D \in SUBSET Nat, IsFiniteSet(D), D # {}
    PROVE  \E m \in D : \A x \in D : x <= m
  <1> DEFINE Good ==
                {s \in SUBSET D : s # {} => \E m \in s : \A x \in s : x <= m}
  <1>1. ASSUME NEW s \in SUBSET D, \A u \in SUBSET s : u # s => u \in Good
        PROVE  s \in Good
    <2>1. SUFFICES ASSUME NEW x \in s
                   PROVE  \E m \in s : \A y \in s : y <= m
      OBVIOUS
    <2>2. s \ {x} \in Good
      BY <1>1
    <2>3. CASE s \ {x} = {}
      BY <2>3
    <2>4. CASE s \ {x} # {}
      <3>1. PICK m \in s \ {x} : \A y \in s \ {x} : y <= m
        BY <2>2, <2>4
      <3>2. CASE x <= m
        BY <3>1, <3>2
      <3>3. CASE ~(x <= m)
        <4>1. \A y \in s : y <= x
          BY <3>1, <3>3
        <4> QED
          BY <4>1
      <3> QED
        BY <3>2, <3>3
    <2> QED
      BY <2>3, <2>4
  <1>2. Good \in SUBSET (SUBSET D)
    OBVIOUS
  <1>3. D \in Good
    <2> HIDE DEF Good
    <2>1. Good = SUBSET D
      BY <1>1, <1>2, SetInduction
    <2> QED
      BY <2>1
  <1> QED
    BY <1>3

\* The element that the fold takes next.
Pick(s) == CHOOSE x \in s : TRUE

\* It is one of them.
LEMMA PickIsElement == \A s : s # {} => Pick(s) \in s
  BY DEF Pick

\* A function that holds the sums over the subsets of a set; and one turn of its
\* definition.
Sums(g, v, D) ==
    \A s \in SUBSET D :
        g[s] = IF s = {} THEN 0 ELSE v[Pick(s)] + g[s \ {Pick(s)}]

Fold(g, v, D) ==
    [s \in SUBSET D |-> IF s = {} THEN 0 ELSE v[Pick(s)] + g[s \ {Pick(s)}]]

\* There is one value for each subset.
LEMMA SumsAgree ==
    ASSUME NEW v, NEW D, IsFiniteSet(D),
           NEW g, NEW h, Sums(g, v, D), Sums(h, v, D)
    PROVE  \A s \in SUBSET D : g[s] = h[s]
  <1> DEFINE Good == {s \in SUBSET D : g[s] = h[s]}
  <1>1. ASSUME NEW s \in SUBSET D, \A u \in SUBSET s : u # s => u \in Good
        PROVE  s \in Good
    <2>1. CASE s = {}
      BY <2>1 DEF Sums
    <2>2. CASE s # {}
      <3>1. Pick(s) \in s
        BY <2>2, PickIsElement
      <3>2. s \ {Pick(s)} \in Good
        BY <1>1, <3>1
      <3>3. g[s \ {Pick(s)}] = h[s \ {Pick(s)}]
        BY <3>2
      <3> QED
        BY <2>2, <3>3 DEF Sums
    <2> QED
      BY <2>1, <2>2
  <1>2. Good = SUBSET D
    <2>1. Good \in SUBSET (SUBSET D)
      OBVIOUS
    <2> HIDE DEF Good
    <2> QED
      BY <1>1, <2>1, SetInduction
  <1> QED
    BY <1>2

\* The sums over a set hold the sums over its subsets.
LEMMA SumsOfSubset ==
    ASSUME NEW v, NEW D, NEW g, Sums(g, v, D), NEW S \in SUBSET D
    PROVE  Sums(g, v, S)
  BY DEF Sums

\* There is such a function: the CHOOSE in the fold of the library finds one.
LEMMA SumsExist ==
    ASSUME NEW v, NEW D, IsFiniteSet(D)
    PROVE  \E g : g = Fold(g, v, D)
  <1> DEFINE Chosen(s) == CHOOSE g : Sums(g, v, s)
             total(s) == IF s = {} THEN 0
                         ELSE v[Pick(s)] + Chosen(s \ {Pick(s)})[s \ {Pick(s)}]
             Good == {s \in SUBSET D : \E g : Sums(g, v, s)}
             f == [s \in SUBSET D |-> total(s)]
  <1>1. ASSUME NEW s \in SUBSET D, \A u \in SUBSET s : u # s => u \in Good
        PROVE  \A w \in SUBSET s : w # s => Chosen(w)[w] = total(w)
    <2>1. SUFFICES ASSUME NEW w \in SUBSET s, w # s
                   PROVE  Chosen(w)[w] = total(w)
      OBVIOUS
    <2>2. w \in SUBSET D
      OBVIOUS
    <2>3. Sums(Chosen(w), v, w)
      <3>1. w \in Good
        BY <1>1, <2>1, Zenon
      <3>2. \E g : Sums(g, v, w)
        BY <3>1
      <3> QED
        BY <3>2, Zenon
    <2>4. CASE w = {}
      <3> HIDE DEF Chosen
      <3> QED
        BY <2>3, <2>4 DEF Sums
    <2>5. CASE w # {}
      <3> DEFINE x == w \ {Pick(w)}
      <3>1. Chosen(w)[w] = v[Pick(w)] + Chosen(w)[x]
        BY <2>3, <2>5 DEF Sums
      <3>2. x \in SUBSET w /\ x \in SUBSET s /\ x # s /\ x \in SUBSET D
        BY <2>2, <2>5, PickIsElement
      <3>3. Sums(Chosen(x), v, x) /\ Sums(Chosen(w), v, x)
        <4>1. \E g : Sums(g, v, x)
          BY <1>1, <3>2
        <4>2. Sums(Chosen(x), v, x)
          BY <4>1, Zenon
        <4> HIDE DEF Chosen, x
        <4> QED
          BY <2>3, <3>2, <4>2, SumsOfSubset
      <3>4. IsFiniteSet(x)
        BY <3>2, FS_Subset
      <3>5. Chosen(w)[x] = Chosen(x)[x]
        <4> HIDE DEF Chosen, x
        <4> QED
          BY <3>3, <3>4, SumsAgree
      <3> QED
        BY <2>2, <2>5, <3>1, <3>5
    <2> QED
      BY <2>2, <2>4, <2>5
  <1>2. ASSUME NEW s \in SUBSET D, \A u \in SUBSET s : u # s => u \in Good
        PROVE  s \in Good
    <2>1. Sums([u \in SUBSET s |-> total(u)], v, s)
      <3> DEFINE h == [u \in SUBSET s |-> total(u)]
      <3>1. SUFFICES ASSUME NEW u \in SUBSET s
                     PROVE  h[u] = IF u = {} THEN 0
                                   ELSE v[Pick(u)] + h[u \ {Pick(u)}]
        BY DEF Sums
      <3>2. h[u] = total(u)
        OBVIOUS
      <3>3. CASE u = {}
        BY <3>2, <3>3
      <3>4. CASE u # {}
        <4> DEFINE w == u \ {Pick(u)}
        <4>1. Chosen(w)[w] = total(w)
          <5>1. w \in SUBSET s /\ w # s
            BY <3>4, PickIsElement
          <5> HIDE DEF w, total, Chosen
          <5> QED
            BY <1>1, <1>2, <5>1
        <4>2. h[w] = total(w)
          OBVIOUS
        <4>3. total(u) = v[Pick(u)] + Chosen(w)[w]
          BY <3>4
        <4> HIDE DEF h, total, Chosen
        <4> QED
          BY <3>2, <3>4, <4>1, <4>2, <4>3
      <3> QED
        BY <3>3, <3>4
    <2> HIDE DEF Chosen, total
    <2> QED
      BY <2>1
  <1>3. Good = SUBSET D
    <2>1. Good \in SUBSET (SUBSET D)
      OBVIOUS
    <2> HIDE DEF Good
    <2> QED
      BY <1>2, <2>1, SetInduction
  <1>4. \A s \in SUBSET D :
           f[s] = IF s = {} THEN 0 ELSE v[Pick(s)] + f[s \ {Pick(s)}]
    <2>1. TAKE s \in SUBSET D
    <2>2. f[s] = total(s)
      OBVIOUS
    <2>3. CASE s = {}
      BY <2>2, <2>3
    <2>4. CASE s # {}
      <3> DEFINE w == s \ {Pick(s)}
      <3>1. \A u \in SUBSET s : u # s => u \in Good
        BY <1>3
      <3>2. w \in SUBSET s /\ w # s /\ w \in SUBSET D
        BY <2>4, PickIsElement
      <3>5. Chosen(w)[w] = total(w)
        <4> HIDE DEF w, total, Chosen
        <4> QED
          BY <1>1, <3>1, <3>2
      <3>3. f[w] = total(w)
        BY <3>2
      <3>4. total(s) = v[Pick(s)] + Chosen(w)[w]
        BY <2>4
      <3> HIDE DEF f, total, Chosen
      <3> QED
        BY <2>2, <2>4, <3>5, <3>3, <3>4
    <2> QED
      BY <2>3, <2>4
  <1>5. f = [s \in SUBSET D |-> f[s]]
    OBVIOUS
  <1>6. f = Fold(f, v, D)
    <2> HIDE DEF f
    <2> QED
      BY <1>4, <1>5, Zenon DEF Fold
  <1> HIDE DEF f
  <1> QED
    BY <1>6

\* SumOver is what every such function says.
LEMMA SumOverIs ==
    ASSUME NEW v, NEW D, IsFiniteSet(D),
           NEW g, Sums(g, v, D), NEW S \in SUBSET D
    PROVE  SumOver(v, S) = g[S]
  <1> DEFINE sums == CHOOSE h : h = Fold(h, v, S)
  <1>1. IsFiniteSet(S)
    BY FS_Subset
  <1>2. sums = Fold(sums, v, S)
    BY <1>1, SumsExist, Zenon
  <1>3. SumOver(v, S) = sums[S]
    BY Zenon DEF SumOver, MapThenSumSet, MapThenFoldSet, Fold, Pick
  <1> HIDE DEF sums
  <1>4. Sums(sums, v, S)
    <2>1. \A s \in SUBSET S : sums[s] = Fold(sums, v, S)[s]
      BY <1>2, Zenon
    <2> QED
      BY <2>1 DEF Sums, Fold
  <1>5. Sums(g, v, S)
    BY SumsOfSubset
  <1> QED
    BY <1>1, <1>3, <1>4, <1>5, SumsAgree

\* The sums of natural numbers are natural numbers.
LEMMA SumsAreNat ==
    ASSUME NEW D, IsFiniteSet(D), NEW v \in [D -> Nat], NEW g, Sums(g, v, D)
    PROVE  \A s \in SUBSET D : g[s] \in Nat
  <1> DEFINE Good == {s \in SUBSET D : g[s] \in Nat}
  <1>1. ASSUME NEW s \in SUBSET D, \A u \in SUBSET s : u # s => u \in Good
        PROVE  s \in Good
    <2>1. CASE s = {}
      <3>1. g[s] = IF s = {} THEN 0 ELSE v[Pick(s)] + g[s \ {Pick(s)}]
        BY DEF Sums
      <3> QED
        BY <2>1, <3>1
    <2>2. CASE s # {}
      <3>1. Pick(s) \in s
        BY <2>2, PickIsElement
      <3>2. g[s \ {Pick(s)}] \in Nat
        BY <1>1, <3>1
      <3>3. v[Pick(s)] \in Nat
        BY <3>1
      <3> QED
        BY <2>2, <3>2, <3>3 DEF Sums
    <2> QED
      BY <2>1, <2>2
  <1>2. Good = SUBSET D
    <2>1. Good \in SUBSET (SUBSET D)
      OBVIOUS
    <2> HIDE DEF Good
    <2> QED
      BY <1>1, <2>1, SetInduction
  <1> QED
    BY <1>2

\* It does not matter which element is taken first.
LEMMA SumsTakeAny ==
    ASSUME NEW D, IsFiniteSet(D), NEW v \in [D -> Nat], NEW g, Sums(g, v, D)
    PROVE  \A s \in SUBSET D : \A y \in s : g[s] = v[y] + g[s \ {y}]
  <1> DEFINE Good == {s \in SUBSET D : \A y \in s : g[s] = v[y] + g[s \ {y}]}
  <1>1. ASSUME NEW s \in SUBSET D, \A u \in SUBSET s : u # s => u \in Good
        PROVE  s \in Good
    <2>1. SUFFICES ASSUME NEW y \in s PROVE g[s] = v[y] + g[s \ {y}]
      OBVIOUS
    <2> DEFINE x == Pick(s)
               both == s \ {x, y}
    <2>2. x \in s /\ g[s] = v[x] + g[s \ {x}]
      BY <2>1, PickIsElement DEF Sums
    <2>3. CASE x = y
      BY <2>2, <2>3
    <2>4. CASE x # y
      <3> HIDE DEF x
      <3>1. /\ s \ {x} \in Good /\ y \in s \ {x}
            /\ s \ {y} \in Good /\ x \in s \ {y}
        BY <1>1, <2>1, <2>2, <2>4
      <3>2. /\ (s \ {x}) \ {y} = both /\ (s \ {y}) \ {x} = both
            /\ both \in SUBSET D
        OBVIOUS
      <3>3. g[s \ {x}] = v[y] + g[both] /\ g[s \ {y}] = v[x] + g[both]
        <4> HIDE DEF both
        <4>1. g[s \ {x}] = v[y] + g[(s \ {x}) \ {y}]
          BY <3>1
        <4>2. g[s \ {y}] = v[x] + g[(s \ {y}) \ {x}]
          BY <3>1
        <4> QED
          BY <3>2, <4>1, <4>2, Zenon
      <3>4. v[x] \in Nat /\ v[y] \in Nat /\ g[both] \in Nat
        BY <2>1, <2>2, <3>2, SumsAreNat
      <3> HIDE DEF both
      <3> QED
        BY <2>2, <3>3, <3>4
    <2> QED
      BY <2>3, <2>4
  <1>2. Good = SUBSET D
    <2>1. Good \in SUBSET (SUBSET D)
      OBVIOUS
    <2> HIDE DEF Good
    <2> QED
      BY <1>1, <2>1, SetInduction
  <1> QED
    BY <1>2

\* More elements, no smaller a sum.
LEMMA SumsGrow ==
    ASSUME NEW D, IsFiniteSet(D), NEW v \in [D -> Nat], NEW g, Sums(g, v, D),
           NEW s \in SUBSET D
    PROVE  \A t \in SUBSET D : s \subseteq t => g[s] <= g[t]
  <1> DEFINE Good == {t \in SUBSET D : s \subseteq t => g[s] <= g[t]}
  <1>0. \A t \in SUBSET D : g[t] \in Nat
    BY SumsAreNat
  <1>1. ASSUME NEW t \in SUBSET D, \A u \in SUBSET t : u # t => u \in Good
        PROVE  t \in Good
    <2>1. SUFFICES ASSUME s \subseteq t PROVE g[s] <= g[t]
      OBVIOUS
    <2>2. CASE s = t
      BY <1>0, <2>2
    <2>3. CASE s # t
      <3>1. PICK y \in t : y \notin s
        BY <2>1, <2>3
      <3>2. t \ {y} \in Good /\ s \subseteq t \ {y}
        BY <1>1, <2>1, <3>1
      <3>3. g[s] <= g[t \ {y}]
        BY <3>2
      <3>4. g[t] = v[y] + g[t \ {y}]
        BY <3>1, SumsTakeAny
      <3>5. v[y] \in Nat /\ g[s] \in Nat /\ g[t \ {y}] \in Nat
        BY <1>0, <3>1
      <3> QED
        BY <3>3, <3>4, <3>5
    <2> QED
      BY <2>2, <2>3
  <1>2. Good = SUBSET D
    <2>1. Good \in SUBSET (SUBSET D)
      OBVIOUS
    <2> HIDE DEF Good
    <2> QED
      BY <1>1, <2>1, SetInduction
  <1> QED
    BY <1>2

\* What the votes add up to.
LEMMA SumOverFacts ==
    ASSUME NEW D, IsFiniteSet(D), NEW v \in [D -> Nat]
    PROVE  /\ SumOver(v, {}) = 0
           /\ \A s \in SUBSET D : SumOver(v, s) \in Nat
           /\ \A s, t \in SUBSET D :
                 s \subseteq t => SumOver(v, s) <= SumOver(v, t)
  <1>1. PICK g : g = Fold(g, v, D)
    BY SumsExist
  <1>2. Sums(g, v, D)
    <2>1. \A s \in SUBSET D : g[s] = Fold(g, v, D)[s]
      BY <1>1, Zenon
    <2> QED
      BY <2>1 DEF Sums, Fold
  <1>3. \A s \in SUBSET D : SumOver(v, s) = g[s]
    BY <1>2, SumOverIs
  <1>4. g[{}] = 0
    BY <1>2 DEF Sums
  <1>5. SumOver(v, {}) = g[{}]
    <2>1. {} \in SUBSET D
      OBVIOUS
    <2> QED
      BY <1>3, <2>1, Zenon
  <1>6. \A s \in SUBSET D : g[s] \in Nat
    BY <1>2, SumsAreNat
  <1>7. \A s, t \in SUBSET D : s \subseteq t => g[s] <= g[t]
    BY <1>2, SumsGrow
  <1> QED
    BY <1>3, <1>4, <1>5, <1>6, <1>7

-----------------------------------------------------------------------------
(* The vote. *)

\* The counts behind the median.
LEMMA CountFacts ==
    ASSUME votes \in [Distance -> Nat]
    PROVE  /\ Votes \in Nat /\ Votes = Count(Distance) /\ Count({}) = 0
           /\ \A s \in SUBSET Distance : Count(s) \in Nat
           /\ \A s, t \in SUBSET Distance :
                 s \subseteq t => Count(s) <= Count(t)
  BY FaceAssumption, SumOverFacts DEF Count, Votes

\* The median of some votes is one of the distances, and no fewer than half of
\* the votes are at most that far away.
LEMMA MedianIsADistance ==
    ASSUME votes \in [Distance -> Nat], Votes # 0
    PROVE  /\ Median \in Distance
           /\ Count({e \in Distance : e <= Median}) > Votes \div 2
  <1> DEFINE upto(m) == {e \in Distance : e <= m}
             above == {d \in Distance : Count(upto(d)) > Votes \div 2}
  <1>1. Distance \in SUBSET Nat /\ IsFiniteSet(Distance)
    BY FaceAssumption
  <1>2. above # {}
    <2>1. Distance # {}
      BY CountFacts
    <2>2. PICK m \in Distance : \A d \in Distance : d <= m
      BY <1>1, <2>1, MaxOfFinite
    <2>3. upto(m) = Distance
      BY <2>2
    <2>4. Count(upto(m)) = Votes
      BY CountFacts, <2>3, Zenon
    <2>5. Votes > Votes \div 2
      BY CountFacts
    <2>6. Count(upto(m)) > Votes \div 2
      BY <2>4, <2>5
    <2> HIDE DEF upto
    <2> QED
      BY <2>6
  <1>3. above \in SUBSET Nat /\ IsFiniteSet(above)
    <2>1. above \in SUBSET Distance
      OBVIOUS
    <2> HIDE DEF above
    <2> QED
      BY <1>1, <2>1, FS_Subset
  <1>4. PICK m \in above : m = Min(above)
    <2> HIDE DEF above
    <2> QED
      BY <1>2, <1>3, MinOfFinite
  <1>5. m = Median
    BY <1>4, Zenon DEF Median
  <1>6. m \in Distance /\ Count(upto(m)) > Votes \div 2
    <2> HIDE DEF upto
    <2> QED
      OBVIOUS
  <1> QED
    BY <1>5, <1>6, Zenon

\* The median is within the threshold only if more than half of the votes are.
LEMMA MedianIsMajority ==
    ASSUME votes \in [Distance -> Nat], Votes # 0, Median <= Threshold
    PROVE  2 * Count({d \in Distance : d <= Threshold}) > Votes
  <1> DEFINE upto(m) == {e \in Distance : e <= m}
             a == Count(upto(Median))
             b == Count(upto(Threshold))
  <1>1. Median \in Distance /\ a > Votes \div 2
    BY MedianIsADistance, Zenon
  <1>2. upto(Median) \subseteq upto(Threshold)
    <2>1. Distance \subseteq Nat /\ Threshold \in Nat
      BY FaceAssumption
    <2>2. ASSUME NEW m \in Distance, NEW e \in Distance, e <= m, m <= Threshold
          PROVE  e <= Threshold
      BY <2>1, <2>2
    <2> QED
      BY <1>1, <2>2
  <1>3. upto(Median) \in SUBSET Distance /\ upto(Threshold) \in SUBSET Distance
    OBVIOUS
  <1>4. a \in Nat /\ b \in Nat /\ a <= b
    <2> HIDE DEF upto
    <2> QED
      BY <1>2, <1>3, CountFacts
  <1>5. Votes \in Nat
    BY CountFacts
  <1>6. 2 * b > Votes
    <2>1. a > Votes \div 2
      BY <1>1
    <2> HIDE DEF a, b
    <2> QED
      BY <1>4, <1>5, <2>1
  <1> QED
    BY <1>6

\* The verdict is "ok" only if the median is within the threshold.
LEMMA OkMeans ==
    ASSUME votes \in [Distance -> Nat], Decision = "ok"
    PROVE  Votes >= MinFrames /\ Votes # 0 /\ Median <= Threshold
  <1>1. Votes \in Nat /\ MinFrames \in Nat \ {0} /\ Threshold \in Nat
    BY CountFacts, FaceAssumption
  <1>2. Votes >= MinFrames
    BY <1>1 DEF Decision
  <1>3. Votes # 0
    BY <1>1, <1>2
  <1>4. Median \in Nat
    BY <1>3, MedianIsADistance, FaceAssumption
  <1>5. Median <= Threshold
    BY <1>1, <1>2, <1>4 DEF Decision
  <1> QED
    BY <1>2, <1>3, <1>5

\* A vote goes on only after a live pair, and the answer is the last there is.
VoteInv ==
    /\ votes \in [Distance -> Nat]
    /\ pc \in {"first", "relight", "loop", "capture", "vote", "decide"} => live
    /\ result # "none" => pc = "returned"
    /\ AcceptedByMajority

\* Every step keeps the votes and the verdict together.
LEMMA VoteStep == VoteInv /\ [Next]_vars => VoteInv'
  <1> SUFFICES ASSUME VoteInv, [Next]_vars PROVE VoteInv'
    OBVIOUS
  <1> USE DEF VoteInv, Goes, Returns
  <1>1. CASE DecideMatch
    <2>1. /\ UNCHANGED <<votes, live>> /\ live /\ pc' = "returned"
          /\ result' = Decision
      BY <1>1 DEF DecideMatch
    <2>2. ASSUME result' = "ok" PROVE AcceptedByMajority'
      <3>1. Votes >= MinFrames /\ Votes # 0 /\ Median <= Threshold
        BY <2>1, <2>2, OkMeans
      <3>2. 2 * Count({d \in Distance : d <= Threshold}) > Votes
        BY <3>1, MedianIsMajority
      <3> QED
        BY <2>1, <3>1, <3>2 DEF AcceptedByMajority, Votes, Count
    <2> QED
      BY <2>1, <2>2 DEF AcceptedByMajority
  <1>2. CASE UNCHANGED <<pc, live, votes, result>>
    BY <1>2 DEF AcceptedByMajority, Votes, Count
  <1>3. ASSUME pc # "returned", result' # "ok",
               result' # "none" => pc' = "returned",
               pc' \in {"first", "relight", "loop", "capture", "vote", "decide"}
                  => live',
               votes' \in [Distance -> Nat]
        PROVE  VoteInv'
    BY <1>3 DEF AcceptedByMajority
  <1>4. CASE Load \/ Works
    BY <1>2, <1>4 DEF Load, Works
  <1>5. CASE LampOffForBaseline \/ LampOn \/ RestoreLamp \/ Relight
    BY <1>3, <1>5 DEF LampOffForBaseline, LampOn, RestoreLamp, Relight
  <1>6. ASSUME NEW at \in {"off_frame", "on_frame"}, Capturing(at) PROVE VoteInv'
    BY <1>2, <1>3, <1>6 DEF Capturing
  <1>7. CASE pc = "off_frame" /\ Keeps("off", "lamp_on")
    BY <1>3, <1>7 DEF Keeps
  <1>8. CASE pc = "on_frame" /\ Keeps("on", "restore")
    BY <1>3, <1>8 DEF Keeps
  <1>9. CASE Analyze
    BY <1>3, <1>9 DEF Analyze, Embeds
  <1>10. ASSUME NEW next \in {"relight", "loop"}, FrameDistance(next), live,
                UNCHANGED live, pc # "returned"
         PROVE  VoteInv'
    <2>1. votes' \in [Distance -> Nat]
      BY <1>10 DEF FrameDistance
    <2> QED
      BY <1>3, <1>10, <2>1 DEF FrameDistance
  <1>11. CASE FirstVote
    <2>1. CASE FrameDistance("relight")
      BY <1>10, <1>11, <2>1 DEF FirstVote
    <2>2. CASE MatcherFails
      BY <1>3, <1>11, <2>2 DEF FirstVote, MatcherFails
    <2> QED
      BY <1>11, <2>1, <2>2 DEF FirstVote
  <1>12. CASE Loop
    BY <1>3, <1>12 DEF Loop
  <1>13. CASE CaptureFrame
    BY <1>2, <1>3, <1>13 DEF CaptureFrame, Embeds
  <1>14. CASE Vote
    <2>1. CASE FrameDistance("loop")
      BY <1>10, <1>14, <2>1 DEF Vote
    <2>2. CASE MatcherFails
      BY <1>3, <1>14, <2>2 DEF Vote, MatcherFails
    <2> QED
      BY <1>14, <2>1, <2>2 DEF Vote
  <1>15. CASE UNCHANGED vars
    BY <1>2, <1>15 DEF vars
  <1> QED
    BY <1>1, <1>4, <1>5, <1>6, <1>7, <1>8, <1>9, <1>11, <1>12, <1>13, <1>14, <1>15
       DEF Next, CaptureOff, CaptureOn

\* Whatever the distances and the numbers of frames, a face is accepted only on a
\* live pair and by a strict majority of MinFrames frames or more.
THEOREM MajorityAccepts == Spec => []AcceptedByMajority
  <1>1. Init => VoteInv
    BY DEF Init, VoteInv, AcceptedByMajority
  <1> QED
    BY <1>1, VoteStep, PTL DEF Spec, VoteInv

=============================================================================

----------------------------- MODULE LoginProofs -----------------------------
(***************************************************************************)
(* What LoginSession promises, for every deadline, length of the legs and  *)
(* set of faults: when it returns, what it opens, what it costs, and that  *)
(* a deadline that covers its legs leaves room for the PIN.                *)
(***************************************************************************)
EXTENDS LoginSession, WatchdogProofs

\* A step of the session is a step of the watchdog or leaves it alone.
LEMMA StepIsWatchdogStep == Next => [WatchdogNext]_watchdogVars
<1> SUFFICES ASSUME Next
             PROVE  [WatchdogNext]_watchdogVars
  OBVIOUS
<1>1. ASSUME NEW from, NEW how \in {"success", "failure"},
             Finishes(from, how)
      PROVE  WatchdogNext
  BY <1>1 DEF Finishes, WatchdogNext, Exit
<1>2. CASE Abort \/ Unsupplied \/ NotSpawned
  BY <1>2 DEF Abort, Unsupplied, NotSpawned, WatchdogNext
<1>3. CASE RunHelper
  <2>1. SessionDeadline \in Budget
    BY LoginAssumption DEF SessionDeadline
  <2>2. QED
    BY <1>3, <2>1 DEF RunHelper, WatchdogNext
<1>4. CASE Connect \/ FaceUnlock \/ ReadPin \/ UnlockReply
  BY <1>1, <1>4 DEF Connect, FaceUnlock, ReadPin, UnlockReply, Steps
<1>5. CASE FaceVerify \/ FaceUnseal \/ ConnectFprint \/ FingerVerify
  BY <1>5 DEF FaceVerify, FaceUnseal, ConnectFprint, FingerVerify, Steps
<1>6. CASE Unseal
  BY <1>1, <1>6 DEF Unseal, Steps, WatchdogNext, Exit
<1>7. CASE Serve
  BY <1>7 DEF Serve
<1>8. CASE TimePasses \/ Supervise \/ Deliver \/ Wake \/ Disturb
  BY <1>8 DEF TimePasses, Supervise, Deliver, Wake, Disturb, WatchdogNext
<1>9. QED
  BY <1>2, <1>3, <1>4, <1>5, <1>6, <1>7, <1>8 DEF Next

\* The session implements the watchdog, so what is proved of the watchdog
\* holds at every login.
THEOREM SessionIsSupervised == Spec => Supervised
<1>1. Init => WatchdogInit
  BY DEF Init
<1>2. [Next]_vars => [WatchdogNext]_watchdogVars
  BY StepIsWatchdogStep DEF vars
<1>3. QED
  BY <1>1, <1>2, PTL DEF Spec, Supervised, WatchdogSpec

\* No login is held up beyond the deadline of its helper and two grace
\* periods.
THEOREM LoginNeverLate == Spec => []ReturnsInTime
  BY SessionIsSupervised, NeverLate DEF Supervised

-----------------------------------------------------------------------------
(* What the outcome and the keyring say of each other. *)

\* A step of the watchdog alone reports Authorized only for a helper that
\* succeeded, and makes none succeed.
LEMMA WatchdogKeepsFaith ==
    ASSUME Supervise \/ Deliver \/ Wake \/ Disturb \/ TimePasses
               \/ Abort \/ Unsupplied \/ NotSpawned
    PROVE  /\ UNCHANGED <<config, leg, due, matched, tries, daemon>>
           /\ exit' = exit \/ (exit' = "signal" /\ child = "running")
           /\ \/ outcome' = outcome \/ outcome' # "Authorized"
              \/ exit' = "success" /\ child' = "gone"
           /\ child' = child \/ child' \in {"zombie", "gone"}
           /\ child = "gone" => child' = "gone"
           /\ gate' = "idle" => gate = "idle"
           /\ gate = "idle" /\ gate' = "idle" =>
                  UNCHANGED outcome /\ (child' = child \/ child # "none")
<1> USE DEF clock, thread, process, Returns, helper
<1>1. CASE Abort \/ Unsupplied \/ NotSpawned
  BY <1>1 DEF Abort, Unsupplied, NotSpawned, ReturnsEarly
<1>2. CASE TimePasses
  BY <1>2 DEF TimePasses, Tick, Sleeping
<1>3. CASE Deliver \/ Wake \/ Disturb
  BY <1>3 DEF Deliver, Wake, Disturb, Killed, KilledByOther, Ends, Stick, Unstick, Runs
<1>4. CASE AwaitExit /\ UNCHANGED <<config, helper, daemon>>
  BY <1>4 DEF AwaitExit, Collect, SleepTowards, Classify
<1>5. CASE (SendSignal \/ SignalRefused) /\ UNCHANGED <<config, helper, daemon>>
  BY <1>5 DEF SendSignal, SignalRefused, LeaveToReaper
<1>6. CASE WaitWithin /\ UNCHANGED <<config, helper, daemon>>
  BY <1>6 DEF WaitWithin, Collect, SleepTowards, LeaveToReaper
<1>7. CASE Reap /\ UNCHANGED <<config, helper, daemon>>
  BY <1>7 DEF Reap
<1>8. CASE Supervise
  <2>1. AwaitExit \/ SendSignal \/ SignalRefused \/ WaitWithin \/ Reap
    BY <1>8 DEF Supervise, Thread
  <2>2. UNCHANGED <<config, helper, daemon>>
    BY <1>8 DEF Supervise
  <2>3. QED
    BY <1>4, <1>5, <1>6, <1>7, <2>1, <2>2
<1>9. QED
  BY <1>1, <1>2, <1>3, <1>8

\* Every step keeps what the legs know.
LEMMA LegsKeepKnowing ==
    ASSUME pin \in Pin, LegsKnow, Next
    PROVE  pin' \in Pin /\ LegsKnow'
<1> USE DEF LegsKnow, OpenedByAFactor, TriesBounded, config, helper, daemon,
            watchdogVars, Pin, Runs
<1>1. ASSUME NEW from \in Leg, NEW how \in {"success", "failure"},
             Finishes(from, how),
             how = "success" => request = "granted"
      PROVE  pin' \in Pin /\ LegsKnow'
  BY <1>1 DEF Finishes, Ends, thread, clock
<1>2. CASE Supervise \/ Deliver \/ Wake \/ Disturb \/ TimePasses
               \/ Abort \/ Unsupplied \/ NotSpawned
  BY <1>2, WatchdogKeepsFaith
<1>3. CASE RunHelper
  BY <1>3 DEF RunHelper, Spawn, Enters
<1>4. CASE Connect
  BY <1>1, <1>4 DEF Connect, Steps, Enters, Leg
<1>5. CASE FaceVerify
  BY <1>5 DEF FaceVerify, Steps, Enters
<1>6. CASE FaceUnseal
  BY <1>6 DEF FaceUnseal, Steps, Enters
<1>7. CASE FaceUnlock
  BY <1>1, <1>7 DEF FaceUnlock, Steps, Enters, Leg
<1>8. CASE ReadPin
  BY <1>1, <1>8 DEF ReadPin, AfterRead, Steps, Enters, Leg
<1>9. CASE ConnectFprint \/ FingerVerify
  BY <1>9 DEF ConnectFprint, FingerVerify, Steps, Enters
<1>10. CASE Unseal
  BY <1>1, <1>10 DEF Unseal, Steps, Enters, Ends, thread, clock, Leg
<1>11. CASE UnlockReply
  BY <1>1, <1>11 DEF UnlockReply, Leg
<1>12. CASE Serve
  BY <1>12 DEF Serve
<1>13. QED
  BY <1>2, <1>3, <1>4, <1>5, <1>6, <1>7, <1>8, <1>9, <1>10, <1>11, <1>12
     DEF Next

\* What the legs know holds at every login.
THEOREM LegsAlwaysKnow == Spec => []LegsKnow
<1>1. Init => pin \in Pin /\ LegsKnow
  BY DEF Init, WatchdogInit, LegsKnow, OpenedByAFactor, TriesBounded
<1>2. (pin \in Pin /\ LegsKnow) /\ [Next]_vars => (pin \in Pin /\ LegsKnow)'
  <2>1. CASE Next
    BY <2>1, LegsKeepKnowing
  <2>2. CASE UNCHANGED vars
    BY <2>2 DEF vars, LegsKnow, OpenedByAFactor, TriesBounded, config, helper,
                daemon, watchdogVars
  <2>3. QED
    BY <2>1, <2>2
<1>3. QED
  BY <1>1, <1>2, PTL DEF Spec

\* The keyring is only ever opened by the right PIN or an accepted face.
THEOREM FactorNeeded == Spec => []OpenedByAFactor
<1>1. LegsKnow => OpenedByAFactor
  BY DEF LegsKnow
<1>2. QED
  BY <1>1, LegsAlwaysKnow, PTL

\* A login that is reported as an unlock has unlocked the keyring.
THEOREM AuthorizedMeansOpen == Spec => []AuthorizedIsOpen
<1>1. LegsKnow => AuthorizedIsOpen
  BY DEF LegsKnow, AuthorizedIsOpen
<1>2. QED
  BY <1>1, LegsAlwaysKnow, PTL

\* A login costs at most one try of the TPM, and none without a wrong PIN.
THEOREM OneTryALogin == Spec => []TriesBounded
<1>1. LegsKnow => TriesBounded
  BY DEF LegsKnow
<1>2. QED
  BY <1>1, LegsAlwaysKnow, PTL

-----------------------------------------------------------------------------
(* The time that is left for the PIN. *)

\* Sums of legs are numbers, and the deadline of a session covers its legs.
LEMMA DeadlineCovers ==
    ASSUME DeadlinesCoverLegs, fingerprint \in BOOLEAN, face \in BOOLEAN
    PROVE  /\ SessionDeadline \in Nat
           /\ LegTime["connect"] + LegTime["read"] + LegTime["unseal"]
                + LegTime["unlock"] + (IF fingerprint THEN FingerLegs ELSE 0)
                + (IF face THEN FaceLegs ELSE 0) < SessionDeadline
<1>1. \A l \in Leg : LegTime[l] \in Nat
  BY LoginAssumption
<1>2. /\ LegTime["connect"] \in Nat /\ LegTime["read"] \in Nat
      /\ LegTime["unseal"] \in Nat /\ LegTime["unlock"] \in Nat
      /\ LegTime["fp_connect"] \in Nat /\ LegTime["finger"] \in Nat
      /\ LegTime["face"] \in Nat /\ LegTime["face_unseal"] \in Nat
      /\ LegTime["face_unlock"] \in Nat
  BY <1>1 DEF Leg
<1>3. /\ DefaultDeadline \in Nat /\ FingerprintDeadline \in Nat
      /\ FaceDeadline \in Nat
  BY LoginAssumption, WatchdogAssumption
<1>4. QED
  BY <1>2, <1>3 DEF DeadlinesCoverLegs, SessionDeadline, PinLegs, FingerLegs,
     FaceLegs

\* A helper that goes on to its next leg leaves what the legs after it take.
LEMMA LegLeavesRoom ==
    ASSUME RoomInv, {fingerprint, face} \subseteq BOOLEAN,
           NEW from \in Leg, NEW next \in Leg, Steps(from, next),
           <<from, next>> \in
              {<<"connect", "face">>, <<"connect", "read">>,
               <<"face", "face_unseal">>, <<"face", "read">>,
               <<"face_unseal", "face_unlock">>, <<"face_unseal", "read">>,
               <<"face_unlock", "read">>, <<"read", "fp_connect">>,
               <<"read", "unseal">>, <<"fp_connect", "finger">>,
               <<"fp_connect", "unseal">>, <<"finger", "unseal">>,
               <<"unseal", "unlock">>},
           next = "face" => face, next = "fp_connect" => fingerprint
    PROVE  RoomInv'
<1> USE DEF Steps, Enters, watchdogVars, config
<1>1. /\ LegTime["connect"] \in Nat /\ LegTime["read"] \in Nat
      /\ LegTime["unseal"] \in Nat /\ LegTime["unlock"] \in Nat
      /\ LegTime["fp_connect"] \in Nat /\ LegTime["finger"] \in Nat
      /\ LegTime["face"] \in Nat /\ LegTime["face_unseal"] \in Nat
      /\ LegTime["face_unlock"] \in Nat
  BY LoginAssumption DEF Leg
<1>2. leg = from /\ leg' = next /\ due' = now + LegTime[next]
  OBVIOUS
<1>3. AfterLeg' + LegTime[next] <= AfterLeg /\ AfterLeg \in Nat /\ AfterLeg' \in Nat
  BY <1>1, <1>2 DEF AfterLeg, FingerLegs, FaceLegs
<1>4. UNCHANGED <<now, gate, deadline, sigs, child, late>>
  OBVIOUS
<1>5. LegTime[next] \in Nat
  BY LoginAssumption
<1>6. ~late => now <= due' /\ due' + AfterLeg' < deadline
  <2> HIDE DEF AfterLeg
  <2>1. leg # "none"
    BY <1>2 DEF Leg
  <2>2. QED
    BY <1>2, <1>3, <1>5, <2>1 DEF RoomInv
<1>7. due' \in Nat
  BY <1>2, <1>5 DEF RoomInv
<1>8. leg # "none"
  BY <1>2 DEF Leg
<1>9. QED
  <2> HIDE DEF AfterLeg
  <2>1. QED
    BY <1>2, <1>4, <1>6, <1>7, <1>8 DEF RoomInv

\* Every step leaves room for the legs that are to come.
LEMMA RoomStep ==
    ASSUME DeadlinesCoverLegs, RoomInv, {fingerprint, face} \subseteq BOOLEAN, Next
    PROVE  RoomInv'
<1> USE DEF Runs, config, helper, daemon, watchdogVars, clock, thread, process
<1>0. ASSUME UNCHANGED <<now, leg, due, deadline, late, sigs, config>>,
             child # "none" \/ child' = child,
             gate' \in {gate, "returned"}
      PROVE  RoomInv'
  BY <1>0 DEF RoomInv, AfterLeg
<1>1. ASSUME NEW from, NEW how, Finishes(from, how) PROVE RoomInv'
  BY <1>0, <1>1 DEF Finishes, Ends
<1>2. CASE Abort \/ Unsupplied \/ NotSpawned
  BY <1>0, <1>2 DEF Abort, Unsupplied, NotSpawned, ReturnsEarly, Returns
<1>3. CASE RunHelper
  <2>1. /\ SessionDeadline \in Nat /\ LegTime["connect"] \in Nat
        /\ leg' = "connect" /\ due' = now + LegTime["connect"]
        /\ deadline' = now + SessionDeadline /\ UNCHANGED <<now, late, sigs>>
        /\ gate = "idle" /\ gate' = "polling"
    BY <1>3, DeadlineCovers, LoginAssumption DEF RunHelper, Spawn, Enters, Leg
  <2>2. LegTime["connect"] + AfterLeg' < SessionDeadline /\ AfterLeg' \in Nat
    <3>1. /\ LegTime["read"] \in Nat
          /\ LegTime["unseal"] \in Nat /\ LegTime["unlock"] \in Nat
          /\ LegTime["fp_connect"] \in Nat /\ LegTime["finger"] \in Nat
          /\ LegTime["face"] \in Nat /\ LegTime["face_unseal"] \in Nat
          /\ LegTime["face_unlock"] \in Nat
      BY LoginAssumption DEF Leg
    <3>2. UNCHANGED config
      BY <1>3 DEF RunHelper
    <3>3. QED
      BY <2>1, <3>1, <3>2, DeadlineCovers DEF AfterLeg, FingerLegs, FaceLegs
  <2> HIDE DEF AfterLeg
  <2>3. now \in Nat /\ sigs = {}
    BY <2>1 DEF RoomInv
  <2>4. QED
    BY <2>1, <2>2, <2>3 DEF RoomInv, Leg
<1>4. CASE Connect
  BY <1>1, <1>4, LegLeavesRoom DEF Connect, Leg
<1>5. CASE FaceVerify \/ FaceUnseal
  BY <1>5, LegLeavesRoom DEF FaceVerify, FaceUnseal, Leg
<1>6. CASE FaceUnlock
  BY <1>1, <1>6, LegLeavesRoom DEF FaceUnlock, Leg
<1>7. CASE ReadPin
  BY <1>1, <1>7, LegLeavesRoom DEF ReadPin, AfterRead, Leg
<1>8. CASE ConnectFprint \/ FingerVerify
  BY <1>8, LegLeavesRoom DEF ConnectFprint, FingerVerify, Leg
<1>9. CASE Unseal
  <2>1. CASE Steps("unseal", "unlock")
    BY <2>1, LegLeavesRoom DEF Leg
  <2>2. QED
    BY <1>0, <1>1, <1>9, <2>1 DEF Unseal, Ends
<1>10. CASE UnlockReply
  BY <1>1, <1>10 DEF UnlockReply
<1>11. CASE Serve
  BY <1>0, <1>11 DEF Serve
<1>12. CASE TimePasses
  <2>1. /\ now' = now + 1 /\ late' = (late \/ now' > due)
        /\ UNCHANGED <<leg, due, deadline, sigs, gate, child, config>>
    BY <1>12 DEF TimePasses, Tick
  <2>2. UNCHANGED AfterLeg
    BY <2>1 DEF AfterLeg
  <2>3. (late => late') /\ (~late' => ~late /\ ~(now' > due))
    BY <2>1, Zenon
  <2>4. now' \in Nat /\ (~(now' > due) => now' <= due)
    BY <2>1 DEF RoomInv
  <2> HIDE DEF AfterLeg
  <2>5. QED
    BY <2>1, <2>2, <2>3, <2>4 DEF RoomInv
<1>13. CASE Deliver \/ Wake \/ Disturb
  BY <1>0, <1>13 DEF Deliver, Wake, Disturb, Killed, KilledByOther, Ends, Stick,
     Unstick
<1>14. CASE Reap /\ UNCHANGED <<config, helper, daemon>>
  BY <1>0, <1>14 DEF Reap
    \* The thread gives up a helper that runs only at the deadline.
<1>15. CASE AwaitExit /\ UNCHANGED <<config, helper, daemon>>
  <2>1. CASE UNCHANGED gate \/ gate' = "returned"
    BY <1>0, <1>15, <2>1 DEF AwaitExit, Collect, SleepTowards, Returns
  <2>2. CASE gate' = "term"
    <3>1. /\ now >= deadline /\ gate = "polling" /\ leg # "none"
          /\ UNCHANGED <<now, leg, due, deadline, late, sigs, config, child>>
      BY <1>15, <2>2 DEF AwaitExit, Collect, SleepTowards, Returns, RoomInv
    <3>2. AfterLeg \in Nat
      BY LoginAssumption DEF AfterLeg, FingerLegs, FaceLegs, Leg
    <3>3. late
      <4> HIDE DEF AfterLeg
      <4>1. QED
        BY <3>1, <3>2 DEF RoomInv
    <3>4. UNCHANGED AfterLeg
      BY <3>1 DEF AfterLeg
    <3> HIDE DEF AfterLeg
    <3>5. QED
      BY <2>2, <3>1, <3>3, <3>4 DEF RoomInv
  <2>3. QED
    BY <1>15, <2>1, <2>2 DEF AwaitExit, Collect, SleepTowards, Returns
<1>16. CASE SendSignal /\ UNCHANGED <<config, helper, daemon>>
  BY <1>16 DEF SendSignal, RoomInv, AfterLeg
<1>160. CASE SignalRefused /\ UNCHANGED <<config, helper, daemon>>
  <2>1. UNCHANGED <<now, leg, due, deadline, late, sigs, config, child>>
    BY <1>160 DEF SignalRefused, LeaveToReaper
  <2>2. gate' = "returned"
    BY <1>160 DEF SignalRefused, LeaveToReaper, Returns
  <2>3. QED
    BY <1>0, <2>1, <2>2
<1>17. CASE WaitWithin /\ UNCHANGED <<config, helper, daemon>>
  <2>1. CASE UNCHANGED gate \/ gate' = "returned"
    BY <1>0, <1>17, <2>1 DEF WaitWithin, Collect, SleepTowards, LeaveToReaper,
       Returns
  <2>2. CASE gate = "terming" /\ gate' = "kill"
    BY <1>17, <2>2 DEF WaitWithin, Collect, SleepTowards, LeaveToReaper, Returns,
       RoomInv, AfterLeg
  <2>3. QED
    BY <1>17, <2>1, <2>2 DEF WaitWithin, Collect, SleepTowards, LeaveToReaper,
       Returns
<1>18. QED
  BY <1>2, <1>3, <1>4, <1>5, <1>6, <1>7, <1>8, <1>9, <1>10, <1>11, <1>12, <1>13,
     <1>14, <1>15, <1>16, <1>160, <1>17 DEF Next, Supervise, Thread

\* Whichever gestures a login goes through first, and however they end, the
\* watchdog does not cut off the PIN: no helper whose legs keep to their bounds
\* is sent a signal, if each deadline covers its legs as helper.rs says it does.
THEOREM PinHasRoom ==
    ASSUME DeadlinesCoverLegs
    PROVE  Spec => []RoomForThePin
<1> DEFINE Inv == RoomInv /\ {fingerprint, face} \subseteq BOOLEAN
<1>1. Init => Inv
  BY DEF Init, WatchdogInit, RoomInv
<1>2. Inv /\ [Next]_vars => Inv'
  <2>1. Next => UNCHANGED <<fingerprint, face>>
    BY DEF Next, config, Abort, Unsupplied, NotSpawned, RunHelper, Connect,
       FaceVerify, FaceUnseal, FaceUnlock, ReadPin, ConnectFprint,
       FingerVerify, Unseal, UnlockReply, Serve, TimePasses, Supervise, Deliver,
       Wake, Disturb, Steps, Finishes
  <2>2. UNCHANGED vars => (RoomInv => RoomInv') /\ UNCHANGED <<fingerprint, face>>
    BY DEF vars, RoomInv, AfterLeg, config, helper, watchdogVars
  <2>3. QED
    BY <2>1, <2>2, RoomStep
<1>3. Inv => RoomForThePin
  BY DEF RoomInv, RoomForThePin
<1> HIDE DEF Inv
<1>4. QED
  BY <1>1, <1>2, <1>3, PTL DEF Spec
=============================================================================

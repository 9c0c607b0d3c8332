---------------------------- MODULE WatchdogProofs ----------------------------
(***************************************************************************)
(* What Watchdog promises, for every budget, grace period and poll         *)
(* interval.                                                               *)
(***************************************************************************)
EXTENDS Watchdog, TLAPS

\* Where the clock and the next wake-up are in each phase: a sleep is cut off
\* at the end of its phase, so the phase is never overslept, and the phases
\* add up to the deadline and two grace periods.
OnTime ==
    /\ gate = "idle" => now = 0
    /\ gate = "polling" => now <= deadline /\ wake <= deadline
    /\ gate = "term" => now <= deadline
    /\ gate = "terming" => now <= until /\ wake <= until
    /\ gate = "terming" => until <= deadline + Grace
    /\ gate = "kill" => now <= deadline + Grace
    /\ gate = "killing" => now <= until /\ wake <= until
    /\ gate = "killing" => until <= deadline + 2 * Grace
    /\ gate = "returned" => now <= deadline + 2 * Grace

\* What the thread knows of its child in each phase.
ChildKnown ==
    /\ gate = "idle" => child = "none"
    /\ gate = "killing" => "KILL" \in sigs
    /\ reaper => gate = "returned"
    /\ ~HostReaps /\ gate \in Sleeping \cup {"term", "kill"} =>
           child \in {"running", "zombie"}

WatchdogInv == WatchdogTypeOK /\ OnTime /\ ChildKnown /\ NoHelperLeft

\* The initial states satisfy the invariant.
LEMMA InitWatchdogInv == WatchdogInit => WatchdogInv
<1> SUFFICES ASSUME WatchdogInit
             PROVE  WatchdogInv
  OBVIOUS
<1>1. WatchdogTypeOK
  BY DEF WatchdogInit, WatchdogTypeOK, GateResult
<1>2. OnTime /\ ChildKnown /\ NoHelperLeft
  BY DEF WatchdogInit, OnTime, ChildKnown, NoHelperLeft, Sleeping
<1>3. QED
  BY <1>1, <1>2 DEF WatchdogInv

\* A step of the thread, or of the one that waits in its place, keeps the
\* variables in their types.
LEMMA ThreadTypeOK ==
    ASSUME WatchdogInv, Thread \/ Reap \/ Tick
    PROVE  WatchdogTypeOK'
<1> USE WatchdogAssumption DEF WatchdogInv, WatchdogTypeOK, clock, thread,
        process, Sleeping, GateResult, Signal, Returns, Collect, SleepTowards
<1>1. ASSUME NEW result \in GateResult, Collect(result)
      PROVE  WatchdogTypeOK'
  BY <1>1
<1>2. ASSUME NEW end \in Nat, SleepTowards(end)
      PROVE  WatchdogTypeOK'
  BY <1>2
<1>3. CASE AwaitExit
  <2>1. Classify \in GateResult
    BY DEF Classify
  <2>2. CASE Collect(Classify) \/ SleepTowards(deadline)
    BY <1>1, <1>2, <2>1, <2>2
  <2>3. CASE gate' = "term" /\ UNCHANGED <<clock, deadline, until, outcome,
                                          reaper, process>>
    BY <2>3
  <2>4. QED
    BY <1>3, <2>2, <2>3 DEF AwaitExit
<1>4. CASE SendSignal \/ SignalRefused
  <2>1. CASE SendSignal
    BY <2>1 DEF SendSignal
  <2>2. CASE SignalRefused
    BY <2>2 DEF SignalRefused, LeaveToReaper
  <2>3. QED
    BY <1>4, <2>1, <2>2
<1>5. CASE WaitWithin
  <2>1. CASE Collect("Unavailable") \/ SleepTowards(until)
    BY <1>1, <1>2, <2>1
  <2>2. CASE LeaveToReaper /\ UNCHANGED process
    BY <2>2 DEF LeaveToReaper
  <2>3. CASE gate' = "kill" /\ UNCHANGED <<clock, deadline, until, outcome,
                                          reaper, process>>
    BY <2>3
  <2>4. QED
    BY <1>5, <2>1, <2>2, <2>3 DEF WaitWithin
<1>6. CASE Reap
  BY <1>6 DEF Reap
<1>7. CASE Tick
  BY <1>7 DEF Tick
<1>8. QED
  BY <1>3, <1>4, <1>5, <1>6, <1>7 DEF Thread

\* The helper never touches the clock or the thread.
LEMMA ProcessStep ==
    ASSUME WatchdogInv,
           Exit \/ Killed \/ KilledByOther \/ Stick \/ Unstick
    PROVE  /\ WatchdogTypeOK'
           /\ UNCHANGED <<now, wake, thread, sigs, refused>>
           /\ child' = child \/ (child = "running" /\ child' # "running")
           /\ child' = child \/ HostReaps \/ child' = "zombie"
<1> USE DEF WatchdogInv, WatchdogTypeOK, clock, thread, process, Runs
<1>1. ASSUME NEW how \in {"success", "failure", "signal"}, Ends(how)
      PROVE  /\ WatchdogTypeOK'
             /\ UNCHANGED <<now, wake, thread, sigs, refused>>
             /\ child = "running" /\ child' # "running"
             /\ HostReaps \/ child' = "zombie"
  BY <1>1 DEF Ends
<1>2. CASE Exit \/ Killed \/ KilledByOther
  BY <1>1, <1>2 DEF Exit, Killed, KilledByOther
<1>3. CASE Stick
  BY <1>3 DEF Stick
<1>4. CASE Unstick
  BY <1>4 DEF Unstick
<1>5. QED
  BY <1>2, <1>3, <1>4

\* Every step keeps the invariant.
LEMMA NextWatchdogInv == WatchdogInv /\ WatchdogNext => WatchdogInv'
<1> SUFFICES ASSUME WatchdogInv, WatchdogNext
             PROVE  WatchdogInv'
  OBVIOUS
<1> USE WatchdogAssumption
    DEF WatchdogInv, WatchdogTypeOK, OnTime, ChildKnown, NoHelperLeft,
        clock, thread, process, Sleeping, GateResult, Signal
<1>1. ASSUME NEW result \in {"Abort", "Unavailable"}, ReturnsEarly(result)
      PROVE  WatchdogInv'
  BY <1>1 DEF ReturnsEarly, Returns
<1>2. ASSUME NEW budget \in Budget, Spawn(budget)
      PROVE  WatchdogInv'
  <2>1. budget \in Nat
    BY <1>2
  <2>2. QED
    BY <1>2, <2>1 DEF Spawn
<1>a. ASSUME NEW result, Collect(result), gate \in Sleeping
      PROVE  (OnTime /\ ChildKnown /\ NoHelperLeft)'
  <2>1. /\ gate' = "returned" /\ child' = "gone"
        /\ UNCHANGED <<now, deadline>>
    BY <1>a DEF Collect, Returns
  <2>2. now <= deadline + 2 * Grace
    BY <1>a
  <2>3. QED
    BY <2>1, <2>2
<1>b. ASSUME NEW end \in {deadline, until}, SleepTowards(end), gate \in Sleeping,
             end = IF gate = "polling" THEN deadline ELSE until
      PROVE  (OnTime /\ ChildKnown /\ NoHelperLeft)'
  <2>1. UNCHANGED <<now, thread, process>> /\ wake' <= end
    BY <1>b DEF SleepTowards
  <2>2. QED
    BY <1>b, <2>1
<1>3. CASE AwaitExit
  <2>1. WatchdogTypeOK'
    BY <1>3, ThreadTypeOK DEF Thread
  <2>2. CASE Collect(Classify)
    BY <1>a, <1>3, <2>1, <2>2 DEF AwaitExit
  <2>3. CASE SleepTowards(deadline)
    BY <1>b, <1>3, <2>1, <2>3 DEF AwaitExit
  <2>4. CASE gate' = "term" /\ UNCHANGED <<clock, deadline, until, outcome,
                                          reaper, process>>
    BY <1>3, <2>1, <2>4 DEF AwaitExit
  <2>5. QED
    BY <1>3, <2>2, <2>3, <2>4 DEF AwaitExit
<1>4. CASE SendSignal \/ SignalRefused
  <2>1. WatchdogTypeOK'
    BY <1>4, ThreadTypeOK DEF Thread
  <2>2. CASE SendSignal
    BY <2>1, <2>2 DEF SendSignal
  <2>3. CASE SignalRefused
    <3>1. OnTime'
      BY <2>3 DEF SignalRefused, LeaveToReaper, Returns
    <3>2. (ChildKnown /\ NoHelperLeft)'
      BY <2>3 DEF SignalRefused, LeaveToReaper, Returns
    <3>3. QED
      BY <2>1, <3>1, <3>2
  <2>4. QED
    BY <1>4, <2>2, <2>3
<1>5. CASE WaitWithin
  <2>1. WatchdogTypeOK'
    BY <1>5, ThreadTypeOK DEF Thread
  <2>2. CASE Collect("Unavailable")
    BY <1>a, <1>5, <2>1, <2>2 DEF WaitWithin
  <2>3. CASE SleepTowards(until)
    BY <1>b, <1>5, <2>1, <2>3 DEF WaitWithin
  <2>4. CASE gate = "killing" /\ LeaveToReaper /\ UNCHANGED process
    BY <1>5, <2>1, <2>4 DEF WaitWithin, LeaveToReaper, Returns
  <2>5. CASE gate = "terming" /\ gate' = "kill"
                 /\ UNCHANGED <<clock, deadline, until, outcome, reaper, process>>
    BY <1>5, <2>1, <2>5 DEF WaitWithin
  <2>6. QED
    BY <1>5, <2>2, <2>3, <2>4, <2>5 DEF WaitWithin
<1>6. CASE Reap
  BY <1>6 DEF Reap
<1>7. CASE Tick
  BY <1>7 DEF Tick
<1>8. CASE Exit \/ Killed \/ KilledByOther \/ Stick \/ Unstick
  <2> HIDE DEF WatchdogInv
  <2>1. /\ WatchdogTypeOK'
        /\ UNCHANGED <<now, wake, thread, sigs, refused>>
        /\ child' = child \/ (child = "running" /\ child' # "running")
        /\ child' = child \/ HostReaps \/ child' = "zombie"
    BY <1>8, ProcessStep
  <2>2. QED
    BY <2>1 DEF WatchdogInv
<1>9. QED
  BY <1>1, <1>2, <1>3, <1>4, <1>5, <1>6, <1>7, <1>8 DEF WatchdogNext, Thread

\* A step that changes nothing keeps the invariant.
LEMMA StutterWatchdogInv ==
    WatchdogInv /\ UNCHANGED watchdogVars => WatchdogInv'
  BY DEF WatchdogInv, WatchdogTypeOK, OnTime, ChildKnown, NoHelperLeft,
         watchdogVars

\* The invariant is inductive.
THEOREM WatchdogInductive == WatchdogSpec => []WatchdogInv
<1>1. WatchdogInv /\ [WatchdogNext]_watchdogVars => WatchdogInv'
  BY NextWatchdogInv, StutterWatchdogInv
<1>2. QED
  BY <1>1, InitWatchdogInv, PTL DEF WatchdogSpec

\* The PAM thread is back within the deadline and two grace periods, whatever
\* the helper does and however long the phases and the polls are.
THEOREM NeverLate == WatchdogSpec => []ReturnsInTime
<1>1. WatchdogInv => ReturnsInTime
  BY WatchdogAssumption
     DEF WatchdogInv, WatchdogTypeOK, OnTime, ReturnsInTime, Sleeping
<1>2. QED
  BY <1>1, WatchdogInductive, PTL

\* When the thread returns, a helper that still runs has been sent SIGKILL or
\* could not be signalled, and its login is not reported as done.
THEOREM NobodyForgotten == WatchdogSpec => []NoHelperLeft
<1>1. WatchdogInv => NoHelperLeft
  BY DEF WatchdogInv
<1>2. QED
  BY <1>1, WatchdogInductive, PTL

\* Unless the host collects its children itself, a signal is only ever sent
\* to a process that is still the child of the thread.
THEOREM OwnChildOnly ==
    ASSUME ~HostReaps
    PROVE  WatchdogSpec => SignalsOwnChild
<1>1. WatchdogInv /\ [WatchdogNext]_watchdogVars
          => [sigs' # sigs => child # "gone"]_watchdogVars
  <2> SUFFICES ASSUME WatchdogInv, WatchdogNext, sigs' # sigs
               PROVE  child # "gone"
    BY DEF watchdogVars
  <2>1. SendSignal
    BY DEF WatchdogNext, Thread, ReturnsEarly, Spawn, AwaitExit, WaitWithin,
           SignalRefused, LeaveToReaper, Collect, SleepTowards, Reap, Tick, Exit, Killed,
           KilledByOther, Ends, Stick, Unstick, clock, thread, process
  <2>2. QED
    BY <2>1 DEF SendSignal, WatchdogInv, ChildKnown
<1>2. QED
  BY <1>1, WatchdogInductive, PTL DEF WatchdogSpec, SignalsOwnChild
=============================================================================

------------------------------- MODULE Watchdog -------------------------------
(***************************************************************************)
(* The supervision of a helper process by the PAM thread that logs a user  *)
(* in: a deadline, SIGTERM, a grace period, SIGKILL, a grace period.       *)
(* Time is counted from the login and matters only while the thread        *)
(* sleeps; the thread runs as soon as its sleep is over.                   *)
(***************************************************************************)
EXTENDS Naturals

CONSTANTS
    Budget,     \* the deadlines a helper may be given
    Grace,      \* how long a signal is given to work
    Poll,       \* how long the thread sleeps between two looks
    HostReaps,  \* the host process collects its children itself
    SignalFails,    \* the kernel may refuse to send a signal
    Sticks      \* the helper may enter an uninterruptible system call

ASSUME WatchdogAssumption ==
    /\ Budget \subseteq Nat
    /\ Grace \in Nat
    /\ Poll \in Nat \ {0}
    /\ {HostReaps, SignalFails, Sticks} \subseteq BOOLEAN

VARIABLES
    now,        \* the clock
    gate,       \* where the PAM thread is
    deadline,   \* when the budget of the helper ends
    until,      \* when the grace period that runs ends
    wake,       \* when the sleep of the thread ends
    outcome,    \* the GateResult, "none" before there is one
    reaper      \* whether a background thread waits for the helper

VARIABLES
    child,      \* the helper process
    exit,       \* how it ended
    sigs,       \* the signals sent to it
    refused,    \* one was not, and not because the helper was gone
    deaf,       \* it has inherited an ignored SIGTERM
    stuck       \* it is in an uninterruptible system call

clock == <<now, wake>>
thread == <<gate, deadline, until, outcome, reaper>>
process == <<child, exit, sigs, refused, deaf, stuck>>
watchdogVars == <<now, gate, deadline, until, wake, outcome, reaper,
                  child, exit, sigs, refused, deaf, stuck>>

Sleeping == {"polling", "terming", "killing"}
Signal == {"TERM", "KILL"}
GateResult == {"Authorized", "Declined", "Unavailable"}

WatchdogTypeOK ==
    /\ now \in Nat /\ deadline \in Nat /\ until \in Nat /\ wake \in Nat
    /\ gate \in Sleeping \cup {"idle", "term", "kill", "returned"}
    /\ outcome \in GateResult \cup {"none", "Abort"}
    /\ child \in {"none", "running", "zombie", "gone"}
    /\ exit \in {"none", "success", "failure", "signal"}
    /\ sigs \subseteq Signal
    /\ reaper \in BOOLEAN /\ refused \in BOOLEAN
    /\ deaf \in BOOLEAN /\ stuck \in BOOLEAN

WatchdogInit ==
    /\ now = 0 /\ deadline = 0 /\ until = 0 /\ wake = 0
    /\ gate = "idle" /\ outcome = "none" /\ reaper = FALSE
    /\ child = "none" /\ exit = "none" /\ sigs = {} /\ refused = FALSE
    /\ deaf \in BOOLEAN
    /\ stuck = FALSE

-----------------------------------------------------------------------------
(* The PAM thread. *)

Returns(result) == gate' = "returned" /\ outcome' = result

\* Without a helper to run the thread returns at once.
ReturnsEarly(result) ==
    /\ gate = "idle"
    /\ Returns(result)
    /\ UNCHANGED <<clock, deadline, until, reaper, process>>

Spawn(budget) ==
    /\ gate = "idle"
    /\ gate' = "polling"
    /\ child' = "running"
    /\ deadline' = now + budget
    /\ wake' = now
    /\ UNCHANGED <<now, until, outcome, reaper, exit, sigs, refused, deaf, stuck>>

\* Mutant: sleep(poll), whatever remains.
SleepFullPoll(end) ==
    /\ now < end
    /\ wake' = now + Poll
    /\ UNCHANGED <<now, thread, process>>

\* sleep(poll.min(remaining))
SleepTowards(end) ==
    /\ now < end
    /\ wake' = IF now + Poll < end THEN now + Poll ELSE end
    /\ UNCHANGED <<now, thread, process>>

\* Mutant: a helper that gave in to SIGTERM is sent SIGKILL all the same.
CollectAndGoOn(result) ==
    /\ child \in {"zombie", "gone"}
    /\ child' = "gone"
    /\ gate' = IF gate = "terming" THEN "kill" ELSE "returned"
    /\ outcome' = IF gate = "terming" THEN outcome ELSE result
    /\ UNCHANGED <<clock, deadline, until, reaper, exit, sigs, refused, deaf,
                   stuck>>

\* try_wait returns the status, or Err when somebody else has collected it; in
\* the escalation that error, too, leaves a thread behind, if one can be created.
Collect(result) ==
    /\ child \in {"zombie", "gone"}
    /\ child' = "gone"
    /\ Returns(IF child = "zombie" THEN result ELSE "Unavailable")
    /\ reaper' \in (IF child = "gone" /\ gate # "polling" THEN BOOLEAN ELSE {FALSE})
    /\ UNCHANGED <<clock, deadline, until, exit, sigs, refused, deaf, stuck>>

Classify == IF exit = "success" THEN "Authorized" ELSE "Declined"

AwaitExit ==
    /\ gate = "polling" /\ now >= wake
    /\ \/ Collect(Classify)
       \/ child = "running" /\ SleepTowards(deadline)
       \/ /\ child = "running" /\ now >= deadline
          /\ gate' = "term"
          /\ UNCHANGED <<clock, deadline, until, outcome, reaper, process>>

\* Mutant: the second signal is SIGTERM again.
SendTermAgain ==
    /\ gate \in {"term", "kill"}
    /\ gate' = IF gate = "term" THEN "terming" ELSE "killing"
    /\ sigs' = sigs \cup {"TERM"}
    /\ until' = now + Grace
    /\ wake' = now
    /\ UNCHANGED <<now, deadline, outcome, reaper, child, exit, refused, deaf,
                   stuck>>

SendSignal ==
    /\ gate \in {"term", "kill"}
    /\ gate' = IF gate = "term" THEN "terming" ELSE "killing"
    /\ sigs' = sigs \cup {IF gate = "term" THEN "TERM" ELSE "KILL"}
    /\ until' = now + Grace
    /\ wake' = now
    /\ UNCHANGED <<now, deadline, outcome, reaper, child, exit, refused, deaf,
                   stuck>>

\* The thread returns and leaves another one behind that waits for the helper,
\* if it can be created.
LeaveToReaper ==
    /\ Returns("Unavailable")
    /\ reaper' \in BOOLEAN
    /\ UNCHANGED <<clock, deadline, until>>

\* An error of kill other than ESRCH ends the escalation, whatever is left of it.
SignalRefused ==
    /\ SignalFails /\ gate \in {"term", "kill"}
    /\ refused' = TRUE
    /\ LeaveToReaper
    /\ UNCHANGED <<child, exit, sigs, deaf, stuck>>

WaitWithin ==
    /\ gate \in {"terming", "killing"} /\ now >= wake
    /\ \/ Collect("Unavailable")
       \/ child = "running" /\ SleepTowards(until)
       \/ /\ child = "running" /\ now >= until
          /\ \/ gate = "killing" /\ LeaveToReaper /\ UNCHANGED process
             \/ /\ gate = "terming" /\ gate' = "kill"
                /\ UNCHANGED <<clock, deadline, until, outcome, reaper,
                               process>>

\* Mutant: the background thread looks once and does not wait.
ReapOnce ==
    /\ reaper
    /\ reaper' = FALSE
    /\ child' = IF child = "zombie" THEN "gone" ELSE child
    /\ UNCHANGED <<clock, gate, deadline, until, outcome, exit, sigs, refused,
                   deaf, stuck>>

Reap ==
    /\ reaper /\ child = "zombie"
    /\ child' = "gone"
    /\ UNCHANGED <<clock, thread, exit, sigs, refused, deaf, stuck>>

Tick ==
    /\ gate \in Sleeping /\ now < wake
    /\ now' = now + 1
    /\ UNCHANGED <<wake, thread, process>>

-----------------------------------------------------------------------------
(* The helper process, as far as its parent can tell. *)

Runs == child = "running" /\ ~stuck

Ends(how) ==
    /\ Runs
    /\ child' = IF HostReaps THEN "gone" ELSE "zombie"
    /\ exit' = how
    /\ UNCHANGED <<clock, thread, sigs, refused, deaf, stuck>>

Exit == \E how \in {"success", "failure"} : Ends(how)

Killed ==
    /\ "KILL" \in sigs \/ ("TERM" \in sigs /\ ~deaf)
    /\ Ends("signal")

KilledByOther == Ends("signal")     \* the out-of-memory killer, an operator

Stick ==
    /\ Sticks /\ Runs /\ "KILL" \notin sigs
    /\ stuck' = TRUE
    /\ UNCHANGED <<clock, thread, child, exit, sigs, refused, deaf>>

Unstick ==
    /\ stuck
    /\ stuck' = FALSE
    /\ UNCHANGED <<clock, thread, child, exit, sigs, refused, deaf>>

-----------------------------------------------------------------------------

Thread == AwaitExit \/ SendSignal \/ SignalRefused \/ WaitWithin

WatchdogNext ==
    \/ \E result \in {"Abort", "Unavailable"} : ReturnsEarly(result)
    \/ \E budget \in Budget : Spawn(budget)
    \/ Thread \/ Reap \/ Tick
    \/ Exit \/ Killed \/ KilledByOther \/ Stick \/ Unstick

WatchdogSpec == WatchdogInit /\ [][WatchdogNext]_watchdogVars

-----------------------------------------------------------------------------
(* Properties. *)

\* `never blocks past deadline + 2 * term_grace`: whatever the helper does,
\* uninterruptible sleep and ignored signals included, the PAM thread is
\* back by then (supervise in helper.rs).
ReturnsInTime == gate # "idle" => now <= deadline + 2 * Grace

\* `so a live helper can't be left behind`: one that still runs when the thread
\* returns has a SIGKILL pending, unless the kernel refused us a signal; and in
\* either case nothing is reported as done (supervise in helper.rs).
NoHelperLeft ==
    gate = "returned" /\ child = "running" =>
        /\ "KILL" \in sigs \/ refused
        /\ outcome = "Unavailable"

\* The process signalled is the helper, not one that has been given its pid:
\* it has not been collected when a signal is sent (send_signal).
SignalsOwnChild == [][sigs' # sigs => child # "gone"]_watchdogVars

\* Every helper is over in the end, unless the kernel refuses to signal it, and
\* a reaper leaves no zombie, however late the helper ends (reap_in_background).
HelperEnds ==
    /\ (gate = "returned") ~> (child # "running" \/ refused)
    /\ reaper ~> (child = "gone" \/ (refused /\ child = "running"))
=============================================================================

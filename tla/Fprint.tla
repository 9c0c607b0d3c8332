-------------------------------- MODULE Fprint --------------------------------
(***************************************************************************)
(* One bounded fingerprint verification: the client, the calls it has with *)
(* fprintd, the VerifyStatus signals, and another client of the same       *)
(* reader.  The client acts as soon as a timer of its own has run out; the *)
(* daemon answers when it likes, or never.                                 *)
(***************************************************************************)
EXTENDS Integers, Sequences

CONSTANTS
    Deadline,       \* deadline_ms of the verification
    CleanupGrace,   \* what the backstop allows for VerifyStop and Release
    MaxStatus       \* bound: how many signals the reader sends

ASSUME FprintAssumption == {Deadline, CleanupGrace, MaxStatus} \subseteq Nat

\* The last argument of VerifyStatus says whether the verification is over; a
\* match or a mismatch is final whatever it says.
Status == [token : {"match", "no_match", "other"}, done : BOOLEAN,
           of : {"us", "other"}]

VARIABLES
    now,        \* time since the start of verify, and of its deadline
    pc,         \* the call the client waits for, or where else it is
    asked,      \* the last method it has called
    call,       \* that call: "sent" until fprintd has answered
    subscribed, \* the match rule for VerifyStatus is in place
    inbox,      \* the signals delivered to the client and not read yet
    result,     \* what verify returns
    capped,     \* the backstop has cancelled the operation
    connected   \* the client's connection to the bus

VARIABLES
    owner,      \* who has claimed the reader
    verifying,  \* a verification runs on it
    emitted     \* how many signals it has sent

client == <<pc, asked, result, capped, connected>>
reader == <<owner, verifying, emitted>>
vars == <<now, pc, asked, call, subscribed, inbox, result, capped, connected,
          owner, verifying, emitted>>

Call == {"device", "claim", "subscribe", "start", "stop", "release"}
Result == {"match", "no_match", "failed", "timeout"}

TypeOK ==
    /\ {now, emitted} \subseteq Nat
    /\ pc \in Call \cup {"wait", "returned"}
    /\ asked \in Call /\ call \in {"sent", "ok", "err"}
    /\ {subscribed, capped, connected, verifying} \subseteq BOOLEAN
    /\ inbox \in Seq(Status)
    /\ result \in Result \cup {"none"}
    /\ owner \in {"none", "us", "other"}

Init ==
    /\ now = 0
    /\ pc = "device" /\ asked = "device" /\ call = "sent"
    /\ subscribed = FALSE /\ inbox = <<>>
    /\ result = "none" /\ capped = FALSE /\ connected = TRUE
    /\ owner \in {"none", "other"} /\ verifying = FALSE /\ emitted = 0

-----------------------------------------------------------------------------
(* The client. *)

Calls(method) == pc' = method /\ asked' = method /\ call' = "sent"

HasCalled(method) == pc = method /\ call \in {"ok", "err"}

Fails == pc' = "returned" /\ result' = "failed" /\ UNCHANGED <<asked, call>>

GetDefaultDevice ==
    /\ HasCalled("device")
    /\ \/ call = "ok" /\ Calls("claim") /\ UNCHANGED result
       \/ call = "err" /\ Fails
    /\ UNCHANGED <<now, subscribed, inbox, capped, connected, reader>>

\* Mutant: the match rule is there before the claim.
ClaimSubscribed ==
    /\ HasCalled("claim")
    /\ \/ call = "ok" /\ Calls("subscribe") /\ UNCHANGED result
       \/ call = "err" /\ Fails
    /\ UNCHANGED <<now, inbox, capped, connected, reader>>
    /\ subscribed' = TRUE

Claim ==
    /\ HasCalled("claim")
    /\ \/ call = "ok" /\ Calls("subscribe") /\ UNCHANGED result
       \/ call = "err" /\ Fails
    /\ UNCHANGED <<now, subscribed, inbox, capped, connected, reader>>

\* Mutant: a match rule that cannot be had is only a warning.
SubscribeBestEffort ==
    /\ HasCalled("subscribe")
    /\ Calls("start")
    /\ UNCHANGED <<now, subscribed, inbox, result, capped, connected, reader>>

\* The match rule is in place before VerifyStart is sent.
Subscribe ==
    /\ HasCalled("subscribe")
    /\ \/ call = "ok" /\ Calls("start") /\ UNCHANGED result
       \/ call = "err" /\ Calls("release") /\ result' = "failed"
    /\ UNCHANGED <<now, subscribed, inbox, capped, connected, reader>>

\* The stream of signals ends with the function that has opened it.
Unsubscribed == subscribed' = FALSE /\ inbox' = <<>>

\* Mutant: an error of VerifyStart leaves verify at once.
VerifyStartOrLeave ==
    /\ HasCalled("start")
    /\ \/ /\ call = "ok" /\ pc' = "wait"
          /\ UNCHANGED <<asked, call, result, subscribed, inbox>>
       \/ call = "err" /\ Fails /\ Unsubscribed
    /\ UNCHANGED <<now, capped, connected, reader>>

VerifyStart ==
    /\ HasCalled("start")
    /\ \/ /\ call = "ok" /\ pc' = "wait"
          /\ UNCHANGED <<asked, call, result, subscribed, inbox>>
       \/ call = "err" /\ Calls("release") /\ result' = "failed" /\ Unsubscribed
    /\ UNCHANGED <<now, capped, connected, reader>>

Classify(status) ==
    CASE status.token \in {"match", "no_match"} -> status.token
      [] status.token = "other" /\ status.done  -> "failed"
      [] status.token = "other" /\ ~status.done -> "retry"

TimeIsUp == now >= Deadline

WaitForOutcome ==
    /\ pc = "wait"
    /\ \/ /\ inbox # <<>>
          /\ inbox' = Tail(inbox)
          /\ IF Classify(Head(inbox)) = "retry"
             THEN UNCHANGED <<pc, asked, call, result>>
             ELSE Calls("stop") /\ result' = Classify(Head(inbox))
       \/ /\ TimeIsUp
          /\ Calls("stop") /\ result' = "timeout"
          /\ UNCHANGED inbox
    /\ UNCHANGED <<now, subscribed, capped, connected, reader>>

\* The stream of signals is closed, or what came in it does not parse.
StreamFails ==
    /\ pc = "wait"
    /\ Calls("stop") /\ result' = "failed"
    /\ UNCHANGED <<now, subscribed, inbox, capped, connected, reader>>

\* Errors of VerifyStop and Release are dropped.
VerifyStop ==
    /\ HasCalled("stop")
    /\ Calls("release")
    /\ Unsubscribed
    /\ UNCHANGED <<now, result, capped, connected, reader>>

Release ==
    /\ HasCalled("release")
    /\ pc' = "returned"
    /\ UNCHANGED <<now, asked, call, subscribed, inbox, result, capped, connected,
                   reader>>

\* The backstop of verify, which drops the operation where it waits: select
\* polls the operation before the timer.  What has been sent stays sent.
Waits ==
    \/ call = "sent"
    \/ pc = "wait" /\ inbox = <<>> /\ ~TimeIsUp

HardCap ==
    /\ pc # "returned" /\ Waits /\ now >= Deadline + CleanupGrace
    /\ pc' = "returned" /\ result' = "timeout" /\ capped' = TRUE
    /\ Unsubscribed
    /\ UNCHANGED <<now, asked, call, connected, reader>>

\* Mutant: the client outlives its verification.
KeepConnection == pc = "returned" /\ connected /\ UNCHANGED vars

\* The caller drops the client, and with it the connection.
DropConnection ==
    /\ pc = "returned" /\ connected
    /\ connected' = FALSE
    /\ UNCHANGED <<now, pc, asked, call, subscribed, inbox, result, capped,
                   reader>>

ClientStep ==
    \/ GetDefaultDevice \/ Claim \/ Subscribe \/ VerifyStart
    \/ WaitForOutcome \/ VerifyStop \/ Release \/ HardCap \/ DropConnection

-----------------------------------------------------------------------------
(* fprintd, and the other client. *)

\* What a call does that fprintd, or the bus for the match rule, accepts.  The
\* match rule is the stream's, and there is none once the operation is dropped.
Accept ==
    /\ asked = "claim" => owner = "none"
    /\ asked \in {"start", "stop", "release"} => owner = "us"
    /\ owner' = CASE asked = "claim" -> "us" [] asked = "release" -> "none"
                  [] OTHER -> owner
    /\ verifying' = CASE asked = "start" -> TRUE
                      [] asked \in {"stop", "release"} -> FALSE
                      [] OTHER -> verifying
    /\ subscribed' = (subscribed \/ pc = "subscribe")

\* A call that was sent is carried out or refused, even if nobody waits for the
\* answer any more or the connection it came by is gone.
Answer ==
    /\ call = "sent"
    /\ \/ call' = "ok" /\ Accept
       \/ call' = "err" /\ UNCHANGED <<owner, verifying, subscribed>>
    /\ UNCHANGED <<now, client, inbox, emitted>>

Emit ==
    /\ verifying /\ emitted < MaxStatus
    /\ emitted' = emitted + 1
    /\ \E status \in Status :
          /\ status.of = owner
          /\ inbox' = IF subscribed THEN Append(inbox, status) ELSE inbox
    /\ UNCHANGED <<now, client, call, subscribed, owner, verifying>>

\* fprintd sees that the connection of the reader's owner is gone.
Vanish ==
    /\ ~connected /\ owner = "us"
    /\ owner' = "none" /\ verifying' = FALSE
    /\ UNCHANGED <<now, client, call, subscribed, inbox, emitted>>

OtherClient ==
    /\ \/ owner = "none" /\ owner' = "other" /\ UNCHANGED verifying
       \/ owner = "other" /\ verifying' = ~verifying /\ UNCHANGED owner
       \/ owner = "other" /\ owner' = "none" /\ verifying' = FALSE
    /\ UNCHANGED <<now, client, call, subscribed, inbox, emitted>>

\* Time stops for a client that has something to do.
Tick ==
    /\ pc # "returned" /\ now < Deadline + CleanupGrace
    /\ Waits
    /\ now' = now + 1
    /\ UNCHANGED <<client, call, subscribed, inbox, reader>>

Next ==
    \/ ClientStep \/ StreamFails
    \/ Answer \/ Emit \/ Vanish \/ OtherClient \/ Tick

\* The client runs, time passes, and fprintd notices a connection that is gone;
\* it need not answer anything.
Spec ==
    /\ Init /\ [][Next]_vars
    /\ WF_vars(ClientStep) /\ WF_vars(Tick) /\ WF_vars(Vanish)

-----------------------------------------------------------------------------
(* Properties. *)

\* A verdict in the inbox is one on our own finger: what the reader tells
\* another client is never taken for an answer, though the signals are
\* broadcast (verify_async claims before it subscribes).
OwnVerdict == \A i \in DOMAIN inbox : inbox[i].of = "us"

\* No signal of our verification falls into a gap: the match rule is there
\* from before the reader starts until the verdict is in (verify_claimed).
NoGap ==
    verifying /\ owner = "us" /\ pc \in {"start", "wait"} => subscribed

\* A verification that was not cancelled has the reader released before it
\* returns, whichever call failed; what it keeps is a reader fprintd would not
\* take back, for the error of Release is dropped (verify_async).
ReturnsReleased ==
    pc = "returned" /\ ~capped /\ owner = "us" =>
        asked = "release" /\ call = "err"

\* The reader is not ours for good: one that was not released, or that a Claim
\* got for an operation the backstop had already dropped, is given up with the
\* connection, even if fprintd answers nothing (verify).
ReaderGivenUp == <>[](owner # "us")
=============================================================================

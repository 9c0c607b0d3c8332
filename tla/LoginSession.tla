----------------------------- MODULE LoginSession -----------------------------
(***************************************************************************)
(* The session phase of a login: the PAM module gives its helper a budget  *)
(* and the PIN, and the helper goes through its legs (connect, face,       *)
(* fingerprint, PIN) to unlock the login keyring.  The keyring daemon is a *)
(* process of its own: a request it has received is carried out even when  *)
(* the helper that sent it is dead.                                        *)
(***************************************************************************)
EXTENDS Watchdog

CONSTANTS
    DefaultDeadline, FingerprintDeadline, FaceDeadline,     \* of the helper
    LegTime,    \* how long a leg takes that does not hang
    Faults,     \* the legs that may fail by no fault of the user, and "spawn"
                \* and "kill": there is no helper, or somebody kills it
    Hangs       \* the legs that may never end

Leg == {"connect", "face", "face_unseal", "face_unlock", "read",
        "fp_connect", "finger", "unseal", "unlock"}
Pin == {"right", "wrong", "none"}

ASSUME LoginAssumption ==
    /\ {DefaultDeadline, FingerprintDeadline, FaceDeadline,
        FingerprintDeadline + FaceDeadline} \subseteq Budget
    /\ LegTime \in [Leg -> Nat]
    /\ Faults \subseteq Leg \cup {"spawn", "kill"}
    /\ Hangs \subseteq Leg

VARIABLES
    fingerprint, face,  \* the arguments of the module in the PAM stack
    gesture,            \* a local session on a machine with a TPM
    pin,                \* what pam_get_authtok returned

    leg,                \* the leg the helper is in, "none" before it runs
    due,                \* when that leg ends unless it hangs
    late,               \* a leg has gone on for longer than that
    matched,            \* the face leg has accepted a live, matching face
    tries,              \* the wrong PINs the TPM has been given
    request,            \* the unlock request to the keyring daemon
    keyring             \* the login keyring

config == <<fingerprint, face, gesture, pin>>
helper == <<leg, due, late, matched, tries>>
daemon == <<request, keyring>>
vars == <<watchdogVars, config, helper, daemon>>

TypeOK ==
    /\ WatchdogTypeOK
    /\ {fingerprint, face, gesture, matched, late} \subseteq BOOLEAN
    /\ pin \in Pin
    /\ leg \in Leg \cup {"none"}
    /\ due \in Nat
    /\ tries \in Nat
    /\ request \in {"none", "sent", "granted", "refused"}
    /\ keyring \in {"locked", "unlocked"}

Init ==
    /\ WatchdogInit
    /\ fingerprint \in BOOLEAN /\ face \in BOOLEAN /\ gesture \in BOOLEAN
    /\ pin \in Pin
    /\ leg = "none" /\ due = 0 /\ late = FALSE /\ matched = FALSE /\ tries = 0
    /\ request = "none" /\ keyring = "locked"

-----------------------------------------------------------------------------
(* The PAM module. *)

\* Mutant: one budget for both biometric legs.
SharedDeadline ==
    CASE fingerprint -> FingerprintDeadline
      [] ~fingerprint /\ face -> FaceDeadline
      [] OTHER -> DefaultDeadline

SessionDeadline ==
    CASE ~fingerprint /\ ~face -> DefaultDeadline
      [] fingerprint /\ ~face  -> FingerprintDeadline
      [] ~fingerprint /\ face  -> FaceDeadline
      [] fingerprint /\ face   -> FingerprintDeadline + FaceDeadline

PinLegs == LegTime["connect"] + LegTime["read"] + LegTime["unseal"] + LegTime["unlock"]
FingerLegs == LegTime["fp_connect"] + LegTime["finger"]
FaceLegs == LegTime["face"] + LegTime["face_unseal"] + LegTime["face_unlock"]

\* Each deadline covers its gesture and the TPM unseal and keyring unlock after it.
DeadlinesCoverLegs ==
    /\ PinLegs < DefaultDeadline
    /\ FingerLegs + PinLegs < FingerprintDeadline
    /\ FaceLegs + PinLegs < FaceDeadline

\* A remote session, or no TPM: no gesture, and no prompt for a PIN.
Abort ==
    /\ ~gesture
    /\ ReturnsEarly("Abort")
    /\ UNCHANGED <<config, helper, daemon>>

\* Only the face leg can do without a PIN.
Unsupplied ==
    /\ gesture /\ pin = "none" /\ ~face
    /\ ReturnsEarly("Unavailable")
    /\ UNCHANGED <<config, helper, daemon>>

\* Mutant: a helper that cannot be spawned is taken for one that declined.
NotSpawnedDeclines ==
    /\ gesture /\ "spawn" \in Faults
    /\ ReturnsEarly("Declined")
    /\ UNCHANGED <<config, helper, daemon>>

NotSpawned ==
    /\ gesture /\ "spawn" \in Faults
    /\ ReturnsEarly("Unavailable")
    /\ UNCHANGED <<config, helper, daemon>>

Enters(next) ==
    /\ leg' = next
    /\ due' = now + LegTime[next]

RunHelper ==
    /\ gesture /\ (pin # "none" \/ face)
    /\ Spawn(SessionDeadline)
    /\ Enters("connect")
    /\ UNCHANGED <<late, matched, tries, config, daemon>>

-----------------------------------------------------------------------------
(* The helper. *)

\* A leg the helper leaves for another one.
Steps(from, next) ==
    /\ Runs /\ leg = from
    /\ Enters(next)
    /\ UNCHANGED <<late, config, watchdogVars>>

\* A leg with which the helper ends.
Finishes(from, how) ==
    /\ leg = from
    /\ Ends(how)
    /\ UNCHANGED <<config, helper, daemon>>

AfterRead == IF fingerprint THEN "fp_connect" ELSE "unseal"

Connect ==
    \/ /\ Steps("connect", IF face THEN "face" ELSE "read")
       /\ UNCHANGED <<matched, tries, daemon>>
    \/ "connect" \in Faults /\ Finishes("connect", "failure")

\* Mutant: a face that does not match goes on to the unseal.
FaceUnverified ==
    \/ /\ Steps("face", "face_unseal")
       /\ matched' \in BOOLEAN
       /\ UNCHANGED <<tries, daemon>>
    \/ Steps("face", "read") /\ UNCHANGED <<matched, tries, daemon>>

\* The stored enrollment and the bounded, liveness-gated capture.
FaceVerify ==
    \/ /\ Steps("face", "face_unseal")
       /\ matched' = TRUE
       /\ UNCHANGED <<tries, daemon>>
    \/ Steps("face", "read") /\ UNCHANGED <<matched, tries, daemon>>

\* The face authValue takes the place of the PIN.  The unlock asks for the
\* keyring in the name of the helper and waits for the reply.
FaceUnseal ==
    \/ /\ Steps("face_unseal", "face_unlock")
       /\ request' = "sent"
       /\ UNCHANGED <<matched, tries, keyring>>
    \/ /\ "face_unseal" \in Faults
       /\ Steps("face_unseal", "read")
       /\ UNCHANGED <<matched, tries, daemon>>

\* unlock_and_verify: what the daemon grants must also read as unlocked.
FaceUnlock ==
    \/ request = "granted" /\ Finishes("face_unlock", "success")
    \/ /\ request = "refused" \/ (request = "granted" /\ "face_unlock" \in Faults)
       /\ Steps("face_unlock", "read")
       /\ request' = "none"
       /\ UNCHANGED <<matched, tries, keyring>>

\* Mutant: an empty stdin is taken for a PIN.
ReadEmptyPin ==
    /\ Steps("read", AfterRead)
    /\ UNCHANGED <<matched, tries, daemon>>

ReadPin ==
    \/ pin = "none" /\ Finishes("read", "failure")
    \/ /\ pin # "none"
       /\ Steps("read", AfterRead)
       /\ UNCHANGED <<matched, tries, daemon>>

\* The fingerprint is only reported: match, no match, timeout and an absent
\* reader all lead to the PIN.
ConnectFprint ==
    \/ Steps("fp_connect", "finger") /\ UNCHANGED <<matched, tries, daemon>>
    \/ /\ "fp_connect" \in Faults
       /\ Steps("fp_connect", "unseal")
       /\ UNCHANGED <<matched, tries, daemon>>

FingerVerify ==
    Steps("finger", "unseal") /\ UNCHANGED <<matched, tries, daemon>>

Unseal ==
    \/ /\ pin = "right"
       /\ Steps("unseal", "unlock")
       /\ request' = "sent"
       /\ UNCHANGED <<matched, tries, keyring>>
    \/ /\ pin # "right" /\ leg = "unseal"
       /\ tries' = tries + 1
       /\ Ends("failure")
       /\ UNCHANGED <<config, leg, due, late, matched, daemon>>
    \/ "unseal" \in Faults /\ Finishes("unseal", "failure")

\* Mutant: the helper does not wait for the reply.
UnlockUnanswered ==
    \/ request \in {"sent", "granted"} /\ Finishes("unlock", "success")
    \/ request = "refused" /\ Finishes("unlock", "failure")

UnlockReply ==
    \/ request = "granted" /\ Finishes("unlock", "success")
    \/ request = "refused" /\ Finishes("unlock", "failure")

\* The daemon opens the keyring, or answers with an error: no collection, a
\* key that is not its master password.
Serve ==
    /\ request = "sent"
    /\ \/ request' = "granted" /\ keyring' = "unlocked"
       \/ /\ leg \in Faults
          /\ request' = "refused" /\ UNCHANGED keyring
    /\ UNCHANGED <<config, helper, watchdogVars>>

-----------------------------------------------------------------------------

\* A healthy leg is over when it is due.
TimePasses ==
    /\ Runs /\ leg \notin Hangs => now < due
    /\ Tick
    /\ late' = (late \/ now' > due)
    /\ UNCHANGED <<config, leg, due, matched, tries, daemon>>

Supervise ==
    /\ Thread \/ Reap
    /\ UNCHANGED <<config, helper, daemon>>

\* The kernel: a signal is delivered, a system call returns.
Deliver == Killed /\ UNCHANGED <<config, helper, daemon>>
Wake == Unstick /\ UNCHANGED <<config, helper, daemon>>

Disturb ==
    /\ ("kill" \in Faults /\ KilledByOther) \/ Stick
    /\ UNCHANGED <<config, helper, daemon>>

Next ==
    \/ Abort \/ Unsupplied \/ NotSpawned \/ RunHelper
    \/ Connect \/ FaceVerify \/ FaceUnseal \/ FaceUnlock
    \/ ReadPin \/ ConnectFprint \/ FingerVerify \/ Unseal \/ UnlockReply
    \/ Serve \/ TimePasses \/ Supervise \/ Deliver \/ Wake \/ Disturb

Spec == Init /\ [][Next]_vars

\* The thread is scheduled, time passes, a signal is delivered once the
\* process can take it, and a system call returns in the end; nothing makes a
\* helper finish by itself.
FairSpec ==
    /\ Spec
    /\ WF_vars(Supervise) /\ WF_vars(TimePasses)
    /\ WF_vars(Deliver) /\ WF_vars(Wake)

-----------------------------------------------------------------------------
(* Properties. *)

\* The keyring is never opened without a factor that releases the key: the
\* right PIN or a live matching face.  A fingerprint opens nothing, and an
\* empty stdin opens nothing (run_pam_helper in session.rs).
OpenedByAFactor == keyring = "unlocked" => pin = "right" \/ matched

\* What the module reports as an unlock is one: Authorized is returned only
\* for a helper whose request the daemon has granted (classify in gate.rs).
AuthorizedIsOpen == outcome = "Authorized" => keyring = "unlocked"

\* A login with no PIN leaves the dictionary-attack counter of the TPM alone,
\* and one with a wrong PIN moves it once, whichever legs ran before: logins
\* by face alone never lead to a lockout (read_pin_from_stdin in session.rs).
TriesBounded == tries <= IF pin = "wrong" THEN 1 ELSE 0

\* The three of them hold because of what each leg knows: how the helper got
\* there, what a request on its way was made with, and that the PIN is tried
\* once, in the last thing a helper does.
LegsKnow ==
    /\ leg \in {"face_unseal", "face_unlock"} => matched
    /\ leg \in {"fp_connect", "finger", "unseal"} => pin # "none"
    /\ request # "none" => pin = "right" \/ matched
    /\ request = "granted" => keyring = "unlocked"
    /\ exit = "success" => keyring = "unlocked"
    /\ outcome = "Authorized" => exit = "success" /\ child = "gone"
    /\ gate = "idle" => child = "none" /\ outcome = "none"
    /\ child \in {"none", "running"} => tries = 0
    /\ OpenedByAFactor /\ TriesBounded

\* The watchdog cuts short no helper whose legs all kept to their bounds: the
\* budget that session_deadline grants leaves room for all the legs in front of
\* the PIN one after the other, however they end, and then for the PIN.
RoomForThePin == "TERM" \in sigs => late

\* It holds because every leg leaves what the legs after it take, in any order
\* they can come in, and the thread gives the helper up only at the deadline.
AfterLeg ==
    LET finger == IF fingerprint THEN FingerLegs ELSE 0
        last == LegTime["unseal"] + LegTime["unlock"]
        reading == LegTime["read"] + finger + last
    IN  CASE leg = "connect"     -> reading + (IF face THEN FaceLegs ELSE 0)
          [] leg = "face"        -> reading + LegTime["face_unseal"]
                                            + LegTime["face_unlock"]
          [] leg = "face_unseal" -> reading + LegTime["face_unlock"]
          [] leg = "face_unlock" -> reading
          [] leg = "read"        -> finger + last
          [] leg = "fp_connect"  -> LegTime["finger"] + last
          [] leg = "finger"      -> last
          [] leg = "unseal"      -> LegTime["unlock"]
          [] OTHER               -> 0

RoomInv ==
    /\ now \in Nat /\ due \in Nat /\ deadline \in Nat
    /\ leg \in Leg \cup {"none"}
    /\ gate \notin {"idle", "returned"} => leg # "none"
    /\ gate = "idle" => sigs = {} /\ child = "none"
    /\ leg # "none" /\ ~late => now <= due /\ due + AfterLeg < deadline
    /\ gate \in {"term", "terming", "kill", "killing"} \/ sigs # {} => late

\* This module adds a helper to the Watchdog and never steps outside it.
Supervised == WatchdogSpec
=============================================================================

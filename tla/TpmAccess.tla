------------------------------ MODULE TpmAccess -------------------------------
(***************************************************************************)
(* tess-tpm: sealing a key, unsealing it, changing the authValue of the    *)
(* lockout hierarchy and resetting the dictionary-attack lockout, each a   *)
(* sequence of TPM commands of which any may fail, under sessions and with *)
(* transient objects that must be flushed again.  A seed stands for the    *)
(* storage primary the TPM derives from it; clearing the TPM replaces it.  *)
(***************************************************************************)
EXTENDS Naturals, FiniteSets

CONSTANTS
    Seeds,      \* how many owner seeds the TPM may have in a behaviour
    MaxTries,   \* wrong PINs until dictionary-attack lockout, 0 for never
    EmptyReads, \* GetRandom calls without a byte in a row (8)
    KeyChunks,  \* the parts GetRandom delivers a key in
    ResetTimeout,   \* of the subprocess that resets the lockout
    ResetPoll,  \* how long the caller sleeps between two looks at it
    MaxLeaks,   \* handles that cannot be flushed or set up, per context
    TpmFaults   \* "command", "flush", "attributes", "child"

ASSUME TpmAssumption ==
    /\ {Seeds, EmptyReads, KeyChunks, ResetPoll} \subseteq Nat \ {0}
    /\ {MaxTries, ResetTimeout, MaxLeaks} \subseteq Nat
    /\ TpmFaults \subseteq {"command", "flush", "attributes", "child"}

Seed == 1..Seeds
NoObject == 0
Handle == {"primary", "trial", "hmac", "object", "policy"}
Pin == {"right", "wrong", "empty", "long"}

VARIABLES       \* the TPM
    seed,       \* the current owner seed
    failures,   \* the counter of the dictionary-attack logic
    auth,       \* the authValue of the lockout hierarchy
    blocked     \* a wrong authorization has blocked the hierarchy

VARIABLES       \* the caller and its ESAPI context
    live,       \* the handles that exist in the TPM for this context
    unflushed,  \* those whose flush, or whose set-up, has failed
    sealed,     \* the sealed object in memory: the seed it was made under
    arg,        \* the PIN, or the new authValue, of the running call
    part,       \* what is done of a loop: parts of a key, time in a reset
    empty,      \* GetRandom calls in a row that brought nothing
    child,      \* tpm2_dictionarylockout
    pending,    \* what the call will return once its handles are flushed
    pc          \* its next command, "idle" when none runs

VARIABLE spent  \* the tries this caller cost the counter, minus those it was told

chip == <<seed, failures, auth, blocked>>
handles == <<live, unflushed>>
loop == <<part, empty>>
call == <<pc, arg, pending, loop>>
tpmVars == <<chip, handles, sealed, call, child, spent>>

Auth == {"empty", "derived"}
Outcome == {"ok", "tpm", "flush", "wrong_pin", "lockout", "mismatch", "input",
            "rng", "lockout_auth", "reset"}

TpmTypeOK ==
    /\ seed \in Seed /\ failures \in 0..MaxTries
    /\ auth \in Auth /\ blocked \in BOOLEAN
    /\ live \subseteq Handle /\ unflushed \subseteq Handle
    /\ sealed \in Seed \cup {NoObject}
    /\ arg \in Pin \cup Auth \cup {"none"}
    /\ part \in Nat /\ empty \in 0..EmptyReads
    /\ child \in {"none", "running", "done", "failed"}
    /\ pending \in Outcome \cup {"none"}
    /\ spent \in Nat

TpmInit ==
    /\ seed = 1 /\ failures = 0 /\ auth = "empty" /\ blocked = FALSE
    /\ live = {} /\ unflushed = {} /\ sealed = NoObject
    /\ arg = "none" /\ part = 0 /\ empty = 0 /\ child = "none"
    /\ pending = "none" /\ pc = "idle" /\ spent = 0

-----------------------------------------------------------------------------
(* The parts every call is made of. *)

Goes(next) == pc' = next /\ UNCHANGED <<arg, pending, loop, spent>>

Begins(first, a) ==
    /\ pc' = first /\ arg' = a
    /\ UNCHANGED <<pending, loop, spent>>

\* The call returns r.  A wrong PIN that is reported is accounted for.
Returns(r) ==
    /\ pc' = "idle" /\ arg' = "none" /\ pending' = "none"
    /\ part' = 0 /\ empty' = 0
    /\ spent' = IF r = "wrong_pin" THEN spent - 1 ELSE spent

GoesOn(next, r) == IF r = "ok" THEN Goes(next) ELSE Returns(r)

\* Once an object is loaded it is flushed on the way out, whatever comes out.
Unwinds(r) ==
    pc' = "flush_object" /\ pending' = r /\ UNCHANGED <<arg, loop, spent>>

\* A command whose outcome waits for the flush of its session.
Yields(r, next) == pending' = r /\ pc' = next /\ UNCHANGED <<arg, loop>>

Fault(name) == name \in TpmFaults

MayLeak(name) == Fault(name) /\ Cardinality(unflushed) < MaxLeaks

\* is_locked_out: a limit of 0 disables the lockout.
LockedOut == MaxTries # 0 /\ failures >= MaxTries

\* start_auth_session, then the attributes for parameter encryption: if they
\* cannot be set, the session exists and nobody holds it any more.
StartsSession(h, r) ==
    \/ r = "ok" /\ live' = live \cup {h} /\ UNCHANGED unflushed
    \/ r = "tpm" /\ Fault("command") /\ UNCHANGED handles
    \/ /\ r = "tpm" /\ MayLeak("attributes")
       /\ live' = live \cup {h} /\ unflushed' = unflushed \cup {h}

\* Mutant: the error of the flush comes first.
FlushErrorFirst(h, r) ==
    \/ /\ r = pending
       /\ live' = (live \ {h}) \cup unflushed /\ UNCHANGED unflushed
    \/ /\ MayLeak("flush") /\ r = "flush"
       /\ unflushed' = unflushed \cup {h} /\ UNCHANGED live

\* A flush and what came before it: an error of the command comes first, and
\* one of the flush alone is an error too.
Flushes(h, r) ==
    \/ /\ r = pending
       /\ live' = (live \ {h}) \cup unflushed /\ UNCHANGED unflushed
    \/ /\ MayLeak("flush") /\ r = IF pending = "ok" THEN "flush" ELSE pending
       /\ unflushed' = unflushed \cup {h} /\ UNCHANGED live

\* An empty PIN and one longer than an authValue never reach the TPM.
Tries(p, first) ==
    IF p \in {"empty", "long"} THEN Returns("input") ELSE Begins(first, p)

-----------------------------------------------------------------------------
(* The context and its primary; the key. *)

OpenContext ==
    /\ pc = "idle" /\ live = {}
    /\ \/ live' = {"primary"} /\ Returns("ok")
       \/ Fault("command") /\ Returns("tpm") /\ UNCHANGED live
    /\ UNCHANGED <<chip, unflushed, sealed, child>>

\* The sealer goes, and with its context whatever was left in it.
DropSealer ==
    /\ pc = "idle" /\ live # {}
    /\ live' = {} /\ unflushed' = {}
    /\ UNCHANGED <<chip, sealed, call, child, spent>>

Ready == pc = "idle" /\ "primary" \in live

GenerateKey ==
    /\ Ready
    /\ Begins("random", "none")
    /\ UNCHANGED <<chip, handles, sealed, child>>

ReadsOn(bytes, none) ==
    /\ part' = bytes /\ empty' = none
    /\ UNCHANGED <<pc, arg, pending, spent>>

\* Mutant: the count of reads that bring nothing starts over.
ReadsRecounted ==
    /\ pc = "random"
    /\ \/ \E n \in 1 .. KeyChunks - part :
             IF part + n = KeyChunks THEN Returns("ok") ELSE ReadsOn(part + n, 0)
       \/ ReadsOn(part, (empty + 1) % EmptyReads)
       \/ Fault("command") /\ Returns("rng")
    /\ UNCHANGED <<chip, handles, sealed, child>>

\* GetRandom may bring less than it was asked for, and too often nothing.
CollectRandom ==
    /\ pc = "random"
    /\ \/ \E n \in 1 .. KeyChunks - part :
             IF part + n = KeyChunks THEN Returns("ok") ELSE ReadsOn(part + n, 0)
       \/ IF empty + 1 >= EmptyReads THEN Returns("rng")
          ELSE ReadsOn(part, empty + 1)
       \/ Fault("command") /\ Returns("rng")
    /\ UNCHANGED <<chip, handles, sealed, child>>

-----------------------------------------------------------------------------
(* seal *)

Seal ==
    /\ Ready
    /\ \E p \in Pin : Tries(p, "trial")
    /\ UNCHANGED <<chip, handles, sealed, child>>

\* The digest of the policy comes from a trial session of its own.
StartTrial ==
    /\ pc = "trial"
    /\ \/ live' = live \cup {"trial"} /\ Goes("digest")
       \/ Fault("command") /\ Returns("tpm") /\ UNCHANGED live
    /\ UNCHANGED <<chip, unflushed, sealed, child>>

PolicyDigest ==
    /\ pc = "digest"
    /\ Yields("ok", "flush_trial") \/ (Fault("command") /\ Yields("tpm", "flush_trial"))
    /\ UNCHANGED <<chip, handles, sealed, child, spent>>

FlushTrial ==
    /\ pc = "flush_trial"
    /\ \E r \in Outcome : Flushes("trial", r) /\ GoesOn("start_create", r)
    /\ UNCHANGED <<chip, sealed, child>>

\* The Name of the primary is read, and pinned, before the session starts.
StartCreate ==
    /\ pc = "start_create"
    /\ \E r \in Outcome : StartsSession("hmac", r) /\ GoesOn("create", r)
    /\ UNCHANGED <<chip, sealed, child>>

Create ==
    /\ pc = "create"
    /\ Yields("ok", "flush_create") \/ (Fault("command") /\ Yields("tpm", "flush_create"))
    /\ UNCHANGED <<chip, handles, sealed, child, spent>>

FlushCreate ==
    /\ pc = "flush_create"
    /\ \E r \in Outcome :
          /\ Flushes("hmac", r)
          /\ Returns(r)
          /\ sealed' = IF r = "ok" THEN seed ELSE sealed
    /\ UNCHANGED <<chip, child>>

-----------------------------------------------------------------------------
(* unseal *)

Unseal ==
    /\ Ready /\ sealed # NoObject
    /\ \E p \in Pin : Tries(p, "verify_name")
    /\ UNCHANGED <<chip, handles, sealed, child>>

\* pin_holder_recover: an unseal, unless the counter says that it is too late.
PinHolderRecover ==
    /\ Ready /\ sealed # NoObject
    /\ \/ LockedOut /\ Returns("lockout")
       \/ ~LockedOut /\ \E p \in Pin : Tries(p, "verify_name")
       \/ Fault("command") /\ Returns("tpm")
    /\ UNCHANGED <<chip, handles, sealed, child>>

\* An object sealed under another primary is not even loaded.
VerifyPrimaryName ==
    /\ pc = "verify_name"
    /\ \/ GoesOn("start_load", IF sealed = seed THEN "ok" ELSE "mismatch")
       \/ Fault("command") /\ Returns("tpm")
    /\ UNCHANGED <<chip, handles, sealed, child>>

StartLoad ==
    /\ pc = "start_load"
    /\ \E r \in Outcome : StartsSession("hmac", r) /\ GoesOn("load", r)
    /\ UNCHANGED <<chip, sealed, child>>

\* In lockout the TPM refuses even the load.
Load ==
    /\ pc = "load"
    /\ \/ ~LockedOut /\ live' = live \cup {"object"} /\ Yields("ok", "flush_load")
       \/ LockedOut /\ Yields("lockout", "flush_load") /\ UNCHANGED live
       \/ Fault("command") /\ Yields("tpm", "flush_load") /\ UNCHANGED live
    /\ UNCHANGED <<chip, unflushed, sealed, child, spent>>

\* Mutant: an error of the flush of the session returns at once.
FlushLoadReturns ==
    /\ pc = "flush_load"
    /\ \E r \in Outcome :
          /\ Flushes("hmac", r)
          /\ GoesOn("start_policy", r)
    /\ UNCHANGED <<chip, sealed, child>>

FlushLoad ==
    /\ pc = "flush_load"
    /\ \E r \in Outcome :
          /\ Flushes("hmac", r)
          /\ CASE r = "ok" -> Goes("start_policy")
               [] r # "ok" /\ pending = "ok" -> Unwinds(r)
               [] r # "ok" /\ pending # "ok" -> Returns(r)
    /\ UNCHANGED <<chip, sealed, child>>

StartPolicy ==
    /\ pc = "start_policy"
    /\ \E r \in Outcome :
          /\ StartsSession("policy", r)
          /\ IF r = "ok" THEN Goes("unseal") ELSE Unwinds(r)
    /\ UNCHANGED <<chip, sealed, child>>

\* TPM2_Unseal: a wrong authValue counts.
UnsealCommand ==
    /\ pc = "unseal"
    /\ \/ ~LockedOut /\ arg = "right" /\ Yields("ok", "flush_policy")
          /\ UNCHANGED <<failures, spent>>
       \/ /\ ~LockedOut /\ arg # "right" /\ Yields("wrong_pin", "flush_policy")
          /\ failures' = IF MaxTries = 0 THEN 0 ELSE failures + 1
          /\ spent' = spent + 1
       \/ LockedOut /\ Yields("lockout", "flush_policy")
          /\ UNCHANGED <<failures, spent>>
       \/ Fault("command") /\ Yields("tpm", "flush_policy")
          /\ UNCHANGED <<failures, spent>>
    /\ UNCHANGED <<seed, auth, blocked, handles, sealed, child>>

FlushPolicy ==
    /\ pc = "flush_policy"
    /\ \E r \in Outcome : Flushes("policy", r) /\ Unwinds(r)
    /\ UNCHANGED <<chip, sealed, child>>

FlushObject ==
    /\ pc = "flush_object"
    /\ \E r \in Outcome : Flushes("object", r) /\ Returns(r)
    /\ UNCHANGED <<chip, sealed, child>>

-----------------------------------------------------------------------------
(* set_lockout_auth and reset_lockout *)

Current == IF arg = "derived" THEN "empty" ELSE "derived"

\* Enrollment looks, without an authorization, before it binds the hierarchy;
\* a release is not preceded by a look.
SetLockoutAuth ==
    /\ Ready
    /\ \/ \E new \in Auth :
             /\ new = "derived" => auth = "empty"
             /\ Begins("start_change", new)
       \/ Fault("command") /\ Returns("tpm")
    /\ UNCHANGED <<chip, handles, sealed, child>>

StartChange ==
    /\ pc = "start_change"
    /\ \E r \in Outcome : StartsSession("hmac", r) /\ GoesOn("change", r)
    /\ UNCHANGED <<chip, sealed, child>>

\* hierarchy_change_auth: a wrong authValue blocks the hierarchy.
ChangeAuth ==
    /\ pc = "change"
    /\ \/ /\ auth = Current /\ ~blocked
          /\ auth' = arg /\ UNCHANGED blocked
          /\ Yields("ok", "flush_change")
       \/ /\ auth # Current \/ blocked
          /\ blocked' = TRUE /\ UNCHANGED auth
          /\ Yields("lockout_auth", "flush_change")
       \/ /\ Fault("command")
          /\ UNCHANGED <<auth, blocked>>
          /\ Yields("lockout_auth", "flush_change")
    /\ UNCHANGED <<seed, failures, handles, sealed, child, spent>>

\* Mutant: only the flush is looked at.
FlushChangeBlindly ==
    /\ pc = "flush_change"
    /\ \E r \in {"ok", "flush"} :
          /\ \/ Flushes("hmac", r)
             \/ r = "ok" /\ live' = live \ {"hmac"} /\ UNCHANGED unflushed
          /\ GoesOn("resync", r)
    /\ UNCHANGED <<chip, sealed, child>>

FlushChange ==
    /\ pc = "flush_change"
    /\ \E r \in Outcome : Flushes("hmac", r) /\ GoesOn("resync", r)
    /\ UNCHANGED <<chip, sealed, child>>

\* The authValue the context keeps for the hierarchy follows the change.
Resync ==
    /\ pc = "resync"
    /\ \/ Returns("ok")
       \/ Fault("attributes") /\ Returns("lockout_auth")
    /\ UNCHANGED <<chip, handles, sealed, child>>

\* tpm2_dictionarylockout is spawned and given the authValue on its stdin; if
\* that cannot be written it is killed.  It needs no context.
ResetLockout ==
    /\ pc = "idle"
    /\ \/ (\E given \in Auth : Begins("reset", given)) /\ child' = "running"
       \/ Fault("child") /\ Returns("reset") /\ UNCHANGED child
    /\ UNCHANGED <<chip, handles, sealed>>

\* The child authorizes the reset, or fails of itself; it may take its time.
ChildRuns ==
    /\ child = "running"
    /\ \/ /\ auth = arg /\ ~blocked
          /\ failures' = 0 /\ child' = "done" /\ UNCHANGED blocked
       \/ /\ auth # arg \/ blocked
          /\ blocked' = TRUE /\ child' = "failed" /\ UNCHANGED failures
       \/ Fault("child") /\ child' = "failed" /\ UNCHANGED <<failures, blocked>>
    /\ UNCHANGED <<seed, auth, handles, sealed, call, spent>>

\* Whatever ends the wait, a child that still runs is killed and collected.
PollReset ==
    /\ pc = "reset"
    /\ \/ child = "done" /\ Returns("ok") /\ child' = "none"
       \/ child = "failed" /\ Returns("reset") /\ child' = "none"
       \/ child = "running" /\ part >= ResetTimeout
          /\ Returns("reset") /\ child' = "none"
       \/ /\ child = "running" /\ part < ResetTimeout
          /\ part' = part + ResetPoll
          /\ UNCHANGED <<pc, arg, pending, empty, spent, child>>
       \/ Fault("child") /\ Returns("reset") /\ child' = "none"
    /\ UNCHANGED <<chip, handles, sealed>>

-----------------------------------------------------------------------------
(* The TPM by itself, and its other users. *)

ChipChanges ==
    /\ \/ failures > 0 /\ failures' = failures - 1
       \/ failures < MaxTries /\ failures' = failures + 1
    /\ UNCHANGED <<seed, auth, blocked>>

\* TPM2_Clear, with no context open: new seeds, no authValue, no lockout.
ClearTpm ==
    /\ live = {} /\ pc = "idle" /\ seed < Seeds
    /\ seed' = seed + 1 /\ failures' = 0 /\ auth' = "empty" /\ blocked' = FALSE

Chip ==
    /\ ChipChanges \/ ClearTpm
    /\ UNCHANGED <<handles, sealed, call, child, spent>>

CallStep ==
    \/ CollectRandom
    \/ StartTrial \/ PolicyDigest \/ FlushTrial \/ StartCreate \/ Create
    \/ FlushCreate
    \/ VerifyPrimaryName \/ StartLoad \/ Load \/ FlushLoad \/ StartPolicy
    \/ UnsealCommand \/ FlushPolicy \/ FlushObject
    \/ StartChange \/ ChangeAuth \/ FlushChange \/ Resync
    \/ PollReset

BeginCall ==
    \/ OpenContext \/ DropSealer \/ GenerateKey \/ Seal \/ Unseal
    \/ PinHolderRecover \/ SetLockoutAuth \/ ResetLockout

-----------------------------------------------------------------------------
(* Properties. *)

\* "Transient handles are always flushed": between two calls the TPM holds the
\* primary for this context and nothing else, whichever command failed, except
\* what it refused to flush or to set up (unseal, flush).
HandlesFlushed == pc = "idle" => live \subseteq {"primary"} \cup unflushed

\* Every try that a call costs the dictionary-attack counter is reported by
\* that call as a wrong PIN, whatever else goes wrong, and nothing else is:
\* who counts the reports knows how many tries are left.
EveryTryIsReported == pc = "idle" => spent = 0

\* The context authorizes with a new authValue, and set_lockout_auth returns Ok,
\* only when the TPM has taken it over: a change that was refused is never
\* recorded as one, not even by a flush that succeeded after it.
ChangeIsKnown == pc = "resync" => auth = arg

\* Every call comes to an end, whatever the TPM answers and however long its
\* child would run: reads that bring nothing and looks at the child are bounded.
CallsReturn == pc # "idle" ~> pc = "idle"
=============================================================================

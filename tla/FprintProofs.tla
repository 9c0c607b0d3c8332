----------------------------- MODULE FprintProofs -----------------------------
(***************************************************************************)
(* Theorems about Fprint, for every deadline and grace and any number of   *)
(* signals: whose the reader is at each call, and what the client hears.   *)
(***************************************************************************)
EXTENDS Fprint, SequenceTheorems, TLAPS

\* The reader's signals about our verification.
Ours == {s \in Status : s.of = "us"}

\* Between the answers to Claim and to Release.
Claimed == {"subscribe", "start", "wait", "stop"}

CallFollowsPC ==
    /\ pc \in Call \cup {"wait", "returned"}
    /\ call \in {"sent", "ok", "err"}
    /\ pc \in Call => asked = pc
    /\ pc = "wait" => call = "ok"
    /\ ~capped /\ pc = "returned" => call # "sent"
    /\ ~connected => pc = "returned"
    /\ capped => pc = "returned"

OwnerFollowsPC ==
    /\ pc = "device" => owner # "us"
    /\ pc = "claim" => (owner = "us" <=> call = "ok")
    /\ pc \in Claimed => owner = "us"
    /\ pc = "release" => (owner = "us" <=> call # "ok")
    /\ pc = "returned" /\ ~capped =>
           owner # "us" \/ (asked = "release" /\ call = "err")

HeardFollowsPC ==
    /\ subscribed \in BOOLEAN /\ inbox \in Seq(Ours)
    /\ ~subscribed => inbox = <<>>
    /\ subscribed => pc \in Claimed
    /\ pc = "subscribe" => (subscribed <=> call = "ok")
    /\ pc \in {"start", "wait", "stop"} => subscribed

FprintInv == CallFollowsPC /\ OwnerFollowsPC /\ HeardFollowsPC

\* A step of the client keeps the invariant.
LEMMA ClientStepInv == ASSUME FprintInv, ClientStep PROVE FprintInv'
  <1> USE DEF FprintInv, CallFollowsPC, OwnerFollowsPC, HeardFollowsPC, Call,
              Claimed, client, reader, Calls, Fails, HasCalled,
              Unsubscribed
  <1>0. <<>> \in Seq(Ours)
    BY EmptySeq
  <1>1. CASE GetDefaultDevice
    BY <1>1 DEF GetDefaultDevice
  <1>2. CASE Claim
    BY <1>2 DEF Claim
  <1>3. CASE Subscribe
    BY <1>3 DEF Subscribe
  <1>4. CASE VerifyStart
    <2>1. CASE call = "ok"
      BY <1>4, <2>1 DEF VerifyStart
    <2>2. CASE call = "err"
      BY <1>0, <1>4, <2>2 DEF VerifyStart
    <2> QED
      BY <1>4, <2>1, <2>2 DEF VerifyStart
  <1>5. CASE WaitForOutcome
    <2>1. inbox' \in Seq(Ours)
      BY <1>5, HeadTailProperties DEF WaitForOutcome
    <2> QED
      BY <1>5, <2>1 DEF WaitForOutcome
  <1>6. CASE VerifyStop
    BY <1>0, <1>6 DEF VerifyStop
  <1>7. CASE Release
    BY <1>7 DEF Release
  <1>8. CASE HardCap
    BY <1>0, <1>8 DEF HardCap
  <1>9. CASE DropConnection
    BY <1>9 DEF DropConnection
  <1> QED
    BY <1>1, <1>2, <1>3, <1>4, <1>5, <1>6, <1>7, <1>8, <1>9 DEF ClientStep

\* As do fprintd, the bus and the other client.
LEMMA DaemonStepInv ==
    ASSUME FprintInv, StreamFails \/ Answer \/ Emit \/ Vanish \/ OtherClient
    PROVE  FprintInv'
  <1> USE DEF FprintInv, CallFollowsPC, OwnerFollowsPC, HeardFollowsPC, Call,
              Claimed, client, reader
  <1>1. CASE Answer
    <2>1. CASE call' = "err"
      BY <1>1, <2>1 DEF Answer, Accept
    <2>2. CASE call' = "ok" /\ pc = "subscribe"
      BY <1>1, <2>2 DEF Answer, Accept
    <2>3. CASE call' = "ok" /\ pc # "subscribe"
      <3>1. subscribed' = subscribed
        BY <1>1, <2>3 DEF Answer, Accept
      <3> QED
        BY <1>1, <2>3, <3>1 DEF Answer, Accept
    <2> QED
      BY <1>1, <2>1, <2>2, <2>3 DEF Answer
  <1>2. CASE Emit
    <2>1. inbox' \in Seq(Ours)
      <3>1. PICK status \in Status :
                /\ status.of = owner
                /\ inbox' = IF subscribed THEN Append(inbox, status) ELSE inbox
        BY <1>2 DEF Emit
      <3>2. subscribed => status \in Ours
        BY <3>1 DEF Ours
      <3> QED
        BY <3>1, <3>2, AppendProperties
    <2> QED
      BY <1>2, <2>1 DEF Emit
  <1>3. CASE Vanish
    BY <1>3 DEF Vanish
  <1>4. CASE OtherClient
    BY <1>4 DEF OtherClient
  <1>5. CASE StreamFails
    BY <1>5 DEF StreamFails, Calls
  <1> QED
    BY <1>1, <1>2, <1>3, <1>4, <1>5

\* At every call of the client: its state, the owner of the reader, what is heard.
THEOREM FprintInvAlways == Spec => []FprintInv
  <1>1. Init => FprintInv
    BY EmptySeq DEF Init, FprintInv, CallFollowsPC, OwnerFollowsPC,
                    HeardFollowsPC, Call, Claimed
  <1>2. FprintInv /\ [Next]_vars => FprintInv'
    <2> SUFFICES ASSUME FprintInv, [Next]_vars PROVE FprintInv'
      OBVIOUS
    <2>1. CASE Tick \/ UNCHANGED vars
      BY <2>1 DEF Tick, vars, client, reader, FprintInv, CallFollowsPC,
                  OwnerFollowsPC, HeardFollowsPC, Call, Claimed
    <2> QED
      BY <2>1, ClientStepInv, DaemonStepInv DEF Next
  <1> QED
    BY <1>1, <1>2, PTL DEF Spec

\* No answer about somebody else's finger is in the inbox.
THEOREM OnlyOwnVerdicts == Spec => []OwnVerdict
  <1>1. FprintInv => OwnVerdict
    <2> SUFFICES ASSUME FprintInv, NEW i \in DOMAIN inbox
                 PROVE  inbox[i].of = "us"
      BY DEF OwnVerdict
    <2>1. inbox[i] \in Ours
      BY ElementOfSeq DEF FprintInv, HeardFollowsPC
    <2> QED
      BY <2>1 DEF Ours
  <1> QED
    BY <1>1, FprintInvAlways, PTL

\* No answer of our own verification is missed.
THEOREM NoVerdictIsMissed == Spec => []NoGap
  <1>1. FprintInv => NoGap
    BY DEF FprintInv, HeardFollowsPC, NoGap
  <1> QED
    BY <1>1, FprintInvAlways, PTL

\* A verification that was not cancelled gives the reader back, if fprintd takes
\* it.
THEOREM ReaderIsReleased == Spec => []ReturnsReleased
  <1>1. FprintInv => ReturnsReleased
    BY DEF FprintInv, OwnerFollowsPC, ReturnsReleased
  <1> QED
    BY <1>1, FprintInvAlways, PTL
=============================================================================

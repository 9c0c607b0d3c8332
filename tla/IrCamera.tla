------------------------------- MODULE IrCamera -------------------------------
(***************************************************************************)
(* mug/camera and mug/sys: the infrared camera and its lamp.  The driver   *)
(* fills a ring of buffers as long as the device is open; a capture takes  *)
(* the oldest frame in it, or waits for one.  On most cameras the lamp     *)
(* comes on by itself once the stream has run for a while and stays on; a  *)
(* vendor command switches it where one is configured.  The virtual device *)
(* reads its frames from files.                                            *)
(***************************************************************************)
EXTENDS Naturals, Sequences, FiniteSetsExt

CONSTANTS
    Ring,                   \* the buffers of the stream (4)
    PollSlice,              \* how long the warmup waits for one frame
    WarmMin, WarmDelta,     \* how bright a warm frame is, by itself and more
                            \* than the cold one
    Unlit, Lit,             \* the brightness frames have without and with lamp
    None,                   \* no frame, no brightness yet
    Fails       \* what may fail: "camera", and "matcher" in FaceGate

ASSUME CameraAssumption ==
    /\ {Ring, PollSlice} \subseteq Nat \ {0}
    /\ {WarmMin, WarmDelta} \cup Unlit \cup Lit \subseteq Nat
    /\ Fails \subseteq {"camera", "matcher"}
    /\ None \notin [lit : BOOLEAN, mean : Unlit \cup Lit]

VARIABLES
    now,        \* time since the call of verify
    camera,     \* the device: "virtual", "streaming", or with a vendor command
                \* that is obeyed ("switched") or answered by an error ("deaf")
    lamp,       \* what the vendor command, or the virtual emitter, has set
    warm,       \* the lamp has come on by itself
    ring,       \* for each frame in the buffers: was it lit?
    phase,      \* the frame wanted next
    cold,       \* how bright the last cold frame was
    until,      \* when the budget of the running capture ends
    slice,      \* when its wait for one frame ends
    best        \* the brightest frame the warmup has seen

cameraVars == <<now, camera, lamp, warm, ring, phase, cold, until, slice, best>>

Frame == [lit : BOOLEAN, mean : Unlit \cup Lit]

Means(lit) == IF lit THEN Lit ELSE Unlit

CameraTypeOK ==
    /\ {now, until, slice} \subseteq Nat
    /\ camera \in {"virtual", "streaming", "switched", "deaf"}
    /\ lamp \in BOOLEAN /\ warm \in BOOLEAN
    /\ Len(ring) <= Ring
    /\ phase \in {"cold", "warm"}
    /\ cold \in {None} \cup Unlit \cup Lit
    /\ best \in {None} \cup Frame

\* A camera that has just been opened, or one that has taken a pair already.
\* A lamp that obeys, or no longer does, may still be on from another time.
CameraInit(used) ==
    /\ now = 0 /\ until = 0 /\ slice = 0
    /\ camera \in {"virtual", "streaming", "switched", "deaf"}
    /\ lamp \in IF camera \in {"switched", "deaf"} THEN BOOLEAN ELSE {FALSE}
    /\ warm \in IF used /\ camera # "virtual" THEN BOOLEAN ELSE {FALSE}
    /\ ring = <<>>
    /\ phase = "cold"
    /\ cold \in IF used THEN Unlit \cup Lit ELSE {None}
    /\ best = None

-----------------------------------------------------------------------------

\* The driver drops a frame for which it has no buffer.
Delivered == IF Len(ring) < Ring THEN Append(ring, lamp \/ warm) ELSE ring

\* At most one frame is delivered in a unit of time; the lamp does not come on
\* by itself before the stream has delivered one.
StreamRuns ==
    IF camera = "virtual" THEN UNCHANGED <<ring, warm>>
    ELSE /\ ring' \in {ring, Delivered}
         /\ warm' \in {warm, ring # <<>> \/ cold # None \/ warm}

Tick == now' = now + 1 /\ StreamRuns

\* set_enabled never fails: what the camera makes of the vendor command is only
\* logged, since the warmup does not depend on it.
SetEnabled(on) ==
    /\ lamp' = IF camera \in {"virtual", "switched"} THEN on ELSE lamp
    /\ phase' = IF on THEN "warm" ELSE "cold"

Smaller(a, b) == IF a < b THEN a ELSE b

\* A capture begins, in the phase set_enabled has left.
Opens(budget) ==
    /\ until' = now + budget
    /\ slice' = now + IF phase' = "cold" THEN budget ELSE Smaller(budget, PollSlice)
    /\ best' = None

\* MmapStream::dequeue gives out the oldest frame; the virtual device reads the
\* file for the state its emitter is in.
Dequeues(f) ==
    /\ f.mean \in Means(f.lit)
    /\ IF camera = "virtual" THEN f.lit = lamp /\ UNCHANGED ring
       ELSE /\ ring # <<>>
            /\ f.lit = Head(ring) /\ ring' = Tail(ring)

BrightEnough(f) == f.mean >= WarmMin /\ f.mean >= cold + WarmDelta

Warming == camera # "virtual" /\ phase = "warm"

\* The capture returns f: the one frame asked for, a frame that is bright enough,
\* or when time is up the brightest there was.
Captured(f) ==
    /\ UNCHANGED <<now, camera, lamp, warm, phase>>
    /\ best' = None
    /\ \/ /\ ~Warming /\ Dequeues(f)
          /\ cold' = IF phase = "cold" THEN f.mean ELSE cold
       \/ Warming /\ now < until /\ Dequeues(f) /\ BrightEnough(f) /\ UNCHANGED cold
       \/ Warming /\ now >= until /\ f = best /\ UNCHANGED <<ring, cold>>

\* A look that brought nothing, or nothing bright, is followed by another one.
LooksAgain ==
    /\ slice' = now + Smaller(until - now, PollSlice)
    /\ UNCHANGED <<now, warm>>

CaptureGoesOn ==
    /\ UNCHANGED <<camera, lamp, phase, cold, until>>
    /\ \/ /\ camera # "virtual" /\ ring = <<>> /\ now < slice
          /\ Tick /\ UNCHANGED <<slice, best>>
       \/ /\ Warming /\ ring = <<>> /\ slice <= now /\ now < until
          /\ LooksAgain /\ UNCHANGED <<ring, best>>
       \/ /\ Warming /\ now < until
          /\ \E f \in Frame :
                /\ Dequeues(f) /\ ~BrightEnough(f)
                /\ best' = IF best = None THEN f
                           ELSE IF f.mean > best.mean THEN f ELSE best
          /\ LooksAgain

\* No frame within the budget.
TimesOut ==
    /\ camera # "virtual"
    /\ \/ ~Warming /\ ring = <<>> /\ now >= slice
       \/ Warming /\ now >= until /\ best = None

\* Unplugged, hung up, a frame of another size.
CaptureFails == "camera" \in Fails
=============================================================================

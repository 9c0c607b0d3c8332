# Verification of tess in TLA+

tess unlocks the GNOME login keyring with a TPM 2.0 PIN, a face or both. `tess enroll` replaces the
keyring's master password (the user's login password) by a random key sealed in the TPM; at a login
a PAM module starts a helper under a deadline, and the helper unseals the key and opens the keyring.

This directory models that program, checks the models with TLC and proves their main properties with
TLAPS. Paths below are relative to `src/crates/` unless they say otherwise.

## 1. The system

| Part | State it keeps | Operations | Hard about it |
|---|---|---|---|
| Enrollment (`tess-cli/src/enroll/`) | a `Tx` of what has been done so far | `enroll`, `commit`, `commit_face`, `Tx::rollback` | eight side effects in three places (files, TPM, keyring daemon), each of which may fail; the process may die between any two; one of them is destructive |
| Lifecycle (`tess-cli/src/lifecycle/`) | none beyond the running command | `unlock`, `recover`, `reseal`, `unenroll`, `remove_blobs` | the reverse hand-over, its own revert, releasing a lockout hierarchy it may or may not own |
| TPM access (`tess-tpm/src/esapi.rs`, `seal.rs`) | a context, its primary, sessions and objects | `seal`, `unseal`, `generate_key` | a command and the flush after it may fail, alone or together |
| Sealed blobs (`tess-tpm/src/persist.rs`, `tess-cli/src/enroll/recovery.rs`) | five files and a marker | `save` (temporary file, rename, fsync of the directory), `load`, `remove` | an error after the rename; a blob outlived by its TPM |
| Lockout hierarchy (`tess-tpm/src/lockout.rs`) | an authValue, a counter and two lockouts in the TPM | `set_lockout_auth`, `reset_lockout`, queries | one wrong authorization blocks it for a day; it may belong to somebody else; the reset is a child process that may hang |
| Keyring backend (`tess-keyring/src/backend.rs`) | the collection, in the daemon | `unlock`, `rekey`, `is_locked` over D-Bus | the daemon may act and the reply be lost |
| PAM module (`tess-pam/src/ffi.rs`, `gate.rs`) | the PIN between the auth and the session phase | `pam_sm_authenticate`, `pam_sm_open_session` | runs in the login's own thread: it may neither block nor fail closed |
| Watchdog (`tess-pam/src/helper.rs`) | deadline, child, signals | `run_with_input`, `supervise`, reaper thread | timeouts, SIGTERM/SIGKILL, uninterruptible sleep, zombies, recycled pids |
| Session helper (`tess-cli/src/session.rs`, `pam_helper.rs`) | its current leg | `run_pam_helper`: connect, face, fingerprint, PIN | legs fail, hang, or die one after the other inside one budget |
| Fingerprint client (`tess-fprint/src/lib.rs`) | one D-Bus call or one wait | `verify`: Claim, subscribe, VerifyStart, wait, VerifyStop, Release | broadcast signals, another client, cancellation in the middle |
| Face gate (`mug/src/gate.rs`, `camera/`, `sys.rs`) | emitter, ring of buffers, deadline, votes | `verify`: pair off/on, liveness, vote | nested deadlines; frames that have waited in a buffer; a lamp that comes on by itself; the lamp on every exit path |
| Face models (`mug/src/{align,detect,liveness,matcher}.rs`) | none | detection, liveness, embedding, distance | thresholds, suppression, numbers a model puts out |
| Face store and configuration (`mug/src/{store,config}.rs`) | the template files | `save`, `load`, `remove` | a template outlives the enrollment it was made in |
| Face commands (`tess-cli/src/face.rs`) | the running command | `enroll --face`, `unlock --face`, `face-test` | what each takes from its environment, and what stands in for a model that is missing |
| Installer (`tess-cli/src/install/`) | service file, module, backup | `install`, `uninstall`, `add_block`, `remove_block`, `validate_stack` | editing the file every login reads, with power loss; hand-written stacks |
| doctor, CLI, GNOME extension, packaging | see `PROJECT.json` | | not modelled (section 8) |

How they interact:

* The commands of `enroll` and `lifecycle` share the files, the TPM, the keyring and what the user
  was shown. There is no lock between them.
* The PAM module spawns the helper and talks to it through stdin (the PIN), its exit status and
  signals. The helper calls the face gate, the fingerprint client, the TPM and the keyring daemon.
* The keyring daemon and fprintd are processes of their own behind D-Bus. What they have received
  they carry out, even if the caller has died.
* The installer connects the PAM module to the logins by one `optional` line.

What makes each of them correct, in a sentence:

* the keyring is always openable by a secret the user holds, and its key is never without its blobs;
* the lockout hierarchy is never bound without a marker, nor blocked by enrolling;
* a login returns in bounded time, leaves no helper behind that it could signal, opens the keyring only by a factor;
* a face opens the keyring only if it is alive, the enrolled one, and of the enrollment in force;
* a file is whole or absent, and a call of the TPM leaves nothing behind in it;
* the reader and the lamp are given up on every exit;
* the PAM stack is never torn, never loses a line of the administrator's (but see nested markers in
  section 6), and never lets tess decide about a login.

The list of hazards, each with its source line and the properties that cover it, is in
`PROJECT.json` under `hazards`.

## 2. The modules

| Module | Models | Extends |
|---|---|---|
| `KeyringCustody` | abstract: the credential moves between a password and a key that both blobs keep | – |
| `Vault` | shared state of the commands and the outcomes of every operation on keyring, files and TPM | – |
| `Enroll` | `enroll`, `commit`, `commit_face`, `Tx::rollback` | `Vault` |
| `Lifecycle` | `unlock`, `recover`, `reseal`, `unenroll` | `Vault` |
| `Tess` | their composition with crashes, TPM clears, lockout timers, the session that locks the keyring; properties and inductive invariants | `Enroll`, `Lifecycle` |
| `MCTess` | symmetry of the keys | `Tess` |
| `TessProofs` | theorems about `Tess` | `Tess` |
| `Watchdog` | `helper.rs`: the PAM thread, its child, the reaper; the abstract view of a login | – |
| `LoginSession` | the session phase: `ffi.rs`, `gate.rs`, `session.rs`, the keyring daemon | `Watchdog` |
| `MCLogin` | durations and faults | `LoginSession` |
| `WatchdogProofs`, `LoginProofs` | theorems about both | |
| `Fprint` | one verification, fprintd and another client | – |
| `PamStack` | pure: the edits of a PAM stack, the safety check, and what PAM makes of a control flag | – |
| `PamInstall` | `install` and `uninstall` on a file system that may lose power | `PamStack` |
| `MCInstall` | the stacks an administrator may have | `PamInstall` |
| `AtomicFile` | abstract: a file that is whole or absent and survives what was acknowledged | – |
| `SealedFiles` | the writers of `persist.rs`, `recovery.rs` and `store.rs`, system call by system call | – |
| `TpmAccess` | `seal`, `unseal`, `generate_key`, `set_lockout_auth`, `reset_lockout`, command by command | – |
| `SealedBlob` | a client of both, deaths and losses of power | `TpmAccess`, `SealedFiles` |
| `IrCamera` | the ring of buffers, the warmup, the lamp | – |
| `FaceGate` | one face verification, and the second capture of `face-test` | `IrCamera` |
| `IrPipeline` | pure: liveness from pixels, detection, suppression, what may be compared | – |
| `FaceSetup` | pure: what a face command makes of its environment | `IrPipeline` |
| `FaceAccount` | the face commands and the transaction of `Tess` | `Tess`, `FaceSetup` |
| `MCFaceAccount` | scenes, models, configurations, environments | `FaceAccount` |
| `TwoEnrolls`, `MCTwoEnrolls` | two enrollments at once, each an instance of `Enroll` | – |
| `FprintProofs`, `FaceProofs`, `SealedProofs`, `InstallProofs` | theorems about `Fprint`, `FaceGate`, `SealedBlob`, `PamInstall` | |
| `FaceAccountProofs` | theorems about `FaceAccount` | `FaceAccount`, `TessProofs` |

Two conventions hold throughout. A constant such as `LostReplies`, `Crashes`, `Sticks`, `SignalFails` or
`FileFaults` names faults and a configuration turns it on or off. A definition whose comment begins with
"Mutant:" is not part of any specification: it is the next definition with one plausible mistake in
it, kept to show that a property notices (section 7).

### 2.1 The transaction: Vault, Enroll, Lifecycle, Tess

A key `k` in `Key` stands for all that one enrollment generates together: the keyring key K, the
recovery secret R, the face authValue and the lockout authValue derived from R. They are drawn anew
each time and never mixed by the code, so one name is enough to ask whether two artifacts belong
together. `disk[f]` is the key file `f` was written for. `Password` is any password the user chose.

* `cred` and `locked` are the collection of the daemon; `Unlocks`, `UnlockFails`, `Rekeys`,
  `RekeyFails` are the outcomes of `backend.rs`. A rekey that returned `Err` may have
  taken effect at the steps in `LostReplies`: the rekey to the key (`"rekey"`), its undoing by the
  rollback (`"restore"`), the rekey to the password in an unenrollment (`"revert"`), its undoing
  (`"reinstate"`).
* `disk`, `stale`, `marker` are the files. A save that returned `Err` may have left the file when
  `SyncFails` (the fsync of the directory comes after the rename). `stale` are the sealed files made
  before a TPM clear: they load and do not unseal.
* `lockout`, `selfLocked`, `daLocked` are the lockout hierarchy: its authValue, its own block after a
  wrong authorization, and the dictionary-attack lockout. With `FlushFails` a change took effect
  although an error was reported.
* `shown` are the keys whose recovery secret was printed.
* `pc`, `key`, `tx`, `report` are the running command: the next step, the key it works with, what
  `Tx` has recorded (then what is left to undo), what it told the user.

Each side effect of the code is one action with all its outcomes (`BackupRecovery`, `SealMetadata`,
`BindLockout`, `WriteMarker`, `RekeyToKey`, ..., `RestoreKeyring`, `UnbindLockout`, `CleanupFile`;
`ProveKey`, `RekeyToPassword`, `CheckPassword`, `ReinstateKey`, `ReleaseLockout`, `SweepFile`, ...).
`Crash` ends any of them. Commands run one at a time: the code does not enforce it, see section 6.

What the commands print, the metadata format, PIN policy, the wrapping of the recovery blob (it
unwraps under its own secret and no other) and the number of wrong tries before a lockout are
abstracted; `daLocked` may become true whenever it likes.

### 2.2 The login: Watchdog and LoginSession

`Watchdog` counts time from the login. `gate` is where the PAM thread is (`polling`, `term`,
`terming`, `kill`, `killing`, `returned`), `deadline`, `until` and `wake` its three points in time.
The child may exit, be killed by a signal that reached it, be killed by somebody else, ignore SIGTERM
(`deaf`, inherited), or be in an uninterruptible system call (`stuck`), where not even SIGKILL works
until it returns. Time passes only while the thread sleeps: the thread is assumed to be scheduled
when its sleep is over. With `SignalFails` a `kill` may return an error other than ESRCH: the escalation
ends where it is (`SignalRefused`), the thread returns, and `refused` remembers it.

`LoginSession` adds what the helper does: `leg` is the call it is in, `due` when that call ends
unless it is one of `Hangs`. `request` is an unlock on its way to the keyring daemon; `Serve` carries
it out whether or not the helper still lives. `fingerprint` and `face` are the module's arguments,
`gesture` and `pin` what the PAM conversation yielded, `tries` the wrong PINs the TPM was given.
`Supervised` says that every step of the session is a step of the watchdog or leaves it alone: the
watchdog is the specification of the session as its parent sees it.

### 2.3 Fingerprint: Fprint

`pc` is the D-Bus method the client waits for, `asked` the last one it has called, `call` whether fprintd
has answered that one. fprintd may answer late, with an error, or never, and it carries out what was
sent even if nobody waits for the answer any more: a `Claim` may land after the backstop has dropped the
operation. It may refuse any call, `Release` included, and the stream of signals may fail. `Emit` sends VerifyStatus signals to whoever has a match rule,
for the verification of whoever owns the reader: they are broadcast. `HardCap` is the backstop of
`verify`, which drops the operation where it stands; `DropConnection` is what the caller's drop of the
client does and `Vanish` how fprintd reacts to it. `owner` and `verifying` are fprintd's, modelled
from how the client uses it.

### 2.4 Installer: PamStack and PamInstall

A stack is a sequence of lines; a line is a begin marker, an end marker, another module's line, a
malformed line, or a tess line with its control flag. `RemoveBlock` and `AddBlock` are the code's
edits, `ValidateStack` its check, `PamAction` what libpam does with a control flag (external). `Foreign`,
`Nested` and `SameForeign` are for the properties: the lines outside the blocks, a block being a begin
and an end marker with no marker between them, and whether two stacks have the same ones. They do not
use `RemoveBlock`.

`file[f]` is what a process sees under a name and `disk[f]` the set of contents a loss of power may
leave there: a write or rename adds to the set, an fsync of the file takes the torn contents out, an
fsync of the directory takes the old ones out. `Fails` is an error of, or a death before, any system
call. Only the service file, the module and the one backup are kept. Temporary files are `staged`.

### 2.5 TPM and files: TpmAccess, SealedFiles, SealedBlob

`TpmAccess` has one action per TPM command and one per flush. `live` are the handles the TPM holds for
the context, `unflushed` those it would not flush or that were never set up; `pending` is what a
command came to while its session is being flushed, which is where the code decides between two
errors. `seed` stands for the primary the TPM derives: clearing the TPM replaces it, and a sealed
object is named by the seed it was made under. `failures` is the counter of the dictionary attack,
`spent` the tries this caller cost it and was not told about. `child` is `tpm2_dictionarylockout`,
polled with a limit and killed.

`SealedFiles` is about one of three kinds of file (`kind`): they are written in the same order
(temporary, fsync, rename, fsync of the directory) and differ in what they do with a name that is
taken and a temporary that fails. The removal of such a temporary may fail too, which the code ignores.
`disk` is the set of contents a loss of power may leave, as in
`PamInstall`; `litter` is a temporary nobody will remove. `AtomicFile` is what each implements.

`SealedBlob` lets one client use both in turn: what it saves is the object it has, what it loads it
may unseal. `Vault` in turn uses the outcomes of these operations as single steps: an error after the
file is in place (`SyncFails`), a change that took effect and was reported as an error (`FlushFails`).

### 2.6 Camera and verification: IrCamera, FaceGate

`ring` is the queue of filled buffers, `TRUE` for a lit frame; the driver fills it while the models load
and drops what does not fit. On a camera that `streams` the lamp comes on by itself (`warm`); on one
that is `switched` a vendor command sets `lamp`, on a `deaf` one it is refused, which the code only
logs. `until` and `slice` are the ends of a capture's budget and of its wait for one frame; `best` is
the brightest frame of the warmup, `cold` the brightness of the last dark one.

An action of `FaceGate` is one call. What the models make of a frame (its distance, whether there is a
face) is a choice; the liveness of the pair needs the difference the lamp must make. The median and
the thresholds are as the code computes them, on the sorted votes.

### 2.7 The face and the account: IrPipeline, FaceSetup, FaceAccount

`IrPipeline` computes liveness from two frames of pixels in integers (scores in percent), decodes and
suppresses detections, and says at which distances (in percent) two embeddings may be found. `FaceSetup` resolves a
record of environment variables to user, store, backend, configuration, matcher and detector.
`FaceAccount` adds to the transaction of `Tess` the capture of a template, its store, the unlock by face
and `face-test`. A template carries the
thresholds of the enrollment, for the score and for the match, and they are the ones a match uses.
`opened` records on what grounds the last step opened the keyring by face.

Assumptions: a face command and another command do not run at the same time; the lockout hierarchy
has another owner (binding it is the subject of `Tess`); one model finds two different aligned faces at
a distance of at least `Separation`, and may find anything else at any distance (the same face, or
what the mock, a whole scene or two different models make of two); a shell names its own user, or nobody the
store can have; a scene has finitely many cells; every configuration has all limits of the gates (a
missing one is defaulted in the code); no model file has the name that stands for the detector which
looks at the whole scene. A template does not say which model it was made with, so `StrangerStaysOut` excepts an
unlock with another model of the same length; and nothing bounds `match_threshold`, so it excepts a
template enrolled with one of `Separation` or more (`Loose`).

### 2.8 TwoEnrolls

Two instances of `Enroll` with a shared keyring, TPM and file system and a transaction each. It exists
for the one question the sequential `Tess` cannot ask; the answer is a finding (section 6).

## 3. What each run checks

Each run finishes within a few minutes, most in seconds. States are distinct ones.

| Run | Configuration | Checks | States |
|---|---|---|---|
| `faults` | `MCTess_faults` | `BlobsKept`, `OwnedAuthMarked`, `FaceBelongs`, `EnrollNeverBlocks`, `UnenrollNeverStrands`, `CustodySpec` | 114,280 |
| `exits` | `MCTess_exits` | `WayBackWithoutTpm`, `RolledBack`, `CommandEnds` | 87,112 |
| `login` | `MCLogin_faults` | `ReturnsInTime`, `OpenedByAFactor`, `AuthorizedIsOpen`, `TriesBounded`, `RoomForThePin`, `NoHelperLeft`, `SignalsOwnChild`, `HelperEnds`, `Supervised` | 371,012 |
| `fingerprint` | `MCFprint` | `OwnVerdict`, `NoGap`, `ReturnsReleased`, `ReaderGivenUp` | 4,191 |
| `install` | `MCInstall` | `AdminLinesKept`, `TessFailsOpen`, `UninstalledWhole`, `ModuleUnderStack` | 59,783 |
| `sealed` | `MCSealed` | `HandlesFlushed`, `EveryTryIsReported`, `ChangeIsKnown`, `FilesAtomic`, `CallsReturn` | 539,472 |
| `face` | `MCFace` | `AcceptedByMajority`, `PairIsOffOn`, `WaitsWithinDeadline`, `VerdictInTheDark`, `VerificationEnds` | 189,523 |
| `facesetup` | `MCFaceAccount` | `StrangerStaysOut`, `OpenedByItsEnrollment`, `SpoofStaysOut`, `ProminentFaceIsJudged` | 307,885 |
| `stranded`, `skipped_release`, `half_backup`, `two_enrolls` | one each | a statement of the source that the code does not keep: section 6 | – |

Each module also states its type invariant (`TypeOK`, `TpmTypeOK`, ...); it is for the reader and the
proofs, and no run spends its time on it. `Tess!IndInv` and
`LoginSession!LegsKnow` are invariants the proofs rest on; they are proved and not run.

Bounds, and why they are enough:

* `faults`: three keys, interchangeable (no action names one). Two are needed for the artifacts of one
  enrollment to meet those of another, the third for a stale one beside both. All faults but one: the
  replies of the rollback's rekey and of both rekeys of an unenrollment may be lost, the one of the rekey
  to the key may not, because the invariants are false with it (`stranded`). Every counter is a set or a bit: the state space is complete for three
  enrollments that leave a trace.
* `exits`: two keys without symmetry (it checks liveness), no crash and no late fsync. Both are left
  out because the statements are false with them (section 6); every other failure is on.
* `login`: deadlines of 4, 7, 8 and 15 units, `Grace` 3, `Poll` 2; a leg of the face or the finger
  takes 2 units, another one 1. As in the code (3, 12 and 9 s; 8 + 1 s of fingerprint, 2.5 s of face) a
  deadline is just above the sum of the legs it covers, which is what `RoomForThePin` is about: a leg
  that overruns its own bound sets `late`. Phases of odd length are no multiple of `Poll`, so a sleep
  that is not cut off at the end of its phase is late. Every leg may fail and may hang, the spawn and
  each signal may fail, the helper may be stuck or killed by somebody else.
* `fingerprint`: `Deadline` 3, `CleanupGrace` 2, at most `MaxStatus` = 2 signals: a retry and a
  verdict, or one to each client.
* `install`: all stacks of up to three lines from both markers and another line, stacks with two
  blocks, with nested, crossed and stray markers, a malformed one, a missing file, a symbolic link, and
  seven hand-written tess lines of every kind of control flag. Commands, failures, losses of power
  and edits by the administrator alternate without bound.
* `sealed`: two seeds (one TPM clear), lockout after two tries, two empty reads (8 in the code), a key in
  two parts, a reset polled twice, two temporary names (16 in the code), at most one handle per context
  that cannot be flushed. Every loop thus ends by its limit and before it. Contents are seeds: an old
  and a new one tell a file apart from what it replaced.
* `face`: the ring of 4 buffers, looks of 4 units, deadline 14, a frame's budget 3, the models 1. The
  deadline is enough for a pair and five frames when the camera is quick, and short enough to run out
  in every phase when it is not. Five frames, three needed, as in the code; distances on both sides of
  the threshold. Unlit frames have brightness 0 or 1 and lit ones 2 or 3, with `LiveDelta` 2: a lit
  frame need not be brighter than an unlit one by enough, and never is by accident.
* `facesetup`: a model that separates faces by 50 and match thresholds of 34, the default, and of 200, which
  takes any face; the configuration may change between enrollment and unlock. Frames of nine pixels, ten scenes that each fail in one gate or pass (a screen, a print
  with texture, a glossy one, glare, a distant screen; one face, a face twice, two faces, a dim one,
  broken detections), seven model files, five configurations, and environments that differ from the
  usual one in one variable. Two keys, one other user.
* `two_enrolls`: two keys, no crash, no lost replies and no late failure of a save: an operation that fails
  without effect is enough.

Deadlock is checked for `Tess`, `PamInstall` and `SealedBlob`. `LoginSession`, `Fprint` and `FaceGate` are one
login or one verification each, and stop when it is over; that they come to their end is checked as
`HelperEnds`, `ReaderGivenUp` and `VerificationEnds`. `FaceAccount` may stop when its two keys are used up.

### Fairness

* `Tess!FairSpec`: weak fairness of a step of the running command. A command is sequential and every
  call it makes returns, with a reply or an error. Nothing makes the environment act, and no command
  has to be started.
* `LoginSession!FairSpec`: the PAM thread and the reaper are scheduled, time passes, a signal is
  delivered to a process that can take it, and a system call returns in the end. Nothing makes a
  helper end by itself: `HelperEnds` holds because of the signals.
* `Fprint!Spec`: the client is scheduled, time passes, and fprintd notices a connection that is gone.
  It need not answer any call.
* `FaceGate!Spec`: each call returns within its own time limit (weak fairness of `Next`), and the models
  take time: the clock does not stand still however many frames are looked at (strong fairness of
  `Works`). The camera need not deliver a frame.
* `SealedBlob!FairSpec`: the client is scheduled (weak fairness of a step of the running call and of
  the running save). The TPM answers each command, with an error if it likes; a child need not end.

## 4. What is proved

For every value of the constants that the named assumptions admit (`VaultAssumption`,
`WatchdogAssumption`, `LoginAssumption`, `FprintAssumption`, `CameraAssumption`, `FaceAssumption` of
`FaceGate` and of `FaceAccount`, `TpmAssumption`, `FilesAssumption`, `BlobAssumption`, `StacksAssumption`):
any set of keys, budgets, graces, poll intervals, leg times, rings, brightness, distances, frames, tries,
stacks, environments, configurations, scenes and faults. Where a theorem needs more than these its
hypotheses are in its ASSUME, and in this table.

| Theorem | Statement |
|---|---|
| `TessProofs!Inductive` | `"rekey" \notin LostReplies` implies `Spec => []IndInv` |
| `TypeCorrect`, `BlobsAlwaysKept`, `OwnershipIsMarked`, `FaceIsCurrent` | its consequences |
| `EnrollDoesNotBlock` | `Spec => EnrollNeverBlocks`, an action property, with the same assumption |
| `Refinement` | `Spec => CustodySpec`: the commands implement `KeyringCustody`, with the same assumption |
| `UnenrollIsSafe` | `Spec => UnenrollNeverStrands`, an action property, with no assumption about replies |
| `WayBackIsLeft`, `UserIsNotStranded` | `WayBackWithoutTpm`, `UserCanOpen`, if no process dies and the reply of the rekey to the key is not lost |
| `RollbackIsComplete` | `RolledBack`, if the reply of the rekey to the key is not lost and no save fails after its rename |
| `WatchdogProofs!NeverLate`, `NobodyForgotten` | `ReturnsInTime`, `NoHelperLeft` |
| `OwnChildOnly` | `SignalsOwnChild`, unless the host process collects its children itself |
| `LoginProofs!SessionIsSupervised` | `Spec => Supervised`: the session implements the watchdog |
| `LoginNeverLate` | `ReturnsInTime` of the session, from the last two |
| `FactorNeeded`, `AuthorizedMeansOpen`, `OneTryALogin` | `OpenedByAFactor`, `AuthorizedIsOpen`, `TriesBounded` |
| `PinHasRoom` | `RoomForThePin`, if each deadline covers the legs of its gesture and the PIN's (`DeadlinesCoverLegs`) |
| `FprintProofs!OnlyOwnVerdicts`, `NoVerdictIsMissed`, `ReaderIsReleased` | `OwnVerdict`, `NoGap`, `ReturnsReleased` |
| `FaceProofs!InTimeAlways`, `DarkAtTheEnd`, `PairShowsTheLamp`, `MajorityAccepts` | `WaitsWithinDeadline`, `VerdictInTheDark`, `PairIsOffOn`, `AcceptedByMajority` |
| `FaceAccountProofs!FaceIsTess` | `FaceSpec => Spec`: the face commands implement the transaction of `Tess` |
| `NoTemplateIsLeftOver` | `OpenedByItsEnrollment`, if the reply of the rekey to the key is not lost |
| `StrangersStayOut`, `MostProminentIsJudged` | `StrangerStaysOut`, `ProminentFaceIsJudged`, with no assumption about replies |
| `SpoofsStayOut` | `SpoofStaysOut`, if the gates before the score reject every spoof (`SpoofsRejected`) |
| `InstallProofs!Inductive` | `Spec => []IndInv`, the invariant of the installer |
| `LinesAreKept`, `AlwaysFailsOpen`, `NothingIsLeft`, `OneBlock` | `AdminLinesKept`, `TessFailsOpen`, `UninstalledWhole`, `InstalledOnce` |
| `ModuleFirst` | `Spec => ModuleUnderStack`, an action property |
| `SealedProofs!NothingIsLeft`, `TriesAreReported`, `KnownChange` | `HandlesFlushed`, `EveryTryIsReported`, `ChangeIsKnown` |
| `SealedProofs!FilesAreAtomic` | `FilesAtomic`, a refinement |

The arguments:

* **The transaction.** `BlobsKept` alone is not inductive: nothing in it says that the blobs were
  written when `RekeyToKey` is reached, or that the keyring is on the password when `CleanupFile`
  removes them. `IndInv` adds, for each step of a command, which credential is in force
  (`CredFollowsPC`), which blobs are there (`BlobsFollowPC`), what the lockout hierarchy and the
  marker hold (`LockoutFollowsPC`), and that the revert of an unenrollment finds everything in place
  (`ReinstatePossible`). `StepTypeOK` and `StepSafe` go through every action of `Next`. Losing the
  reply of the rekey to the key breaks it: `cred` and `tx` then disagree, which is the finding `stranded`. `UnenrollInv` is a
  smaller invariant that survives that too, because an unenrollment touches no blob until it
  has seen the password open the keyring. `ShownInv` says that outside an enrollment a keyring on a
  key is on one that was shown, which a death between rekey and print breaks. `RollbackInv` says that an
  enrollment that fails knows every file that would refuse the next one, which a save that fails after
  its rename breaks.
* **The refinement** maps `kept` to the keys both blobs hold. `CredStep` shows that the credential
  changes only from the password to the key of the blobs or back, and `OnKeyKeepsBlobs` that no blob
  is written or removed while the keyring is on its key.
* **The watchdog.** `OnTime` bounds the clock and the next wake-up in each phase; the three phases add
  up to `deadline + 2 * Grace`. It needs that a sleep is cut off at the end of its phase, which is
  what the mutant of `SleepTowards` lacks.
  `NoHelperLeft` follows the signals through the same phases: the thread gives up on a running helper only
  in the last one, where SIGKILL has been sent, or on a refusal.
* **The login.** `LegsKnow` records, for each leg, what the helper must have been through, what a
  request on its way was made with, and that a wrong PIN ends the helper. `RoomInv` says that the leg
  the helper is in, and all legs that may come after it (`AfterLeg`), end before the deadline; the
  hypothesis `DeadlinesCoverLegs` is what the comments at the three deadlines promise
  (`helper.rs:34-44`), and the theorem that it is enough when fingerprint, face and PIN come one after
  the other.
* **The fingerprint.** `FprintInv` says whose the reader is at each call, before and after its answer.
  A match rule is only in place while the reader is ours, so what is heard is about our finger.
* **The camera.** `TimeInv` holds every wait and every budget to the deadline; only the models may go
  beyond it, by one frame. `PairInv` follows the oldest frame in the ring: until the first one has been
  taken the head of the ring is unlit, whatever the lamp does by itself behind it. That the pair was
  taken without and with the lamp then follows from `FaceAssumption`: what changes by itself is less
  than what the lamp adds.
* **The TPM.** `TpmInv` names the handles a call holds before each command (`Held`), and the wrong PIN it
  still has to report (`Owed`). It needs that an error of a command outranks one of the flush after it.
* **The files.** `FilesInv` is small: a save has a content, has acknowledged nothing before its last
  step, and renames only what is durable. Each step of a writer is then one of `AtomicFile`.
* **The vote.** That the upper median is a strict majority needs that a sum over a finite set splits
  into those over its parts, and that there is a smallest distance at which enough votes have been counted.
* **The installer.** `IndInv` says what each of the three files may hold under its name and after a loss
  of power (`Files`), in terms of the administrator's stack without blocks (`Rest`) and with one
  (`Wired`); in which order they get there (`Order`, `Unwiring`); and what a report vouches for
  (`Reports`). It rests on lemmas about the pure operators: `RemoveBlock` leaves no block, takes out what
  `AddBlock` put in, and leaves a stack without one alone, whatever markers are crossed or doubled in it;
  and, for `LinesAreKept`, that each round of it takes out one block and no foreign line, and does not
  make a new block as long as none is nested (`CutKeeps`, `RemovalKeeps`);
  `ValidateStack` accepts only stacks in which no line of tess can decide.
* **The face and the account.** `StepOfTess` maps each step of `FaceAccount` to one of `Tess` or to none, so
  `IndInv` holds here too. `LegInv` adds that the template file is of the key whenever the face object
  is in place, because the face leg saves it last; `TemplateInv`, that the template in hand is of the
  key it may open; `GatesInv`, that looking at a face and the transaction never overlap. `MatchInv`
  follows from environment to pipeline to comparison where the mock may come in; `SpoofInv` needs that a
  score changes no other limit (`ScoreAside`). `NmsKeepsStrongest` is the induction behind
  `MostProminentIsJudged`.

Three of these need induction over data. The library's induction theorems take an operator as a
parameter and cannot be used; the proofs use instead that strict inclusion is well-founded on the finite
subsets of a set (`FS_StrictSubsetOrderingWellFounded`, `WFMin`, which are first-order) and go by
induction over subsets, or over the lines of a stack. The same shows that the recursive functions inside
the library's folds and `RemoveBlock` exist and are what they say.

The proofs go through the actions one by one; type correctness is part of each invariant as far as the
argument needs it. `TessProofs` proves `TypeOK` component by component, which keeps its obligations small.

Assumptions to know about: that the reply of the rekey to the key is not lost, no process dies or no save fails late (where said; what
happens otherwise is in section 6), that a scheduled thread runs promptly, and what the models take from
the outside: the daemon opens a collection only with its master password, the TPM releases a sealed key
only with its authValue, one model keeps two aligned faces `Separation`
apart. `MCLogin` and `MCFaceAccount` assert
`DeadlinesCoverLegs` and `SpoofsRejected` of their constants, so TLC shows that the hypotheses can be met.
`SpoofsRejected` is about the data and not about the code: which pictures the default limits reject is a
question for a camera.

Only model-checked: all liveness (`CommandEnds`, `HelperEnds`, `ReaderGivenUp`, `VerificationEnds`,
`CallsReturn`), because fairness is outside the prover's reach. Every invariant and every other action
property of a passing run is proved.

## 5. What the properties say about the code

* `BlobsKept` / `Refinement`: `enroll/mod.rs:362-440` may fail or die anywhere, and the keyring is
  never on a key without both its blobs, in whatever order commands and TPM clears come.
* `OwnedAuthMarked`: the bind comes before its marker (`enroll/mod.rs:400-420`), which leaves a window;
  it is harmless for the enrollment in force because the rekey comes after the marker.
* `EnrollNeverBlocks`: enrolling never spends the one wrong authorization of the lockout hierarchy,
  whoever owns it. A rollback releases what its own `Tx` has recorded.
* `UnenrollNeverStrands`: an unenrollment touches the blobs only after it has seen the password open the
  keyring, so a rekey that took effect and was reported as an error costs nothing.
* `WayBackWithoutTpm`, `RolledBack`: what the user is told is so.
* `ReturnsInTime`, `NoHelperLeft`, `HelperEnds`: `deadline + 2 * term_grace`, and a helper survives it for
  longer than its own system call only where the kernel refused a signal (section 6).
* `AuthorizedIsOpen`: the success the module reports is one. The converse does not hold (section 6).
* `ReaderGivenUp`: a reader that the backstop kept from being released, that a late `Claim` got for nobody,
  or that fprintd would not take back is given up with the connection.
* `RoomForThePin`: the budget that `session_deadline` grants is enough for all legs one after the other
  and then the PIN, unless a leg overruns its own bound.
* `HandlesFlushed`, `EveryTryIsReported`: in `seal.rs` an error of a command outranks one of the flush
  after it, and an object is flushed whatever came before. A wrong PIN reported as anything else would
  cost a try nobody counts.
* `FilesAtomic`: the three writers differ in their details and not in what they promise.
* `AdminLinesKept`, `TessFailsOpen`: whatever stands in the stack, and wherever the power goes, every line
  outside the blocks stays, in its order, unless markers are nested; and no failure of tess counts.
* `AcceptedByMajority`, `WaitsWithinDeadline`: the upper median is a strict majority, and nested
  budgets do not add up beyond the deadline.
* `PairIsOffOn`: the first frame of a pair may have waited in a buffer since before the models were
  loaded; it is still the dark one the first time, and a pair that is not off and on is not live.
* `StrangerStaysOut`, `SpoofStaysOut`: what stands in for a missing model is only the mock, and only where
  it was allowed, and a configuration that changes after the enrollment does not make the match looser;
  the gates before the liveness score cannot be configured away by the score.
* `OpenedByItsEnrollment`: a template may outlive its enrollment; the next one that
  uses a face replaces it before the keyring is on its key.

## 6. Deviations

Found while modelling. Four are refuted by a run of their own (`findings` in `PROJECT.json`):

1. `stranded`: a rekey to the key that took effect and whose reply was lost is taken for one that did not happen.
   The rollback leaves the keyring on K and removes the blobs of K. `enroll/mod.rs:4-5` says that an
   error never leaves a keyring the user cannot open. (`tess-cli/src/enroll/mod.rs:427`)
2. `skipped_release`: after an unenrollment without the recovery secret the advice is to run
   `tess unenroll` again with it, which then refuses because the metadata is gone.
   (`lifecycle/cli.rs:177` and `:125`)
3. `half_backup`: a backup that an earlier run could not finish is taken for a whole one.
   (`install/mod.rs:126` and `:13`, `:128-129`)
4. `two_enrolls`: two enrollments both pass the check for existing blobs; the rollback of the one that
   fails removes, by name, the blobs of the other, which then rekeys the keyring to a key nobody has.
   (`enroll/mod.rs:270` and `:4-5`)

Others are consequences of faults that the passing runs leave out, cases that a property excepts, or lie
outside the models:

* When a `kill` returns an error other than ESRCH, the escalation ends there, SIGKILL is not
  sent, and the thread left behind only waits: the helper runs on for as long as it likes, against "so a
  live helper can't be left behind". The login has returned in time and reports the helper as
  unavailable, which is what `NoHelperLeft` says of this case. (`tess-pam/src/helper.rs:146-153`, `:185-201`)
* `remove_block` repeats until no pair of markers is left. When an inner block has been
  taken out, a stray begin before it and a stray end after it make a pair, and the lines between them
  go too, though the comment of `marker_byte_span` says that an end never pairs with a stray earlier begin.
  `AdminLinesKept` excepts stacks with such a pair (`Nested`) and no others. (`install/config.rs:77`, `:95-97`)
* When the temporary of a face template can be neither written (or renamed) nor
  removed, the error of `remove_file` is dropped and the temporary keeps what was written of the
  embedding, against "on any write/fsync/rename failure remove the temp". `SealedFiles` has this failure
  (`"remove"` in `FileFaults`). (`mug/src/store.rs:202`, `:207` and `:197-198`)
* The recovery secret is printed after `enroll` returned Ok. A crash between the rekey and the print
  leaves a keyring whose only way in is the TPM. `WayBackWithoutTpm` is checked without crashes.
  (`enroll/mod.rs:12-13`, `enroll/cli.rs:81`)
* A save that fails in the fsync after its rename leaves a file that `Tx` has not recorded; the
  rollback reports "restored" and the file refuses the next enrollment. `RolledBack` is checked
  without late fsync failures. (`persist.rs:116`, `enroll/mod.rs:141`)
* A rollback that cannot release the lockout hierarchy leaves it bound to an authValue derived from a
  recovery secret that was never printed. (`enroll/mod.rs:176`)
* `lockout-owned` survives an unenrollment without the recovery secret and a TPM clear. A later
  enrollment that finds the hierarchy owned by somebody else still has the marker, and its
  unenrollment authorizes with a wrong value. (`lifecycle/mod.rs:254`)
* The connect of the fingerprint leg has no deadline: on a bus that accepts and does not answer, the
  watchdog kills the helper before it comes to the PIN. `RoomForThePin` excepts it as a leg that overran
  its bound. (`session.rs:233` and `:186`)
* An error on the second frame of the pair returns before a lamp that obeys a vendor command is switched
  off. `VerdictInTheDark` is about verdicts. (`mug/src/camera/mod.rs:156`, `mug/src/gate.rs:77-79`)
* On a camera whose lamp comes on by itself and stays on, the second pair of `face-test` gets no dark
  frame, so the probe is rejected as not live. (`face.rs`, `camera/hw.rs:299`)
* `match_threshold` is taken from the configuration as it is and frozen into the template. At one as large as
  the distance at which the model still tells faces apart, and surely at 2.0, any face matches.
  `StrangerStaysOut` excepts such a template. (`mug/src/config.rs:16`, `face.rs:616`)
* The error of `Release` is dropped, so a reader that fprintd does not take back stays claimed until the
  connection is dropped. `ReturnsReleased` excepts it and `ReaderGivenUp` does not.
  (`tess-fprint/src/lib.rs:181`)
* A session whose attributes cannot be set exists in the TPM and nobody holds it until the context is
  dropped. `HandlesFlushed` excepts it. (`esapi.rs`)
* A secret file that could not be written leaves a temporary that holds part of it
  (`write_secret_file`; only the template's writer removes it), and a directory that was just created is
  not synced in its own parent. (`enroll/recovery.rs`, `persist.rs:106`)
* After `tpm2_dictionarylockout` has been killed it is waited for without a limit.
  (`lockout.rs:234`)
* The comment on `detector_model_path` says that no code path reads it; `build_detector` does.
  (`mug/src/config.rs:22-25`)
* The PAM module logs that the keyring was left locked when it has killed a helper whose request the
  daemon may still carry out; and it takes a helper killed by somebody else for one that declined.
  (`ffi.rs:176`, `gate.rs:36`)
* Installer: if a process dies between the rename of the unwired stack and the fsync of its directory,
  a second uninstall finds no block and removes the module, and a loss of power may bring the block
  back without its module. The line is optional, so a login does not fail. `uninstall` does not look
  at hand-written `required pam_tess.so` lines before it removes the module. An edit of the service
  file between the read and the rename is lost. (`install/mod.rs:167-202`)

## 7. How far a property can be trusted

Every property of a passing run is paired with a mutant in `PROJECT.json`: a definition of the model,
changed the way the code could plausibly be wrong (a dropped guard, a missing fsync, a swapped order,
a sleep not cut off, the lower median), under which TLC finds the property violated in the very same
configuration. Every action of the models fires in the passing runs.

`map` in `PROJECT.json` gives, for each definition that models code, the file, lines and symbol it
stands for. Definitions marked external model the keyring daemon, fprintd, the kernel, libpam and the
TPM, from how the code uses them.

## 8. Not modelled, and the plan

Not modelled, because there is no state to go wrong: `caps.rs` and `tcti.rs` (a query, a choice of device),
`doctor.rs` (read-only), `main.rs` and `harden.rs`, `tess-core` (types), the layout of the ioctl structures in
`sys.rs`, the encoding of the metadata file, the GNOME extension, packaging, fuzz targets and developer
tools. Not modelled, because it is out of TLC's reach: what a network computes, the warp and sampling of
pixels in `align.rs`, floating-point accuracy. A network's output is a choice; liveness is computed in
integers, in percent.

Two places are coarser than the code. `Enroll!BindLockout` asks whether the hierarchy is owned and binds it
in one step (`enroll/mod.rs:404` and `:416`): no other owner acts between the two, so `EnrollNeverBlocks` is
about the guard and the outcomes of the binding and not about a race with another program. And a frame of
`FaceGate` has one brightness, so `Analyze` compares two means where the code takes the mean of what each
pixel gains (`max(0, on - off)`); that computation, pixel by pixel, is `IrPipeline!LivenessFeatures`.

The order the modules were written in is that of section 2: the transaction first because a mistake
there costs the user the keyring, then the login because a mistake there costs the user the login,
then the two gates, the installer, and what lies below and above the transaction. Left:

1. That `SealedBlob` implements the outcomes `Vault` gives to a save, a seal and a change of the lockout
   authValue, as a refinement instead of a convention (section 2.5).
2. The dictionary attack over several logins: `TriesBounded` with the counter of `TpmAccess`.
3. An abstract specification of the installer (a stack that is the administrator's, with or without one
   block) and the proof that `PamInstall` implements it.

## 9. Running it

    tlc -config MCTess_faults.cfg MCTess     # and so on, as in PROJECT.json "runs"
    tlapm TessProofs.tla
    tlapm WatchdogProofs.tla
    tlapm LoginProofs.tla
    tlapm FprintProofs.tla
    tlapm FaceProofs.tla
    tlapm SealedProofs.tla
    tlapm FaceAccountProofs.tla
    tlapm InstallProofs.tla

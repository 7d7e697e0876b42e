# Violin: verification project

Violin starts provider CLIs (or calls provider APIs) as background *jobs* for a supervising
agent. A job has a *descriptor* `jobs/<id>.json`, a run directory with `task.txt`,
`output.json`, `status.json` and `report.json`, and a *worker*, a process of its own that
outlives whoever started it. There is no daemon: every MCP server and every CLI command is a
client that runs the same Go functions against the same files, and the only mutual exclusion
is a `flock` around admission and one around each resume. Setting Violin up, and changing its
classifier, is a sequence of renames and removals that may be cut off anywhere. That is what
these modules are about.

## Inventory

| Component | State | Operations | What is hard | What makes it correct |
|---|---|---|---|---|
| Admission, `jobs.Spawn` | `scheduler.lock`, `round-robin.json`, `jobs/` | filter, select, probe, choose, validate, start, describe, roll back | several processes; failure and crash at every step; rotation index over orders of different lengths | limits, fair rotation, no trace of a failed call, no lost worker |
| Life cycle, `jobs.Wait/List/Interrupt/Resume` | descriptors, `output.json`, `resume-locks/` | poll, signal, finish, link | stale in-memory copies, no lock but Resume's, crashes | one outcome per job, checkpoints kept, one successor per attempt, no two workers in a workspace |
| Worker, `worker.Run` | goroutines, CLI process group, `status.json`, report | attempt loop, runCLI, stopCLI, retry, report | select over exit, streams, signal and timers; a CLI that hangs or forks; retry | a report in the end, nothing left running, no repeated side effects, final status stays |
| Policy: `EvaluateLaya`, `ReviewReason`, `risk_guard.go`, the first and the last third of `Spawn` | none | decide before admission | an engine that fails, heads that are missing, thresholds, a resumption under another configuration | a worker that was neither reviewed nor safe is not started; the caller's values take precedence; only inspections are tried twice |
| Supervisor, `supervisor.Observe` | none | classify status and liveness | two files written by two processes | report and observation agree |
| MCP server | one request at a time, `ownerInstance` | one tool call per request, `InterruptOwned` on exit | shutdown while others use the jobs; a crash | its own jobs are stopped, no others |
| Feedback log | `laya-feedback.jsonl` | append an outcome, append labels | crash between `finish`'s steps | one outcome of each job, feedback on finished jobs |
| Training gate | none | accept data, pass or fail a candidate | sums, classes, empty denominators | only a candidate that meets the gate is installed |
| Model manager | `models/versions`, `models/active`, `active.tmp` | install, activate, roll back, update | crash between renames, two processes | what is active is installed, and what does not verify is activated by its own update at most |
| Laya bundle, `EnsureUpstream` | `laya/onnx`, `onnx.old`, staging | fetch, move aside, move in, verify, put back | crash or failure between the renames | a good bundle is not lost |
| Setup, skills | `config.toml` of Codex and of Violin, backups, skill directory and marker | plan, apply, restore | crash, edits of the user, a sequence of commands | the user's text is kept, a skill can be repaired |
| Laya inference, auth, health, credentials, providers | model session | probes, parsing, HTTP, numeric code | external programs | taken as choices by the callers |
| npm launcher, Python compatibility scheduler | cached binary, lease files | apart from the Go program | | not modelled |

Clients call admission and the life cycle; Resume calls admission; admission asks the policy,
which asks an engine, the active model and the configuration, and starts a worker;
the worker answers through `output.json` (its standard output) and `status.json`; Interrupt
sends it signals. `PROJECT.json` lists the hazards of this code line by line with the
properties that cover them.

## Modules

| Module | Models | Notes |
|---|---|---|
| `Rotation` | the loops of `Spawn` and `selectBackend` over `scheduler.order` | pure operators |
| `Scheduler` | `Spawn` from `LOCK_EX` to return | one action per step between two file operations |
| `Admission` | abstract: a job is listed atomically, within the limits and taking its turn; it ends; it is retired | no code; a failed call is invisible |
| `Jobs` | `Open`, `Wait`, `List`, `Interrupt`, `finish`, `Resume` | one action per file operation |
| `Lineage` | abstract: an attempt ends at a checkpoint, which one later attempt continues | no code |
| `Worker` | `Run`, `runCLI`, `stopCLI` and their goroutines; the CLI from outside | one action per goroutine step |
| `Policy` | what `Spawn` decides on a request, a configuration and an engine's answers | pure operators; sets of results, empty for an error |
| `Supervisor` | `Observe` on a worker that is over, `stateForPhase` | pure operators |
| `Service` | servers and clients over `Policy` and `Supervisor`: requests, workers, waiting, interrupting, resuming, feedback, shutdown, changes of configuration | composes; coarser than `Scheduler` and `Jobs` where those are exact |
| `Files` | the phases of a command, `writeBackupAndAtomic`, `activate`'s temporary file, faults | shared by the next four |
| `Gate` | `TrainDataset`'s data rules and `evaluateDataset` | pure operators |
| `ModelStore` | model manager, `EnsureDefaultModel`, `model train` and `model update` | one action per file operation |
| `Bundle` | `EnsureUpstream`, `validateBundleManifest` | the same |
| `Setup` | the plans of install, uninstall, rollback, config and skills | the same |
| `Installer` | the commands of `cmd/violin` as sequences of those, by several processes | composes |
| `MCScheduler`, `MCJobs`, `MCWorker`, `MCInstaller`, `MCService` | instances for TLC | |
| `RotationProofs`, `SchedulerProofs`, `AdmissionProofs`, `JobsProofs`, `ResumeProofs`, `WorkerProofs`, `ServiceProofs`, `InstallerProofs` | theorems | checked with tlapm; the refinement mappings they speak of are in `Scheduler` and `Jobs` |

**Scheduler.** `lock` is the flock, `turn` the contents of `round-robin.json`, `descr` and
`owner` the descriptors, `worker` the process groups; the variables indexed by process are
`Spawn`'s locals (`saved` is `oldRoundRobin`, `ring` is `roundRobinOrder`, `ready` is
`readyOrder`, `pick` is `o.Backend`). `checkAuth`, `health.Check` and everything that may return
an error (`MayFail`) are choices. The deferred functions run in Go's order: roll back, then
unlock. `Crash` drops the flock, as the kernel does, and skips the deferred functions. An id
is used again once neither its process nor its file exists; real ids are never reused, and no
property refers to an id across its lives.

**Jobs.** A handler works on the copy of the descriptor it read (`mem`), which is the point of
the module. `report.json` is written with `output.json` and not kept apart; a file write is
atomic; an error of a write is like a crash after it. `Spawn` is one step here. `told` is a
history variable: the statuses callers were given.

**Worker.** Timers may fire whenever they are armed, so every order of exit, end of streams,
signal and timer is covered. A stream is a number of chunks in the pipe; closing the pipe in
`cmd.Wait` loses what was not read. `changed` says whether the workspace digest differs from
the baseline. Descendants of a CLI stay in its process group. The process group of a CLI is
not the worker's, so `Killed` (SIGKILL from Interrupt) ends only the worker.

**Policy and Service.** A task stands for three facts about its words, since only those are
looked at; an answer for its value, confidence and probabilities in hundredths and thousandths,
so that the thresholds .80 and .15 and the sum of the probabilities are met exactly. The
answers of the instance obey `probabilityConfidence`, which ties the two together. `Engine` is
what may come back from `UpstreamEngine.Evaluate`: nothing, if there is no engine (the command
line never has one), if it fails to load or to run, or if its answers are not in order. Which
checkpoint is resident changes no answer and is not state. A server is one process: a restart
is another member of `Server`, which is what `ownerInstance` is about. Handlers read the
report and the descriptor in one step and observe, write and record in later ones; admission
is one step here (its own steps are `Scheduler`), and so are the writes of `finish` and of
Resume (their steps are `Jobs`). A worker's last status is not always the last: `NoteLate` is a
reader that was not awaited, or the heartbeat of a worker that failed before it stopped it,
and writes "running" over it. The log has the *kinds* of event of each job; two clients that
finish a job at once append two outcomes in the code, which are one here. An append that fails
is a fault, as a client that is killed is. The descriptor's owner is empty for a resumed job and for the
command line, as in the code. A *scene* says what callers and engines do in one behaviour; it
keeps the questions of the run apart, a long life of jobs with two servers that end or with
resumptions, and many requests under many answers, without leaving any step of the program out.

**Installer.** A command goes through the phases of its functions one file operation at a
time; `pc` is the next one, `aim` the file it replaces. A *fault* is a command that is killed
or an operation that returns an error; it may strike at every step. The user edits the Codex
configuration at any time at which that can make a difference. A version is there as a whole or not
at all, because `Install` renames a copy; whether it would pass `VerifyVersion` is another
matter: `Install` compares the digests that are given and never the sizes, and writes its own
manifest over an artifact of that name, so an update may bring an `unverified` version, and
activates it
(`Brought`, `Publish`). The policy is one of five texts; `relaid` is an active policy in a
layout that `LayaAdvisoryPlan` does not recognise (setup.go:164). A bundle is good or bad as
`UpstreamRuntimeStatus` would find it. Data sets stand for the counts the trainer gets.
Ghosts: `owned` (there was a good bundle), `newest` and `late` (the user's last edit, and
whether it fell between a backup and the rename), `together` (two processes replaced the
active model at once), `trained`.

## Runs

| Run | Question | Bounds |
|---|---|---|
| `SchedulerLimits` | Do the limits hold, and is no worker lost? | 2 processes, 3 jobs, 2 backends of capacity 2 and 1, machine 2, session 1, 3 sessions, 1 crash |
| `SchedulerRotation` | Is Spawn atomic for others, and the turn honoured? | 2 processes, 2 jobs, 4 backends, 4 sets of authenticated ones (all, without the first, two, none), any health, no crash |
| `SchedulerProgress` | Is every backend used again and again? | 2 processes, 2 jobs, 4 backends, all authenticated, any health of qwen at any probe, no failures |
| `SchedulerResume` | *violation*: the limit and resumed automatic jobs | 1 process, machine 1 |
| `JobsShared` | Do clients agree, is a report kept, and is no running or resumable job lost? | 2 clients, 2 jobs, all handlers, 1 crash |
| `JobsResume` | Is a job resumed once, with consistent links, and do no two attempts of a task run together? | 2 clients, 3 jobs, Resume only |
| `JobsStale` | *violation*: the same with a concurrent Wait | 2 clients, 3 jobs |
| `JobsSettle` | Is every job retired in the end? | 2 clients, 1 job, 1 crash |
| `WorkerPaths` | What is over when a worker reports, when does it retry, which status stays, does it end? | 2 attempts, 1 chunk per stream and attempt, 5 configurations, SIGKILL possible |
| `WorkerOutput` | *violation*: all of the output is in a completed report | 1 chunk per stream, 1 configuration |
| `Installer` | What is on the disk after commands that fail, are killed, or run together? | 2 processes (one sets up, one changes models), 3 commands, 2 faults, 2 edits, 5 initial disks (one with an unverified version that is active, one with a policy in another layout), 9 data sets, 6 manifests |
| `Service` | What is a worker started with, what does a shutdown stop, what does finish observe and record? | 2 servers and the command line, 2 jobs; 1 fault (a client that is killed, or an append that fails), workers that note their status late; 1 change among 4 configurations, 7 requests, 6 upstream answers and a classifier, 2 resume timeouts |

The bounds let every contention happen: two processes are enough for any race on one lock;
`SchedulerLimits` can exceed each of its three limits independently (its mutants do); four
backends, of which four, three, two or none are authenticated, make "the next after the one
that dropped out" differ from "the first", and leave an index that is no place of a shorter order; three jobs
give a chain of two resumes or two rival successors; two attempts are the maximum of
`worker.Run`; two jobs give a resumption, and a server two jobs of its own to stop; two faults
give one in the repair of the other, three commands a repair and what comes after it.
`MinSupport` is 2 and stands for the 100 examples of the gate. The values of `Policies` lie on
both sides of each threshold. `JobsResume` and `JobsStale` have no crashes, and `SchedulerRotation` neither,
because the code gives no guarantee there (see *What the code does not promise*).

### Fairness

* `Scheduler`: a call that can take a step does, callers keep calling, workers end and are
  reaped. Nothing is assumed about which waiter `flock` prefers. Workers end because
  `worker.Run` has a hard timer.
* `Jobs`: handlers that can take a step do; a worker ends; supervisors keep polling every
  listed job (strong fairness, because a job is listed only while no one has retired it).
* `Installer`, `Service`: no fairness, and no liveness: a command may be killed at any time, a
  caller need not call again.
* `Worker`: its goroutines run, and a pending signal is noticed by `select`. The CLI owes
  nothing. `WorkerReports` has the fairness of the hard timer (`hard.C` in `runCLI`) as its
  hypothesis; `InterruptEnds` does without it.

### Violations

Three runs state a sentence of the documentation or of a test and end in a counterexample.

1. `SchedulerResume`: Resume passes a concrete backend and `RequestedBackend: "auto"`, and
   Spawn checks capacity in neither branch.
2. `JobsStale`: a Wait that opened a job before Resume linked it saves its old descriptor
   afterwards; the job can be resumed again.
3. `WorkerOutput`: `cmd.Wait` closes the pipes while they are being read; the end of the
   output may be missing from a report that says completed.

## Proofs

Every invariant and action property of a passing run is stated by a theorem, and so are both
refinements. A theorem holds for every value of the constants
that meets the named `ASSUME`s of the module (TLC evaluates them in its runs) and, where the
code promises less, under a hypothesis that is part of its statement:

| Hypothesis | Says | Why it is needed |
|---|---|---|
| `Checked` | a request with `RequestedBackend` "auto" has backend "auto" | violation 1 breaks it |
| `QwenOnce` | `scheduler.order` names qwen at most once | a second qwen would be the one after an unhealthy qwen; `config.go` does not check it |
| `Exclusive` | clients only resume, and none crashes | violation 2 is a Wait beside a resume; a crash between Spawn and the saved link allows a second resume |
| `MaxCrashes = 0` | no caller of Spawn crashes | a crash loses the rollback of the rotation |
| `OneSetter` | one process sets Violin up, all others only activate, update or train models | two installers move each other's bundles and files |

### Admission

`RotationProofs` proves what the operators of `Rotation` return for every order: the element
`NextOf` or `FirstOf` finds is one of the candidates, and the one the index stands for when all
are; `Keep` is a sequence over the same set that lists nothing twice that was listed once;
dropping an element makes its index stand for the one after it (`DroppedPassesOn`).

`SchedulerProofs` proves `TypeCorrect` without a hypothesis, `MachineLimitHolds`,
`SessionLimitHolds` and `BackendLimitHolds` under `Checked`, and `TurnsAreHonoured` under
`QwenOnce`.

The limits are not inductive: a state may have a call about to start a worker on a full
machine. `IInv` adds what rules that out: only the holder of `lock` is past `LOCK_EX`
(`LockInv`); the job a call has started is alive or gone and nobody else's (`CallInv`, with
the types of the locals); and while a call is between the capacity check and `cmd.Start`
there is room for its job (`RoomInv`), because the counted jobs only shrink while the lock is
held by it. `LimitReached` and `Full` count described workers, the limits count admitted ones;
the two agree for the lock holder, since a crash that leaves a worker undescribed also takes it
out of `Admitted`.

`RotationHonoured` needs `RingInv`: what a call chooses from is what was authenticated, or that
without qwen. While nobody was taken out of the order there is no exception: an automatic call
that finds no backend full takes the one whose turn it is. After a probe that found qwen not
healthy (`FellBack`) less is promised. If it was qwen's turn, and the index is a place of the
order (`IndexFits`), the next one gets it. If the index was left by a call with a longer order,
or qwen was tried only because those before it were full, the index is reduced once more by a
length that is one smaller, and the fallback may pass a backend over; the property then says no
more than that qwen is not taken. The run has the four backends that show it.

`AdmissionProofs` proves `WorkersTracked` (`NoUntrackedWorker`, no hypothesis: the property
itself speaks of states before any crash) and `SpawnImplementsAdmission`: under `Checked` and
`MaxCrashes = 0`, `Spec => ImplementsAdmission`. The abstract index is the one saved by the call
that holds the lock, until it has succeeded or rolled back; `TurnInv` says that what such a call
has made of `turn` is one step of the rotation, `StartedInv` that there is still room for the
job it has started, which is not listed yet. Each action is a stutter but for `SaveDescriptor`, the admission, and for the ends
and removals of jobs.

### Life cycle

`JobsProofs` proves, with no hypothesis, so with any number of clients, jobs and crashes and
every handler: `TypeCorrect`, `RunningJobsListed`, `CheckpointsKept`, `ReportsKept`,
`OutcomesAgree`. The idea is that whatever a handler has read stays true of the job although
other clients go on with it: a worker that is over stays over (`Over`, `Keeps`), so a handler
that is past its check (`PlaceInv`), the descriptor it has in hand (`MemoryInv`) and the report
it is going to return (`ReportInv`) agree with the files, however late it acts.

`ResumeProofs` proves, under `Exclusive`: `ResumedAtMostOnce`, `LinksAreMutual`,
`AttemptsDoNotOverlap`, and `ResumeImplementsLineage`, that every step is one of `Lineage` or
invisible there. The links of a job whose lock is free are complete or not begun (`Linked`); who
holds the lock is the client past it (`LockInv`), and `HeldInv` says how far it has come.

### Worker

`WorkerProofs` proves, with no hypothesis: `TypeCorrect`, `NoCLILeftBehind`, `TimeoutIsQuiet`,
`NoRepeatedSideEffects`, `LastStatusStays`. The invariant has where a CLI may be running
(`LeaderInv`), what a further attempt rests on (`RetryInv`), what a cause says of the sweep of
the group (`CauseInv`, `QuietInv`) and that the last status is written when the heartbeat has
been stopped (`StatusInv`), but for the path of `HeartbeatLeftOn`. None of it mentions which timer, signal or end came first.

### Policy and Service

`ServiceProofs` proves, for any clients, servers, jobs and scenes, so for every answer an
engine may give and every sequence of configurations, with no hypothesis: `TypeCorrect`,
`CallersDecide`, `RetriesOnlyInspect`, `UnreviewedSafe`, `WorkersReviewedOrSafe`,
`ShutdownStopsOwnJobs`, `ObservationsAgree`, `OutcomesRecorded`.

The first section is about `Policy` alone: what is true of every plan `Plans` returns
(`RetryPlanned`, `PlannedIsSafe`, `PlannedTime`, `PlannedMode`) and of every decision an
engine's answers give (`EngineDecides`). `CallerDecides` is not inductive: a resumption copies
the mode and the time of the attempt its handler has in hand, so `IInv` adds that this attempt
was started and still is what it was (`Traced`), that its mode is one of the two and its
maximum is positive (`Planned`), and that the configuration in force is one of the scene's
(`Configured`). Only Spawn and Resume start jobs (`JobsStay`); both go through `Admit`
(`AdmitKeeps`).

`LifeInv` adds what is true of a job (its report, its status, the events about it), of a client
at each place of its handler, and of a server that is closing. What becomes of a started job is
`Onward`: what is over stays over, so what a handler read first still agrees with what it reads
second; that includes a late note of the worker (`LateWord`), since what was a checkpoint or a
failure is one under the status "running" too. `LostInv` counts the outcomes that a crash or a
failing append took. `ReviewedOrSafe` walks the chain of
resumptions with the recursive function `FirstAttempt`. That would be an induction over data;
instead `ReviewInv` says of every function that satisfies its equation that it leads to an
attempt of the same review, and that there is such a function, and both are preserved when a
job is added whose parent is in the domain.

Assumption: `ServiceAssumption`, what a request may contain, that job ids are numbers, what a
worker reports (worker.go:163, 354-361, 502-510), and a positive `max_seconds`. `loadFiles`
only compares `max_seconds` with the defaults, so a configuration that has 0 for all three
loads too, and cuts a timeout of Laya's to 0; the theorems exclude it.

### Installer

`InstallerProofs` proves, with no hypothesis, for any processes, commands and faults:
`UnverifiedNeverActivated`, `ActiveVersionInstalled`, `CandidatesMeetGate` and
`ActiveReplacedAtOnce`; and under `OneSetter`:
`TypeCorrect`, `FilesReplacedAtOnce`, `OneFaultSurvived`, `UserTextSafe`, `SkillsSafe`,
`InstallationWhole`.

`IInv` is about one process at a time: what it has in hand is right for its command
(`CommandOK`), the text it writes is of its file (`WritingOK`), what is active is installed
(`StoreOK`). `UnverifiedStaysOut` follows a version that is not active and that nobody is about
to activate (`Inactive`): the texts of the file and of its temporary file come from there or
from a process that writes one (`TextsComeFrom`), and a process gets hold of a version by
verifying it or by installing it (`StepStaysOut`), so that shared temporary files, torn texts
and crashes do not matter.
`AloneInv` says that until two processes have met in it (`together`) the temporary file of the
active model belongs to one. `SetterInv(s)` follows the process that sets up: its files
(`FilesOK`), where the user's last text is (`UserInv`), what was saved of the skills
(`SkillsInv`), which of `onnx` and `onnx.old` is good after no or one fault (`BundleInv`), and
what `install` has done by each of its steps (`WholeInv`). The others leave all that alone
(`Bystander`).

That a candidate met the gate is in `IInv`; what the gate says of the examples is about sums
over sets of answers (`Count`, a fold of the community modules). The induction theorems of the
library take a predicate as an operator, which the provers cannot instantiate;
`InductionOnSets` takes the set of the sets for which the claim holds instead. With it the
function inside the fold is shown to exist and to be determined (`AddsExists`, `AddsAgree`),
and to add up in any order (`CountOne`), so that a part never counts more than the whole
(`CountPart`) and leaves out nothing when it counts as much (`CountAll`): that is the recall of
high risks (`GateMeans`).

Assumptions: three distinct texts stand for no, an empty and a torn file; the
initial disks are ones the program can meet (`InstallerAssumption`); a process runs commands
that exist (`MayAssumption`); a data set is finite and its labels are those of their heads
(`DataAssumption`, `LabeledExample.Validate`).

### Model-checked only

* Liveness (`EveryBackendServed`, `EveryJobSettles`, `WorkerReports`, `InterruptEnds`) rests on
  fairness and ENABLED, which are out of the prover's reach.
* The three violations.

## What the code does not promise

A crash between `cmd.Start` and `save` leaves a worker that no limit counts; a crash in Resume
between Spawn and `save` allows a second resume; a worker killed by SIGKILL leaves its CLI. A
backend that always fails after it was chosen is rolled back and chosen by every later call.
These are listed as hazards; the runs exclude them by name (`crashes = 0`, no crash bound).

Some things about a worker are narrower than a reader of the documentation may expect. After
a timeout or an interrupt `runCLI` does not wait for its readers, so one may write "running"
over the terminal `status.json`. A command without a place for the model is reported as
`provider_error` before the heartbeat is stopped (worker.go:114-116; the deferred stop comes
after the report), so the heartbeat may do the same, and "running" stays there.
`FinalStatusKept` excepts these two paths and no other. An API request that runs out of time is reported as `provider_error`, not as
`timeout`, and cannot be resumed. The workspace digest is compared before the two seconds of
backoff and not after, so `SideEffectsNotRepeated` speaks of what the CLI itself did.

A model update activates what it installed without `VerifyVersion` (manager.go:103-107), and
`Install` looks at digests that are given and never at sizes: what is active afterwards may be
what `violin model verify` refuses, although README.md:85 speaks of a verified active model and
`ActivePath` reads no more than the manifest. `UnverifiedStaysOut` says what remains: activate
and rollback never bring it in again. `LayaAdvisoryPlan` says that it safely lowers an existing
active policy (setup.go:152) and replaces two literal lines; with a comment, other blanks or
another key between them the policy stays active and `violin install` succeeds, so
`InstalledIsWhole` promises only that these two lines are gone.

The installer has no lock. Two installations at once may remove each other's bundle, so
`Installer` has one process for installations. Two processes that activate a model share
`active.tmp`, so its rename may publish a torn or another text; `ReplacedAtOnce` excepts that
state, although README.md:82 calls activation atomic. A crash between the publication and the
activation of the built-in model makes every later `violin install` fail with "already
installed". A first installation of the skills that is cut off is refused from then on as the
user's. An edit between the backup and the rename of the Codex configuration is lost.

A resumed job belongs to no server and survives every shutdown. Its text contains the verb
"changed" and the previous worker's summary, so an unreviewed implementation may be refused
when it is resumed. The command line has no engine and no way to say that a task was reviewed:
in active mode it starts nothing. A timeout from the command line is labelled as a default,
which `supervisor.Decide` (not called yet) would take for one it may extend. A crash in
`finish` after the descriptor is removed loses that outcome, and so does an append that fails,
whose error is ignored; `OutcomeRecorded` counts one for each. Two clients that finish a job at
once append two.

## Not modelled

* Numeric code: ONNX inference, tokenizer, softmax, `fitHead`, calibration summaries. Their
  results are the answers, data sets and choices of the modules above.
* HTTP requests, response parsing, downloads and hashing of bytes, credential stores, probes
  of provider CLIs: outcomes are choices. No state of Violin's is at stake in them.
* `supervisor.Decide` and the observation of running workers, which change nothing.
* The temporary names of `save` and `writeJSONAtomic`: one name per file, so two writers may
  show any mixture; the modules take those writes as atomic. `ModelStore` has the same
  pattern in steps, for the active model.
* `PackageUpstreamBundle` and `laya-bundle`, which build a release; shell wrappers.
* The npm launcher, which checks the digest of its cache before each use and otherwise copies
  and restores sequentially, and the Python compatibility scheduler, the previous
  implementation, which shares no state with the Go program.

## What is left to prove

Which parts of a hypothesis each theorem uses: `LinksAreMutual` and `ResumedAtMostOnce` for
clients that also poll jobs nobody resumes; `SpawnImplementsAdmission` up to the first crash
instead of without one; `OneFaultSurvived` for installers that do not overlap.

# Conduvera in TLA+

This directory specifies conduvera: the control plane (`src/conduvera/control_plane`,
`src/conduvera/harness`), a daemon that accepts jobs, runs each attempt of a job as a
harness process in a git worktree of its own, records how it ended and delivers the
result to GitHub; and the tools around it, from the agents' registry and gates to change
requests, evidence and the AI gateway. Everything is translated from the Python source;
`PROJECT.json` names, for every definition, the lines it stands for.

## 1. The system

### Control plane (modelled)

| Component | State | Operations | Interacts with |
|---|---|---|---|
| Job/attempt queue, `scheduler.py` | one JSON file with `jobs` and `attempts`, replaced under a file lock | `save_job`, `save_attempt`, `list_attempts`, `running_counts`, `can_start`, `claim`, `release_claim`, `recover_expired_claims` | read and written by all three threads of the daemon |
| Session registry, `managed_session.py` | one JSON file of session records | `register`, `update`, `get`, `all` | dispatcher (register), monitor and requests (update) |
| Adapters, `harness/adapters` | in-memory map of started sessions, exit codes collected by a watchdog | start, cancel, exit code | the operating system: systemd scopes or process groups |
| Dispatcher thread, `engine.py` `_dispatch_*`, `service.py` `dispatch_claimed` | local copies of an attempt and its job | a pass: recover leases, list, `can_start`, `claim`, admission, worktree, RUNNING, start, register, bind | queue, registry, adapters, worktrees |
| Monitor thread, `engine.py` `_monitor_*` | snapshot of the registry, the set `_emitted_terminal` (memory only) | poll, process gone, timeout, finalize, emit | queue, registry, `/proc`, systemd, evidence store |
| Requests, `service.py` behind `daemon.py` | one request at a time (a lock) | submit, retry, cancel, inspect, reconcile | queue, registry, adapters |

Everything hard is between the components. The stores make a single write atomic and
nothing more: each thread reads a whole record, works (starts a process, waits out a grace
period, asks systemd), and saves its copy over whatever happened meanwhile. The dispatcher
and the monitor do not take the request lock. The daemon can die between any two writes;
files and harness processes survive it, memory does not. What makes it correct:

- the number of attempts that hold a slot never exceeds the limits;
- an attempt's process is started at most once, in every failure and after every restart,
  and its slot is given back only when the process is dead;
- COMPLETED is written only when the process really ended with exit code 0;
- every bound run ends and every claim of a crashed dispatcher is taken back;
- one terminal event per session; no signal to a foreign process.

### Delivery and the services of the daemon (modelled)

| Component | State and operations | What is hard | Correctness |
|---|---|---|---|
| Delivery: `delivery_service.py`, `candidate_service.py`, `github_provider.py`, their stores | delivery and candidate records, selection; preflight, approve, publish, rebase, sync, details, cleanup against GitHub | a provider call fails before or after it took effect; the daemon dies between two saves; copies are older than GitHub, the worktree and the base branch | only approved content reaches GitHub; one open pull request per attempt; MERGED and MERGE_READY are GitHub's answers, not memories |
| Check policy: `github_provider.py` `list_checks`, `_checks_summary`, `_reviews_summary` | none; reads rows of checks, statuses and reviews | reruns, several Apps and legacy statuses under one name, in any order | ready only if every required check and every reviewer agrees |
| Outbox: `outbox.py` | a JSONL file; append, post, rewrite, retry | two threads rewrite the file from a copy | a row says delivered only if it was; no event is lost |
| Event stream: `event_stream.py`, `server.py` | a bounded history, numbered; connect, fetch, resume | a reader behind the history, a bus that numbers from 1 again | resuming leaves no gap |
| Local admission: `local_admission.py` | none; asks the lane four things in turn | the lane is switched between two answers | READY only if the lane serves the route |
| Payload store: `payload.py` | one file per payload, hash, retention | the file is torn, lost or exchanged before a retry | a run is given what was submitted or fails |
| Harness runtime: `managed_session_runtime.py` | sessions over the gateway and the adapter; start, observe, status, cancel, timeout, await | overlapping calls with their own copies; pids that are reused | no foreign process is signalled; CANCELLED means stopped |

### Tools around it (modelled)

| Component | State and operations | What is hard | Correctness |
|---|---|---|---|
| Agents: `control/registry.py`, `launcher.py`, `gates.py`, `cli.py` | one registry file, tmux sessions; boot, ready, sync, stop, dispatch, tick, launch | every command is a process that reads and rewrites the whole file | READY on passed gates only, CRASHED on a dead session only |
| Streams: `control/stream_state.py` | one file per agent; transition, reply | a reply reads three times and saves once, without a lock | a stream under review names a commit |
| Gateway: `control/gateway/` | configuration; route, forward | rules that overlap: class, endpoint, fallback | sensitive data stays local |
| Multi-agent lock: `skills/multi-agent-lock` | a file per lock; claim, release, expiry | the claim reads, decides and writes apart | two agents never hold overlapping files |
| Change requests: `skills/change_request` | one file per request; most commands save twice | a refused second step, a crash or another command between the saves | what a request claims it has; verified on evidence of its work |
| Accountable changes: `skills/accountable_agent` | one file per change; register, validate, evidence, reset, link | the request is read, then decided on, then saved | validated changes stand on approved requests |
| AI assistant: `src/utils/ai_router.py` | a budget file; route, ask, charge | the file is read before a question and rewritten after it | the budget of a month is not overdrawn |
| Evidence: `evidence/` | one JSONL file of events; convert, append, report | appends without a lock, in more than one write | a report is whole or refused |
| Traceability links: `skills/aspice_link_manager`, `cli/commands/skills.py` | links in front of every document; update one or all, verify | four threads read and rewrite the same files whole | no author's link is lost; an updated document verifies |

### Not modelled

Daemon transport (`daemon.py`, `server.py`, `http_bridge.py`: sockets; its request lock is
in Rpc and Delivery), harness routing (pure data), the user interfaces, the CLI's
presentation, the remaining skills. See section 5.

## 2. Modules

    SlotPool (abstract)  <--refined by--  ControlPlane
    QueueStore <- SessionRegistry <- { Dispatcher, Monitor, Rpc } <- ControlPlane <- MCControlPlane
    ControlPlane <- ControlPlaneProofs <- ControlPlaneSafety
    { SlotPool, Publication } <- PromiseProofs

An arrow points to the module that EXTENDS the one before it.

- **QueueStore**: the two record maps of the queue file, saves of whole records, and the
  counting that `can_start` does. A logical `clock` stands for `created_at`. `expired` and
  `held` stand for a lease deadline and an admission retry time that lie in the past or
  in the future.
- **SessionRegistry**: the registry file, the process table as `/proc` and systemd show
  it, the adapters' memory, pid reuse, and the two different views of a dead process:
  requests take a zombie for a matching live process (`PidMatches`), the monitor takes it
  for gone (`PidGone`).
- **Dispatcher**: one action for every access of a store in `_dispatch_once` and
  `dispatch_claimed`; what was read stays in `disp` until it is written back. Steps that
  touch only the dispatcher's own worktree area are merged with the next one.
- **Monitor**: one poll works through a snapshot in id order; `mon` holds the stale
  session record, the attempt read for it, the job and the outcome. Two reads that a third
  party could only have made earlier (the attempt, then `/proc`) are one action.
- **Rpc**: submit, retry, cancel, inspect and reconcile, step by step. One request at a
  time, because the daemon serves them under one lock. `RetryIds` gives the ids a retry may
  choose: fresh ones named by the caller, or the default `retry_<n>`.
- **ControlPlane**: the composition, the environment (a process exits, is reaped, its pid
  is taken again, a deadline, a lease or a hold runs out) and `CrashRestart`, which may come
  between any two actions and resets everything in memory. The properties are here.
- **SlotPool**: the promise in five lines of state change: acquire a slot, start once, exit,
  release when dead. `ControlPlane!Pool` is the refinement mapping: `holding` is every
  claimed or running attempt plus the one in flight in the dispatcher (its slot is taken
  whatever the store says, because its copy will be saved), `started` is every attempt a
  process was ever started for, `live` the attempts whose process runs.

The other components share no state with these and little with one another:

    Publication (abstract)  <--refined by--  Delivery <- MCDelivery
    StreamState <- AgentControl            ChangeRequest <- AccountableChange
    { CheckPolicy, MultiAgentLock, EventOutbox, EventStream, LocalAdmission, PayloadStore,
      AccountableChange, AgentControl, GatewayRouter, HarnessRuntime, AiBudget,
      EvidenceLog, TraceLinks } <- MCWorkbench
    Delivery <- DeliveryProofs
    { PayloadStore, EventOutbox, EventStream, LocalAdmission, HarnessRuntime } <- DaemonProofs
    { AgentControl, GatewayRouter, MultiAgentLock } <- AgentToolsProofs
    { AccountableChange, AiBudget, TraceLinks, EvidenceLog, CheckPolicy } <- RecordsProofs
    { MCWorkbench, DaemonProofs, AgentToolsProofs, RecordsProofs } <- WorkbenchProofs

- **Publication**: contents are approved, pushed to branches that did not exist, shown by
  pull requests of existing branches. **Delivery** implements it: the refinement mapping
  takes the manifest of an approved candidate as an approved content. `op` is the request
  in flight with the copies it works on; every provider call is an action that may fail on
  either side of its effect; GitHub, the worktree and the base branch move on their own.
- **CheckPolicy**: rows arrive, start, complete and are repeated; `ChecksVerdict` and
  `ReviewsVerdict` are the summaries, `MergeReady` the state made of them. Delivery takes a
  verdict of each as what GitHub answers.
- **EventOutbox**, **EventStream**, **LocalAdmission**, **PayloadStore**: one action per
  access of the file, one per question to the lane, one per fetch; the disk may tear or
  exchange payload files, the bus may restart. What an emitter of the outbox has still to
  deliver is a set of event numbers, taken from the least on: rows stand in the file in the
  order of their events (`InOrder` is proved).
- **HarnessRuntime**: `processes` maps pids to starts, so that a pid can belong to another
  process later; `thread` has the copy each call works on.
- **StreamState**, **AgentControl**: `streamOp` and `control` are command line processes
  with the file they read. The verdict of a gate is any of the three; `witnessed` remembers
  what gates and sessions really said.
- **ChangeRequest**, **AccountableChange**: clients load a view, note fields, save, load
  again and move. The second module EXTENDS the first: accountable changes read, and in
  part rewrite, requests that others are working on. `crTainted` marks the requests whose
  last save came from a copy that had been overtaken. A saved file is read back as
  `_parse_frontmatter` does it: the YAML ends at the first three dashes anywhere, so a text
  that holds them (`delimiter`: a reason, a reviewer, a comment, a file name, what a request
  is created with) takes every field from the record that is written after it (`Line` is the
  order in which they are written, `FieldsLeft` and `CutTo` what is left), or leaves a quote
  open and the file unreadable (`Torn`). An empty reviewer or reason erases the one that was
  there (`Erased`). A record that something was taken from is `lost`.
- **GatewayRouter**: any configuration, chosen once; requests in any order.
- **MultiAgentLock**: paths, the directories they lie in and the patterns that match them
  are relations given as constants, as far as string comparison in the code sees them.
- **AiBudget**: `outlay` is what Claude was really paid, `disturbed` the months in which
  something happened that the tracker cannot see.
- **EvidenceLog**: a line is two pieces, written together or apart; `appended` remembers
  what was written whole.
- **TraceLinks**: `linker` is what each thread of the pool is at; finding a target, reading
  it, emptying its file and writing it are actions of their own. `authored` remembers what
  the authors wrote, `raced` the files at which two threads met during the update.

Abstractions: names, payloads, evidence bundles, worktree contents, prompts and command
lines are left out; an exit code is `"0"`, `"1"` (any nonzero code) or `"?"` (unreadable); the
evidence bundle is intact or not, chosen freely. A process started for an attempt is
identified with its session. Repository and payload errors, refusals of the adapter and
worktree collisions are free choices at the step where the code can meet them.

## 3. Runs

The runs of the control plane use `MCControlPlane` and check for deadlock: no thread of the
daemon ever waits for another, and the dispatcher's passes never end. The runs of
`MCDelivery` and `MCWorkbench` do not: their clients may stop and their bounds run out.

| Run | Question | Instance | Distinct states |
|---|---|---|---|
| `cancel_races` | Two jobs competing for one slot, retries and a cancel, every interleaving: limit and slots kept? | 2 jobs, 2 attempts, 2 sessions, 3 creations, 1 cancel; symmetry of jobs and attempts | about 1.8 million |
| `crash_recovery` | The same with the admission hold and a crash between any two steps, nonzero exits (evidence stays fail-closed); a harness limit tighter than the global one. | 2 jobs, 2 attempts, 2 sessions, 1 crash | about 1.1 million |
| `one_session_faults` | One session, all faults at once: two control requests, timeout, crash, zombie, pid reuse. Is the slot kept until the process is dead, and has every event a cause? | 1 job, 1 attempt, 1 session, 2 requests, 1 crash | about 2.8 million |
| `recovery` | Liveness under fairness: do bound runs end and are claims temporary, with lost kills, a crash, a cancel or a reconcile? | 1 job, 1 session | about 320 thousand |
| `delivery` | Does everything delivery does implement Publication, and are its states GitHub's answers? | `MCDelivery`: 2 deliveries, 2 candidates, 2 pull requests, 1 file in 3 versions, one failing call, late edit or crash; three scenarios | about 1.8 million |
| `workbench` | Does each of the components around the control plane keep its promise? | `MCWorkbench`: 16 parts, one per initial state | about 1.3 million |
| `cancel_reclassified`, `retry_name_collision`, `capacity_leak`, `reused_pid_signalled`, `unknown_exit_completed`, `request_truncated` | Statements of the repository that the code does not keep; see section 6. | smallest instance that shows it | counterexample in seconds |

Why the bounds are enough: every race of this code is between one dispatcher, one monitor
and one request about one attempt, or two attempts about one slot; two of each with one
retry lets an attempt finish, be retried under a fresh name and compete again. A crash
resets all memory, so a second crash meets a state that differs only in the files. The
bounds are `MaxCreated` (creations by submit and retry), `MaxSessions` (processes started),
`MaxControl` (control requests), `MaxCrashes`. Symmetry is used only in runs without
temporal liveness properties, and only over jobs of one harness and over attempts that no
name table tells apart.

`delivery` explores three scenarios, chosen by the initial state, because their product is
out of reach: one attempt published again and again (two candidates, two pull requests);
one attempt while the base branch moves (rebase, behind, conflicts); two attempts of a job
without failures. `HarnessCommits` and `LateEdits` are FALSE: section 6 says what they break.

`workbench` explores one component at a time: they share no state, so the product would
say nothing more. A part may bound its component further (`MCWorkbench` names these bounds):
the state machine of requests runs once with one client over every kind of request, whose
texts may hold the delimiter once (`request`), once with two clients on a bugfix (`bugfix`),
and once under a change that cites it and whose approval may be erased (`account`); `board` moves streams with two operators, `agents` works on the registry while
streams rest. The sizes are those at which each race exists: two writers of a file, two
readings around a switch, two threads at one document, a history shorter than what is published, three starts over two
pids, a month that ends. `Kept` is 1 where the code keeps three months, so that a month is
dropped at all; `MaxOutlay`, `MaxPieces`, `MaxRows`, `MaxReviews`, `MaxLocks`, `MaxEmitted`,
`MaxPublished`, `MaxRestarts`, `MaxStarts` and `MaxRequests` bound what would grow for ever.

Fairness (`FairSpec`): both loops catch every exception and go on, so `Dispatch` and
`Observe` are weakly fair; a request that has begun is served to its end; leases and
holds elapse, and a declared timeout (120 s by default) runs out. Harness processes are
not fair: nothing makes an agent exit, which is why the timeout matters. Clients are not
fair either.

Properties of the control plane: `TypeOK`; `GlobalCapacity`, `HarnessCapacity`,
`NeverRequeuedAfterStart`, `CompletedMeansExitZero`, `SlotsAreKept` (refinement of SlotPool),
`EventsHaveCauses`, `BoundRunsEnd`, `ClaimsAreTemporary`; and in the violated runs
`CancelNeverReclassified`, `AttemptsKeepTheirJob`, `DeadRunsReleaseCapacity`,
`NoForeignSignal`, and `CompletedMeansExitZero` once reconcile takes part. Of delivery:
`PublishesOnlyApproved` (refinement of Publication), `OneOpenPullPerAttempt`,
`MergeReadyIsFresh`, `MergedIsTrue`. Of the workbench, by part:

| Part | Property | What it says |
|---|---|---|
| checks | `ReadyIsJustified` | ready means each required check passed last by an accepted producer, and no last word asks for changes |
| locks | `LocksExclude` | a lock excludes the earlier ones it covers, unless its claim read before they were written |
| outbox | `DeliveredIsTrue`, `EventsAreKept` | a delivered mark is true; no row is lost without a webhook or with one thread |
| stream | `ResumeLeavesNoGap` | a client on one bus misses nothing the history still has |
| lane | `ReadyIsEarned` | READY of an undisturbed check means the lane serves the route |
| payload | `RunsGetWhatWasSubmitted` | no run is given anything but the submission |
| request, bugfix | `SavedRequestsAreComplete`, `VerifiedOnEvidenceOfTheWork`, `MovesFollowTheMatrix` | what a saved request claims it has, unless a text took it; verified on evidence of the work; statuses move along the matrix, to a status whose fields are there, unless a client was overtaken |
| account | `AccountedChangesWereApproved`, `AcMovesFollowTheMatrix` | validated changes, and the requests that evidence packets name (`ReliesOn`), stand on approvals, unless a text took the approval |
| agents | `StandingIsEarned` | READY and CRASHED are witnessed |
| board | `ReviewNamesACommit` | a stream under review names a commit |
| gateway | `SensitiveStaysLocal` | classes known and kept from the cloud stay local |
| harness | `OnlyOwnProcessesSignalled`, `CancelledWasStopped`, `CompletedIsGone` | signals, cancels and completions are about the session's own process |
| budget | `BudgetHolds` | overdrawn by less than one question; the tracker is what was paid |
| evidence | `ReportIsWhole` | a report has every event once per append, from valid files only |
| links | `AuthoredLinksKept`, `UpdatedLinksVerify` | a file that can be read has its author's links and only backlinks of others; an update without errors leaves no link that does not verify, away from the files two threads met at |

Where a property excuses something (an overtaken client, a lost field, a disturbed month, a
moved lane), the excuse is a history variable, and section 6 says what happens without it.
`request_truncated` (`VerifiedHasItsEvidence`) is the same statement about requests without
the excuse, as the tests of the repository make it, and TLC finds it violated.

Every property of a passing run has a mutant in `PROJECT.json`: a plausible bug in the code
that the run then finds. The mutated forms stand before their originals in the modules,
named as such.

`EventsHaveCauses` allows a session one terminal event, and one more for every restart and
every control request: a cancel emits its own event beside the monitor's, and the monitor's
set of emitted sessions is memory only.

## 4. Proofs

The theorems below hold for all values of the constants that meet the named assumptions.
These say that null values are not among the proper ones, that bounds are numbers, that
sets of threads and attempts are finite, and what the relations given as constants are:
`QueueAssumption`, `SessionAssumption`, `LocalAssumption`, `RpcAssumption`,
`ControlPlaneAssumption`, `SlotPoolAssumption`, `DeliveryAssumption`, `NoRecordAssumption`,
`CheckAssumption`, `GatewayAssumption`, `PayloadAssumption`, `StreamAssumption` (the other
BLOCKED states are none of the named ones), `AgentAssumption`, `OutboxAssumption`,
`EventStreamAssumption`, `AdmissionAssumption`, `HarnessAssumption`, `NoSessionAssumption`,
`LockAssumption` (directories form a tree), `RequestAssumption`, `ChangeAssumption`,
`BudgetAssumption`, `EvidenceAssumption`, `LinkAssumption`. TLC evaluates each of them in the
runs. Where a theorem needs more, the hypothesis stands in the theorem, and section 6 names the run or the race
that shows why it cannot be dropped.

### The control plane

`ControlPlaneProofs`:

- `TypeCorrectness`: `Spec => []TypeOK`. `TypeOK` is not inductive: a thread that holds
  an attempt id or a job id must know it is one, and that the attempt it found in a
  snapshot is still in the store. `TypesInv` adds this per component (`QueueOK`,
  `SessionOK`, `DispatchOK`, `MonitorOK`, `RpcOK`): every present attempt has a job, every
  registered session and every entry of a snapshot is bound to a present attempt, and the
  local copies are present attempts wherever they are about to be saved. The step proof
  rests on one fact used everywhere, `Kept`: no action removes an attempt. Each thread has
  one lemma (`DispatcherTypes`, `MonitorTypes`, `RpcTypes`) with one case per action, and
  the other threads' invariants follow from `Kept`.
- `GlobalLimitHolds`: `Spec => []GlobalCapacity`. The strengthening `CapacityInv` adds
  that between a successful `can_start` and the `claim` the number of active attempts is
  still below the limit. It is inductive because no other thread adds to the active
  attempts: the monitor and the requests save copies only in states that take no slot
  (`MonitorCapacity`, `RpcCapacity`), time changes flags only, and every save of the
  dispatcher is for the attempt in flight, which `Holding` already counts. So `Holding`
  grows in one action only, `D_Claim`, by one. Counting the attempt in flight is
  necessary: its stale copy may be saved as RUNNING over a finished record. The theorem
  covers runs without fresh retry names, without scopes and with any number of crashes.

`ControlPlaneSafety` builds on them. Its theorems share a few invariants, each of them an
idea about copies that are older than the store:

- `BindingInv`: a process, the session registered for it and the entries of the monitor's
  snapshot name the same attempt. A process keeps its attempt for ever (`ProcessesStay`).
- `StartInv`: at most one process per attempt, and an attempt with a process is past
  CLAIMED in the store and in every copy, except for the attempt in flight
  (`ClaimInFlight`, `CopyOfClaim`); ids a retry is about to create have no process
  (`NewAttempts`). This gives `NoRequeueAfterStart` (`NeverRequeuedAfterStart`).
- `JobInv`: no copy of an attempt names another job than the store. It gives `JobsAreKept`
  (`AttemptsKeepTheirJob`), and with it `HarnessLimitsHold` (`HarnessCapacity`) by
  `HarnessInv`, which says of each harness what `CapacityInv` says of all: a harness's count
  can only be trusted because attempts do not change their job, and so their harness.
- `EndedInv` and `RunningInv`: whatever is recorded as ended, in the registry or in a copy, has
  ended, and an attempt whose process lives is RUNNING in the store. With these every step of
  the daemon is one of SlotPool or a stutter: `SlotsImplementPool` (`SlotsAreKept`), and so
  the machine never runs more harness processes than `global_limit`
  (`LiveProcessesWithinLimit`).
- `CompletedInv` and `OneTargetEach`: a copy says COMPLETED only if the process of its session
  exited with 0, and a process that ended keeps its code: `CompletedOnlyOnExitZero`.
- `EventsInv`: the events of a session, with the one the monitor or a request is about to emit,
  are paid for by membership in `_emitted_terminal`, by restarts and by requests. The set
  is what makes this inductive, not the registry, whose record a lost update may take back:
  `EventsAlwaysHaveCauses` needs no hypothesis at all.

| Theorem | Hypothesis | What breaks it otherwise |
|---|---|---|
| `NoRequeueAfterStart`, `JobsAreKept`, `HarnessLimitsHold` | `FreshRetryIds` | run `retry_name_collision`: default names are shared by jobs |
| `SlotsImplementPool`, `LiveProcessesWithinLimit` | `FreshRetryIds`, `KillMayFail = FALSE` | a cancel or a timeout is recorded although its signal was lost, and the slot of a live process is given away |
| `CompletedOnlyOnExitZero` | no reconcile among the requests | run `unknown_exit_completed` |

`PromiseProofs` proves what an abstract specification gives to a reader of its own accord:
`ProcessesWithinLimit` (SlotPool), `OnlyApprovedIsPublished` and `OneOpenPullOfABranch`
(Publication). The refinements that carry them over are proved above and next.

### Delivery

`DeliveryProofs`:

- `DeliveryTypesHold` and `MergedIsAlwaysTrue`, from `KnownInv`. Its first part, `DeliveryInv`,
  says that every copy in flight is of its type and right about its pull request
  (`RecordOK`): a pull request it names exists and is merged if the copy says so. Since a
  merge is final, an old copy cannot be wrong about one. The second part, `OrderInv`, is
  what a publish may rely on: its candidate is approved and belongs to its attempt.
- `MergeReadyIsAlwaysFresh`: `SavedAsFound` adds that the copy of a preflight is MERGE_READY
  only if its record still is, so that saving it makes no delivery ready.
- `DeliveriesImplementPublication` (`PublishesOnlyApproved`), with `HarnessCommits = FALSE` and
  `LateEdits = FALSE`. `PublishInv`: an attempt with a candidate has completed, its worktree
  has no commit of its own, at the step "commit" the candidate is not stale, and the commit
  about to be pushed is an approved manifest. Most actions are stutters; approving, pushing,
  opening a pull request, closing and merging are one step of Publication each. Failures of
  calls on either side of their effect, crashes and the moving base branch are included.
- `OnlyApprovedIsShown`, under the same two hypotheses, carries what Publication promises over to
  delivery: nothing on GitHub carries content that no human approved, and no branch has two
  open pull requests, in disturbed histories too.
- `OneOpenPullAlways` (`OneOpenPullPerAttempt`), from `AloneInv`: while nothing was disturbed, an
  attempt has one delivery record (`RecordsAlone`), its candidates and the operations in flight
  belong to that record (`CandidatesAlone`, `OpFits`), what is on a branch and behind a pull
  request is of the branch's own attempt, and no branch has two open ones (`GithubAlone`).

### The services of the daemon: `DaemonProofs`

- `RunsAreGivenTheSubmission` (`StoreInv`): the job's hash is what was submitted, and an id that
  was never used has no job and no runs. Nothing is assumed of the files.
- `DeliveredIsAlwaysTrue` and `EventsAreAlwaysKept` (`OutboxInv`, `KeptInv`): a thread that is
  about to rewrite the file holds rows that are marked only if they were posted; with one
  thread or without a webhook what it holds is all of the file.
- `ResumingLeavesNoGap` (`StreamBusInv`): what is queued for a client continues what it
  received, or the history was trimmed in between.
- `ReadyIsAlwaysEarned` (`AdmissionInv`): what an undisturbed check was answered so far is still
  true of the lane.
- `OnlyOwnProcessesAreSignalled`, `CancelledWasAlwaysStopped`, `CompletedIsAlwaysGone`
  (`HarnessInv`): a fingerprint names one start, and a copy that any call holds, however old, was true of that
  start when it was read and claims nothing that can become untrue.

### The agents' tools: `AgentToolsProofs`

- `ReviewAlwaysNamesACommit` (`StreamInv`): a record is in order when it is computed, so that
  the pending saves of overlapping commands are part of the invariant, and which of them
  comes last does not matter.
- `StandingIsAlwaysEarned` (`AgentsInv`): the same of the registry of agents and of what the
  commands about to save it have witnessed.
- `SensitiveDataStaysLocal` (`GatewayInv`): a decided call already keeps the rule
  (`RouteStaysLocal`), and the configuration does not change before it is forwarded.
- `LocksAlwaysExclude` (`LockInv`): of two directories that hold one path, one holds the other;
  that is all the proof needs of paths.

### The records: `RecordsProofs`

- `RequestsStayComplete`, `VerifiedOnEvidence`, `RequestsFollowTheMatrix` (`RequestInv`): a file
  that lost nothing to a text is as complete as its status claims, so is the copy a client is
  about to save, and a client that was not overtaken saves a continuation of what is in the
  file. Cutting a record at a text keeps this (`CutIsWhole`), because a record that keeps all
  its fields and flags is the record that was saved, and any other one is marked lost; the
  mark stays (`Continues`). The matrix needs no excuse for lost fields: a move looks at the
  fields as they are read (`RequestsFollowTheMatrix`).
- `AccountedChangesStayApproved`, `ChangesFollowTheMatrix` (`ChangeInv` with `RequestInv`): what
  `AccountableChange` does to requests keeps `RequestInv`, and a request that has an approval
  keeps it, or is marked lost.
- `BudgetAlwaysHolds` (`BudgetInv`): in an undisturbed month at most one question is asked at a
  time, and what the tracker holds, with what that question has paid and not yet charged,
  is the outlay of the month.
- `AuthoredLinksAlwaysKept`, `UpdatedLinksAlwaysVerify` (`LinksInv`, `UpdateInv`): every copy a
  thread is about to write has the links its author wrote; after the update, a link whose
  target was not raced at is answered, before it the answer is still owed by a thread.
- `ReportsAreAlwaysWhole` (`EvidenceInv`): every event in the file or in a conversion under
  way comes from a file that was valid as a whole (`SoundEvents`); and as long as every line
  is one event, an event has as many lines as it has places among the appended ones
  (`AllCounted`). A line that two converters broke, or one died in, is never mended, and a
  report that meets it is refused. Counting places, and not comparing sequences, is what
  makes this provable: two converters append in another order than they began.
- `ReadyIsAlwaysJustified` (`CheckInv`; any policy, rows and reviews): among the rows of
  one name and App there is one that none supersedes (`EveryRowHasALatest`: a run in flight
  if there is one, then the last start, then the greatest id); it satisfies the same
  requirements as the row it stands for (`SameProducerSameRequirement`, which needs that
  legacy statuses have no App), and if it succeeded, nobody of its name and App is running
  (`LatestSuccessIsGreen`). Only the shape of the rows is inductive; the rest is about one
  state.

### The shape of every state: `WorkbenchProofs`

`WorkbenchTypesHold`: `WorkbenchSpec => []WorkbenchTypeOK`, from `WorkbenchInv`, which gives every
part the invariant of its component. A part changes its own component only, so each
disjunct of the next-state relation is one lemma about that component. Where the
invariant of the promise did not give the type, a second one does:

- `OutboxTyped`: rows are in the order of their events and an emitter has rows to deliver
  that are in the file, whichever copy of it was written last (`InOrder`, `MinIsAMember`).
- `StreamShape`: the history is the end of what was published (`HistoryIsTheEnd`).
- `AdmissionTyped`, `FilesTyped`: what the check has read, and what is in a payload file.
- `AgentsTyped`: an operator's command carries what its next step uses (`CommandShape`), and
  each update writes fields the registry knows.
- `LinksTyped`: a thread at work has a backlink left to write (`Works`).
- `CheckTyped`: no two rows have one id.

### Only model-checked

- `BoundRunsEnd` and `ClaimsAreTemporary`: liveness under fairness; the prover has no rule
  for `ENABLED` of these actions.

Every invariant and every other action property or refinement that a passing run checks is
also a theorem.

## 5. Not modelled, and why

- Daemon transport, HTTP plumbing, harness routing, views, the terminal and desktop user
  interfaces, the presentation in the CLI, the remaining skills: no state that a step of
  another could disturb, or presentation only.
- Two daemons on one state directory, and so the race of two dispatchers for a claim: one
  daemon has one dispatcher thread, so its `claim` never competes.
- The request `cleanup` of the service (Delivery has its own), `observe_external`, retention and
  the idempotency keys of retry.
- `advance`, `retain` and `expire_retention` of the scheduler: no loop calls them. The same
  goes for `PublishCandidateStore.invalidate`.
- A store file that cannot be parsed is read as empty by the control plane. Its writes go
  through a temporary file and a rename, so the daemon itself never leaves such a file.
  Where the code writes in place (change requests, the budget, the evidence stream), torn
  files are modelled.
- In Delivery: diffs, hashes (a manifest is its own hash), the pattern lists for secrets and
  forbidden paths (one verdict), pagination. In AgentControl: the event log, the doctor and
  sentinel reports, how a gate reaches its verdict. In GatewayRouter: the check of a
  client's key, the audit file, streaming. In HarnessRuntime: health checks and command
  lines. In AiBudget: the decision log and feedback. In EvidenceLog: hashes and the layout
  of reports; a report reads the file at once. `VerificationService` of the change requests.
- Liveness outside the control plane: nothing there runs by itself; every step is a command
  or a request of somebody.

## 6. What the checks say about the code

Runs that expect a violation:

1. `cancel_reclassified` - a comment in `service.py` says the session is marked
   CANCEL_REQUESTED first so that the monitor never re-classifies the dying process as
   FAILED. `_finalize` saves its snapshot copy without looking, so it does.
2. `retry_name_collision` - default retry ids are unique per job but live in one key
   space; the second job retried by default overwrites the first one's attempt.
3. `capacity_leak` - a process that ends right after `register` is finalized by the
   monitor, and then `dispatch_claimed` saves its RUNNING copy over the finished attempt.
   The session is finished and already emitted, so nobody corrects it and a slot is lost.
4. `reused_pid_signalled` - without systemd scopes, a session whose pid was reused counts
   as live, and its timeout signals the foreign process group.
5. `unknown_exit_completed` - reconcile counts an exit code it cannot read as success.
6. `request_truncated` - a verified request has evidence, say the tests and the table of
   mandatory fields. `cr approve` and `cr reject` save their texts before the move is refused,
   and the file is read up to the first three dashes anywhere in it: with three dashes in a
   text, it reads back as verified without what was written after the text.

Limits of what holds, found while modelling; the properties name them in their comments. Some
are at odds with what a comment or a document of the repository says, quoted here; each was
seen as a counterexample of the models, with the excuse or the parameter that hides it taken
away, and has no run of its own:

- Kills that fail (`KillMayFail`). A session is to stay CANCEL_REQUESTED "until the process is
  observed gone" (`service.py` 447); `cancel` reports success whatever its kill did, so that the
  session is CANCELLED and its slot given away while the process runs. Where kills work,
  `SlotsAreKept` says that this cannot happen.
- A daemon that dies between saving RUNNING and `register`. `engine.py` 9 promises "restart-safe
  recovery of queued/claimed/running attempts"; neither the lease recovery nor the monitor looks
  at such an attempt, and its slot is taken for ever.
- Events. `engine.py` 15 "emits lifecycle events exactly once"; the set of sessions already
  emitted is memory, and when a lost update left the attempt of a finished session RUNNING, the
  restarted monitor emits a second terminal event. `EventsHaveCauses` counts it.
- Delivery. With `HarnessCommits` or `LateEdits` TRUE, `PublishesOnlyApproved` fails: the first
  candidate has no base commit to compare HEAD with, so that commits of the run go out beside
  the manifest, and `commit_candidate`, which is to commit exactly the manifest, hashes the
  files again after `check_stale` has compared them. A publish interrupted after its push never
  completes (the remote commit is compared with a tree hash). A second candidate published while
  the pull request of the first is open adopts that pull request. A provider exception leaves
  PUBLISHING, and after a rebase the old candidate is always stale. A safe cleanup does not
  preserve READY_TO_PUBLISH and PUBLISHING work.
- CheckPolicy. A failing optional check makes CI_FAILED; a comment after a change request clears
  it, as the last review of its author.
- EventOutbox. "append-only [..] with durable delivery" (`outbox.py` 33): two threads lose each
  other's rows, as each rewrites the file from the rows it read; only with a webhook, and the
  daemon is started without one.
- EventStream. "Restart-safe event stream bus" (`event_stream.py` 1): a new bus numbers from 1
  again, and a client that resumes with the number it saw last is sent nothing of the new bus up
  to that number.
- MultiAgentLock. Patterns are compared as strings, so that a pattern excludes nothing but
  itself. Claims that overlap in time are both granted, which the module is there to prevent
  (`multi_agent_lock.py` 5).
- GatewayRouter. For a class the configuration does not know the cloud is forbidden "to be on
  the safe side" (`config.py` 65, translated); the first rule keeps it from an openai profile,
  and the fallback of a local profile sends it to the cloud without asking.
- LocalAdmission. A lane switched between two answers may be READY with the mode of one and the
  model of the other; each answer was right when it was given, and the code asks for no more.
- HarnessRuntime. LOST or FAILED may overwrite CANCELLED; a process that ends before its
  fingerprint is taken stays RUNNING; after a restart cancel records FAILED while the process
  lives. The model assumes that a pid is not reused between a fingerprint check and the signal
  right after it.
- AgentControl. The registry is "Thread-safe. File locking for concurrent access."
  (`registry.py` 70) and locks threads only: commands that overlap undo each other's changes,
  and one that read the file before an agent was booted writes it back without it. A profile
  with no gates passes; `event_log.append` is given a dictionary and raises.
- ChangeRequest, AccountableChange. Overlapping commands lose updates and two creations may take
  one number; an approval survives a revision; evidence of an earlier status may be in the file.
  `cr approve` with an empty reviewer, and `cr reject` with an empty reason, erase what was
  there although the move is refused. A text cut inside a list may be left as a number or as
  null, on which a validation raises; the model takes any such item for a reference or a value.
  A blocked change whose request is approved later gets valid evidence while it is blocked, and
  may be linked to another request after that: its packet is about the request it names, not
  about the one the change now has.
- AiBudget. "Budget check -> Always enforced" (`PHASE6_IMPLEMENTATION.md` 45): when Ollama fails
  with the budget used up, Claude is asked all the same. Questions that overlap charge the month
  once, as each rewrites the file it read. The hybrid way with the classifier always raises. A
  question that failed after Claude was paid is not charged.
- EvidenceLog. A conversion that is repeated after an interruption appends its events again, and
  reports count them twice; a torn line makes every later report refuse.
- TraceLinks. The threads of `update-all` overwrite each other's backlinks, and skip without an
  error a file that another one has just emptied, so that a link stays unanswered; a second run,
  alone, repairs it. A process killed between emptying and writing loses the file. `aspice link`
  of `cli/commands/skills.py` reports a new implementation link that it never writes.

Within these limits, what the code claims about slots, limits, recovery, approval,
requests and evidence holds in the models.

## 7. Plan

Proofs: what the runs check is proved but for liveness; new models come with their theorems.

Models: **ClaimLease**, several dispatchers and a lease that is not renewed, over the same
`QueueStore`; idempotency keys of retry; requests that are accepted are eventually queued.

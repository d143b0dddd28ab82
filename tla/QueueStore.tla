----------------------------- MODULE QueueStore -----------------------------
(***************************************************************************)
(* The persistent job/attempt queue (scheduler.py: SchedulerStore and the  *)
(* counting half of Scheduler).  Every write replaces one whole record     *)
(* under the file lock, so a single save is atomic, but a record that was  *)
(* read earlier and is saved later overwrites whatever happened between.   *)
(***************************************************************************)
EXTENDS Integers, FiniteSets, Sequences

CONSTANTS
    Jobs,           \* job ids handed out by submit_job
    Attempts,       \* attempt ids: one global key space in the store
    Harnesses,      \* adapter ids
    HarnessOf,      \* [Jobs -> Harnesses]: the harness a job is submitted for
    GlobalLimit,    \* Scheduler.global_limit
    HarnessLimit,   \* [Harnesses -> Nat]: Scheduler.per_harness
    MaxCreated,     \* bound: attempts created by submit and retry
    MaxSessions,    \* bound: sessions the adapters may start
    NoJob, NoAttempt

ASSUME QueueAssumption ==
    /\ IsFiniteSet(Attempts)
    /\ HarnessOf \in [Jobs -> Harnesses]
    /\ GlobalLimit \in Nat
    /\ HarnessLimit \in [Harnesses -> Nat]
    /\ MaxCreated \in Nat
    /\ MaxSessions \in Nat
    /\ NoJob \notin Jobs
    /\ NoAttempt \notin Attempts

VARIABLES
    jobs,           \* store["jobs"]
    attempts,       \* store["attempts"]
    clock           \* creation stamps handed out so far (created_at)

queueVars == <<jobs, attempts, clock>>

-----------------------------------------------------------------------------

JobStates == {"ABSENT", "ACCEPTED", "QUEUED", "RUNNING",
              "COMPLETED", "FAILED", "CANCELLED", "TIMED_OUT"}

TerminalJobStates == {"COMPLETED", "FAILED", "CANCELLED", "TIMED_OUT"}

AttemptStates == {"ABSENT", "CREATED", "QUEUED", "CLAIMED", "RUNNING",
                  "COMPLETED", "FAILED", "CANCELLED", "TIMED_OUT"}

TerminalAttemptStates == {"COMPLETED", "FAILED", "CANCELLED", "TIMED_OUT"}

Sessions == 1..MaxSessions
NoSession == 0

JobRecord == [state : JobStates, attempts : SUBSET Attempts]

(* The flag attempt.terminal is always saved together with one of the      *)
(* terminal states.                                                        *)
(* expired: the lease deadline of claim_lease_until has passed.            *)
(* held:    admission_retry_after lies in the future.                      *)
AttemptRecord == [state   : AttemptStates,
                  job     : Jobs \cup {NoJob},
                  created : Nat,
                  expired : BOOLEAN,
                  held    : BOOLEAN,
                  session : Sessions \cup {NoSession}]

AbsentJob == [state |-> "ABSENT", attempts |-> {}]

AbsentAttempt ==
    [state |-> "ABSENT", job |-> NoJob, created |-> 0,
     expired |-> FALSE, held |-> FALSE, session |-> NoSession]

NewAttempt(j) == [AbsentAttempt EXCEPT !.state = "CREATED", !.job = j,
                                       !.created = clock]

QueueTypeOK ==
    /\ jobs \in [Jobs -> JobRecord]
    /\ attempts \in [Attempts -> AttemptRecord]
    /\ clock \in Nat

QueueInit ==
    /\ jobs = [j \in Jobs |-> AbsentJob]
    /\ attempts = [a \in Attempts |-> AbsentAttempt]
    /\ clock = 0

-----------------------------------------------------------------------------

SaveJob(j, rec) == jobs' = [jobs EXCEPT ![j] = rec]

SaveAttempt(a, rec) == attempts' = [attempts EXCEPT ![a] = rec]

(* The harness stored in an attempt is copied from its job. *)
Harness(rec) == HarnessOf[rec.job]

(* running_counts: QUEUED attempts do not consume capacity. *)
Active == {a \in Attempts : attempts[a].state \in {"CLAIMED", "RUNNING"}}

ActiveOn(h) == {a \in Active : Harness(attempts[a]) = h}

(* Mutants of CanStart: off by one, one limit forgotten. *)
CanStartAtLimit(h) ==
    /\ Cardinality(Active) <= GlobalLimit
    /\ Cardinality(ActiveOn(h)) <= HarnessLimit[h]

CanStartAnyHarness(h) == Cardinality(Active) < GlobalLimit

CanStart(h) ==
    /\ Cardinality(Active) < GlobalLimit
    /\ Cardinality(ActiveOn(h)) < HarnessLimit[h]

Terminal(a) == attempts[a].state \in TerminalAttemptStates

=============================================================================

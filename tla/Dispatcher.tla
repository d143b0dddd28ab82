----------------------------- MODULE Dispatcher -----------------------------
(***************************************************************************)
(* The dispatcher thread: ControlPlaneEngine._dispatch_once and the part   *)
(* of ControlPlaneService it runs, dispatch_claimed.  The thread takes no  *)
(* lock around a pass; every access of a store is one action, and what it  *)
(* read stays in `disp` until it is written back.                          *)
(***************************************************************************)
EXTENDS SessionRegistry

CONSTANTS
    LocalJobs       \* jobs with a local route: subject to the admission gate

ASSUME LocalAssumption == LocalJobs \subseteq Jobs

VARIABLES
    disp,           \* program counter and local copies of the dispatcher
    worktrees       \* <<job, attempt>> pairs whose worktree path exists

dispatchVars == <<disp, worktrees>>

DispatchPCs == {"idle", "examine", "claim", "load", "admit", "holdRelease",
                "run", "start", "register", "bind", "jobRun", "fail", "failJob"}

(* One element of the sorted snapshot a pass works through. *)
QueueEntry == [id : Attempts, created : Nat, harness : Harnesses]

DispatchRecord == [pc      : DispatchPCs,
                   queue   : SUBSET QueueEntry,
                   cur     : Attempts \cup {NoAttempt},
                   att     : AttemptRecord,
                   job     : JobRecord,
                   session : Sessions \cup {NoSession}]

DispatchIdle == [pc |-> "idle", queue |-> {}, cur |-> NoAttempt,
                 att |-> AbsentAttempt, job |-> AbsentJob,
                 session |-> NoSession]

DispatchTypeOK ==
    /\ disp \in DispatchRecord
    /\ worktrees \subseteq Jobs \X Attempts

DispatchInit ==
    /\ disp = DispatchIdle
    /\ worktrees = {}

-----------------------------------------------------------------------------

HeadOf(queue) == CHOOSE q \in queue : \A r \in queue : q.created <= r.created

(* The loop of a pass over what is left of the snapshot. *)
NextEntry(queue) ==
    IF queue = {} THEN DispatchIdle
    ELSE [DispatchIdle EXCEPT !.pc = "examine", !.queue = queue]

(* release_claim on a CLAIMED record. *)
Released(rec) == [rec EXCEPT !.state = "QUEUED", !.expired = FALSE]

(* Mutants of Recovered: running attempts are requeued as well, or nothing *)
(* is ever recovered.                                                      *)
RecoveredRunning == [a \in Attempts |->
                        IF attempts[a].state \in {"CLAIMED", "RUNNING"}
                           /\ attempts[a].expired
                        THEN Released(attempts[a]) ELSE attempts[a]]

NothingRecovered == attempts

(* recover_expired_claims: the store after every expired lease is released *)
Recovered == [a \in Attempts |->
                 IF attempts[a].state = "CLAIMED" /\ attempts[a].expired
                 THEN Released(attempts[a]) ELSE attempts[a]]

(* A pass first recovers expired leases, then lists the queue. *)
D_Pass ==
    /\ disp.pc = "idle"
    /\ attempts' = Recovered
    /\ disp' = NextEntry({[id      |-> a,
                           created |-> Recovered[a].created,
                           harness |-> Harness(Recovered[a])] :
                             a \in {b \in Attempts :
                                      Recovered[b].state = "QUEUED"}})
    /\ UNCHANGED <<jobs, clock, sessionVars, worktrees>>

(* can_start refused: this entry waits for a later pass. *)
D_Skip ==
    /\ disp.pc = "examine"
    /\ ~CanStart(HeadOf(disp.queue).harness)
    /\ disp' = NextEntry(disp.queue \ {HeadOf(disp.queue)})
    /\ UNCHANGED <<queueVars, sessionVars, worktrees>>

D_MayStart ==
    /\ disp.pc = "examine"
    /\ CanStart(HeadOf(disp.queue).harness)
    /\ disp' = [disp EXCEPT !.pc = "claim"]
    /\ UNCHANGED <<queueVars, sessionVars, worktrees>>

Claimable(a) == attempts[a].state = "QUEUED" /\ ~attempts[a].held

(* Scheduler.claim: re-reads the attempt under the store lock. *)
D_Claim ==
    /\ disp.pc = "claim"
    /\ LET a == HeadOf(disp.queue).id IN
       /\ Claimable(a)
       /\ SaveAttempt(a, [attempts[a] EXCEPT !.state = "CLAIMED",
                                             !.expired = FALSE])
       /\ disp' = [disp EXCEPT !.pc = "load", !.cur = a,
                               !.queue = @ \ {HeadOf(disp.queue)}]
    /\ UNCHANGED <<jobs, clock, sessionVars, worktrees>>

D_ClaimRefused ==
    /\ disp.pc = "claim"
    /\ ~Claimable(HeadOf(disp.queue).id)
    /\ disp' = NextEntry(disp.queue \ {HeadOf(disp.queue)})
    /\ UNCHANGED <<queueVars, sessionVars, worktrees>>

-----------------------------------------------------------------------------
(* dispatch_claimed *)

D_Load ==
    /\ disp.pc = "load"
    /\ attempts[disp.cur].state = "CLAIMED"
    /\ disp' = [disp EXCEPT !.pc = "admit",
                            !.att = attempts[disp.cur],
                            !.job = jobs[attempts[disp.cur].job]]
    /\ UNCHANGED <<queueVars, sessionVars, worktrees>>

D_NotClaimed ==
    /\ disp.pc = "load"
    /\ attempts[disp.cur].state # "CLAIMED"
    /\ disp' = NextEntry(disp.queue)
    /\ UNCHANGED <<queueVars, sessionVars, worktrees>>

(* The local admission gate is not READY: the copy is saved back with a    *)
(* retry timestamp, then the claim is released.                            *)
D_Hold ==
    /\ disp.pc = "admit"
    /\ disp.att.job \in LocalJobs
    /\ SaveAttempt(disp.cur, [disp.att EXCEPT !.held = TRUE])
    /\ disp' = [disp EXCEPT !.pc = "holdRelease"]
    /\ UNCHANGED <<jobs, clock, sessionVars, worktrees>>

D_HoldRelease ==
    /\ disp.pc = "holdRelease"
    /\ IF attempts[disp.cur].state = "CLAIMED"
       THEN SaveAttempt(disp.cur, Released(attempts[disp.cur]))
       ELSE UNCHANGED attempts
    /\ disp' = NextEntry(disp.queue)
    /\ UNCHANGED <<jobs, clock, sessionVars, worktrees>>

(* Admitted: nothing but the dispatcher's own worktree area changes before *)
(* the next save, so the rest of the way to it is one action.              *)
(* resolve_repo raises ValueError, which only the loop catches: the pass   *)
(* is abandoned and the attempt stays CLAIMED until its lease expires.     *)
D_RepoUnavailable ==
    /\ disp.pc = "admit"
    /\ disp' = DispatchIdle
    /\ UNCHANGED <<queueVars, sessionVars, worktrees>>

D_Worktree ==
    /\ disp.pc = "admit"
    /\ <<disp.att.job, disp.cur>> \notin worktrees
    /\ worktrees' = worktrees \cup {<<disp.att.job, disp.cur>>}
    /\ disp' = [disp EXCEPT !.pc = "run"]
    /\ UNCHANGED <<queueVars, sessionVars>>

(* WorktreeError: the path exists already, or git refuses the commit. *)
D_WorktreeFails ==
    /\ disp.pc = "admit"
    /\ disp' = [disp EXCEPT !.pc = "fail"]
    /\ UNCHANGED <<queueVars, sessionVars, worktrees>>

(* Mutant of D_Run: RUNNING is saved only together with the session id. *)
D_RunUnsaved ==
    /\ disp.pc = "run"
    /\ disp' = [disp EXCEPT !.pc = "start", !.att.state = "RUNNING"]
    /\ UNCHANGED <<queueVars, sessionVars, worktrees>>

D_Run ==
    /\ disp.pc = "run"
    /\ disp' = [disp EXCEPT !.pc = "start", !.att.state = "RUNNING"]
    /\ SaveAttempt(disp.cur, disp'.att)
    /\ UNCHANGED <<jobs, clock, sessionVars, worktrees>>

(* Payload missing, corrupt or of another hash, or the adapter refused. *)
D_StartFails ==
    /\ disp.pc = "start"
    /\ disp' = [disp EXCEPT !.pc = "fail"]
    /\ UNCHANGED <<queueVars, sessionVars, worktrees>>

(* gateway.start_session spawns the process; the lowest unused id stands   *)
(* for the fresh uuid.                                                     *)
D_Start ==
    /\ disp.pc = "start"
    /\ \E s \in Sessions :
          /\ procs[s].state = "none"
          /\ \A t \in Sessions : t < s => procs[t].state # "none"
          /\ procs' = [procs EXCEPT ![s].state = "alive",
                                ![s].attempt = disp.cur]
          /\ adapter' = adapter \cup {s}
          /\ disp' = [disp EXCEPT !.pc = "register", !.session = s]
    /\ UNCHANGED <<queueVars, sessions, reused, overdue, events,
                   foreignHit, worktrees>>

D_Register ==
    /\ disp.pc = "register"
    /\ SaveSession(disp.session, [state |-> "RUNNING", attempt |-> disp.cur])
    /\ disp' = [disp EXCEPT !.pc = "bind"]
    /\ UNCHANGED <<queueVars, procs, adapter, reused, overdue,
                   events, foreignHit, worktrees>>

(* The RUNNING copy is saved back with the session id. *)
D_Bind ==
    /\ disp.pc = "bind"
    /\ SaveAttempt(disp.cur, [disp.att EXCEPT !.session = disp.session])
    /\ disp' = [disp EXCEPT !.pc = "jobRun"]
    /\ UNCHANGED <<jobs, clock, sessionVars, worktrees>>

D_JobRun ==
    /\ disp.pc = "jobRun"
    /\ SaveJob(disp.att.job, [disp.job EXCEPT !.state = "RUNNING"])
    /\ disp' = NextEntry(disp.queue)
    /\ UNCHANGED <<attempts, clock, sessionVars, worktrees>>

D_Fail ==
    /\ disp.pc = "fail"
    /\ SaveAttempt(disp.cur, [disp.att EXCEPT !.state = "FAILED"])
    /\ disp' = [disp EXCEPT !.pc = "failJob"]
    /\ UNCHANGED <<jobs, clock, sessionVars, worktrees>>

D_FailJob ==
    /\ disp.pc = "failJob"
    /\ SaveJob(disp.att.job, [disp.job EXCEPT !.state = "FAILED"])
    /\ disp' = NextEntry(disp.queue)
    /\ UNCHANGED <<attempts, clock, sessionVars, worktrees>>

DispatcherStep ==
    \/ D_Pass \/ D_Skip \/ D_MayStart
    \/ D_Claim \/ D_ClaimRefused \/ D_Load \/ D_NotClaimed
    \/ D_Hold \/ D_HoldRelease
    \/ D_RepoUnavailable \/ D_Worktree \/ D_WorktreeFails \/ D_Run
    \/ D_StartFails \/ D_Start \/ D_Register \/ D_Bind \/ D_JobRun
    \/ D_Fail \/ D_FailJob

=============================================================================

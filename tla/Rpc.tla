-------------------------------- MODULE Rpc --------------------------------
(***************************************************************************)
(* The requests the daemon serves (daemon.py, ControlPlaneService).  One   *)
(* lock admits one request at a time, so there is one request thread here; *)
(* the dispatcher and the monitor do not take that lock and run between    *)
(* any two steps of a request.                                             *)
(***************************************************************************)
EXTENDS SessionRegistry

CONSTANTS
    Requests,       \* the control requests clients send
    MaxControl,     \* bound: control requests served
    FreshRetryIds,  \* TRUE: the caller of retry names an unused attempt id
    DefaultRetryId  \* [Nat -> Attempts]: the id "retry_<n>" of retry_job

ASSUME RpcAssumption ==
    /\ Requests \subseteq {"cancel", "inspect", "reconcile"}
    /\ MaxControl \in Nat
    /\ FreshRetryIds \in BOOLEAN

VARIABLES
    rpc,            \* program counter and local copies of the request thread
    served          \* control requests served so far

rpcVars == <<rpc, served>>

RpcPCs == {"idle", "submitAttempt", "submitQueue",
           "retryAttempt", "retryJob", "retryQueue",
           "cancelMark", "cancelKill", "cancelSave", "cancelRevert",
           "inspect", "reconcile", "rediscover",
           "markRead", "markAttempt", "markJobRead", "markJob", "markEmit"}

RpcRecord == [pc    : RpcPCs,
              jid   : Jobs \cup {NoJob},
              aid   : Attempts \cup {NoAttempt},
              att   : AttemptRecord,
              job   : JobRecord,
              todo  : SUBSET Sessions,
              snap  : [Sessions -> SessionRecord],
              to    : TerminalAttemptStates]

RpcIdle == [pc |-> "idle", jid |-> NoJob, aid |-> NoAttempt,
            att |-> AbsentAttempt, job |-> AbsentJob, todo |-> {},
            snap |-> [s \in Sessions |-> AbsentSession], to |-> "FAILED"]

RpcTypeOK ==
    /\ rpc \in RpcRecord
    /\ served \in Nat

RpcInit ==
    /\ rpc = RpcIdle
    /\ served = 0

-----------------------------------------------------------------------------
(* submit_job: job, attempt CREATED, attempt QUEUED *)

R_Submit ==
    /\ rpc.pc = "idle"
    /\ clock < MaxCreated
    /\ \E j \in Jobs, a \in Attempts :
          /\ jobs[j].state = "ABSENT"
          /\ attempts[a].state = "ABSENT"
          /\ SaveJob(j, [state |-> "ACCEPTED", attempts |-> {a}])
          /\ rpc' = [rpc EXCEPT !.pc = "submitAttempt", !.jid = j, !.aid = a]
    /\ UNCHANGED <<attempts, clock, sessionVars, served>>

R_SubmitAttempt ==
    /\ rpc.pc = "submitAttempt"
    /\ SaveAttempt(rpc.aid, NewAttempt(rpc.jid))
    /\ clock' = clock + 1
    /\ rpc' = [rpc EXCEPT !.pc = "submitQueue", !.att = NewAttempt(rpc.jid)]
    /\ UNCHANGED <<jobs, sessionVars, served>>

R_SubmitQueue ==
    /\ rpc.pc = "submitQueue"
    /\ SaveAttempt(rpc.aid, [rpc.att EXCEPT !.state = "QUEUED"])
    /\ rpc' = RpcIdle
    /\ UNCHANGED <<jobs, clock, sessionVars, served>>

-----------------------------------------------------------------------------
(* retry_job: a terminal job is reopened with a new attempt *)

R_Retry ==
    /\ rpc.pc = "idle"
    /\ clock < MaxCreated
    /\ \E j \in Jobs :
          /\ jobs[j].state \in TerminalJobStates
          /\ rpc' = [rpc EXCEPT !.pc = "retryAttempt", !.jid = j,
                                !.job = jobs[j]]
    /\ UNCHANGED <<queueVars, sessionVars, served>>

(* Only the attempts of the same job are looked at, not the whole store. *)
RetryIds(job) ==
    IF FreshRetryIds
    THEN {a \in Attempts : attempts[a].state = "ABSENT"}
    ELSE {a \in Attempts \ job.attempts :
            a = DefaultRetryId[Cardinality(job.attempts)]}

R_RetryAttempt ==
    /\ rpc.pc = "retryAttempt"
    /\ \E a \in RetryIds(rpc.job) :
          /\ SaveAttempt(a, NewAttempt(rpc.jid))
          /\ rpc' = [rpc EXCEPT !.pc = "retryJob", !.aid = a,
                                !.att = NewAttempt(rpc.jid)]
    /\ clock' = clock + 1
    /\ UNCHANGED <<jobs, sessionVars, served>>

(* DUPLICATE_ATTEMPT, or a missing or altered payload. *)
R_RetryRefused ==
    /\ rpc.pc = "retryAttempt"
    /\ rpc' = RpcIdle
    /\ UNCHANGED <<queueVars, sessionVars, served>>

R_RetryJob ==
    /\ rpc.pc = "retryJob"
    /\ SaveJob(rpc.jid, [state    |-> "QUEUED",
                         attempts |-> rpc.job.attempts \cup {rpc.aid}])
    /\ rpc' = [rpc EXCEPT !.pc = "retryQueue"]
    /\ UNCHANGED <<attempts, clock, sessionVars, served>>

R_RetryQueue ==
    /\ rpc.pc = "retryQueue"
    /\ SaveAttempt(rpc.aid, [rpc.att EXCEPT !.state = "QUEUED"])
    /\ rpc' = RpcIdle
    /\ UNCHANGED <<jobs, clock, sessionVars, served>>

-----------------------------------------------------------------------------
(* The control requests share the cursor of a snapshot of sessions; cancel *)
(* and inspect work on a snapshot of one.                                  *)

Target == CHOOSE s \in rpc.todo : \A t \in rpc.todo : s <= t
TargetSession == rpc.snap[Target]
TargetAttempt == rpc.snap[Target].attempt

Snapshot(S) == [s \in Sessions |-> IF s \in S THEN sessions[s]
                                              ELSE AbsentSession]

(* The request is over, or reconcile goes on with the next session. *)
TargetDone ==
    IF rpc.todo = {Target} THEN RpcIdle
    ELSE [rpc EXCEPT !.pc = "reconcile", !.todo = @ \ {Target},
                     !.snap[Target] = AbsentSession,
                     !.att = AbsentAttempt, !.job = AbsentJob,
                     !.to = "FAILED"]

Registered == {s \in Sessions : sessions[s].state # "ABSENT"}

StartControl(request, pc, S) ==
    /\ rpc.pc = "idle"
    /\ request \in Requests
    /\ served < MaxControl
    /\ served' = served + 1
    /\ rpc' = [rpc EXCEPT !.pc = pc, !.todo = S, !.snap = Snapshot(S)]
    /\ UNCHANGED <<queueVars, sessionVars>>

(* cancel: a session that is already terminal is left alone. *)
R_Cancel ==
    \E s \in Registered :
        /\ sessions[s].state \notin TerminalSessionStates
        /\ StartControl("cancel", "cancelMark", {s})

R_CancelMark ==
    /\ rpc.pc = "cancelMark"
    /\ SaveSession(Target, [TargetSession EXCEPT !.state = "CANCEL_REQUESTED"])
    /\ rpc' = [rpc EXCEPT !.pc = "cancelKill"]
    /\ UNCHANGED <<queueVars, procs, adapter, reused, overdue,
                   events, foreignHit, served>>

(* The adapter knows the session and its fingerprint matches. *)
AdapterCancels(s) == s \in adapter /\ PidMatches(s)

(* The adapter reports success whatever became of the signal. *)
R_CancelByAdapter ==
    /\ rpc.pc = "cancelKill"
    /\ AdapterCancels(Target)
    /\ procs' \in KillOutcomes(Target)
    /\ rpc' = [rpc EXCEPT !.pc = "cancelSave"]
    /\ UNCHANGED <<queueVars, sessions, adapter, reused, overdue,
                   events, foreignHit, served>>

(* After a restart: kill the owned scope, success only on return code 0. *)
R_CancelByScope ==
    /\ rpc.pc = "cancelKill"
    /\ ~AdapterCancels(Target)
    /\ Scoped
    /\ Alive(Target)
    /\ procs' = Killed(Target)
    /\ rpc' = [rpc EXCEPT !.pc = "cancelSave"]
    /\ UNCHANGED <<queueVars, sessions, adapter, reused, overdue,
                   events, foreignHit, served>>

R_CancelFails ==
    /\ rpc.pc = "cancelKill"
    /\ ~AdapterCancels(Target)
    /\ ~Scoped \/ ~Alive(Target) \/ KillMayFail
    /\ rpc' = [rpc EXCEPT !.pc = "cancelRevert"]
    /\ UNCHANGED <<queueVars, sessionVars, served>>

R_CancelSave ==
    /\ rpc.pc = "cancelSave"
    /\ SaveSession(Target, [TargetSession EXCEPT !.state = "CANCELLED"])
    /\ rpc' = [rpc EXCEPT !.pc = "markRead", !.to = "CANCELLED"]
    /\ UNCHANGED <<queueVars, procs, adapter, reused, overdue,
                   events, foreignHit, served>>

(* Neither kill succeeded: the state read at the start is restored. *)
R_CancelRevert ==
    /\ rpc.pc = "cancelRevert"
    /\ SaveSession(Target, TargetSession)
    /\ rpc' = RpcIdle
    /\ UNCHANGED <<queueVars, procs, adapter, reused, overdue,
                   events, foreignHit, served>>

-----------------------------------------------------------------------------
(* _mark_attempt_terminal, shared by cancel and reconcile *)

R_MarkRead ==
    /\ rpc.pc = "markRead"
    /\ rpc' = IF Terminal(TargetAttempt)
              THEN [rpc EXCEPT !.pc = "markEmit"]
              ELSE [rpc EXCEPT !.pc = "markAttempt",
                               !.att = attempts[TargetAttempt]]
    /\ UNCHANGED <<queueVars, sessionVars, served>>

R_MarkAttempt ==
    /\ rpc.pc = "markAttempt"
    /\ SaveAttempt(TargetAttempt, [rpc.att EXCEPT !.state = rpc.to])
    /\ rpc' = [rpc EXCEPT !.pc = "markJobRead"]
    /\ UNCHANGED <<jobs, clock, sessionVars, served>>

R_MarkJobRead ==
    /\ rpc.pc = "markJobRead"
    /\ rpc' = IF jobs[rpc.att.job].state = "COMPLETED"
              THEN [rpc EXCEPT !.pc = "markEmit", !.att = AbsentAttempt]
              ELSE [rpc EXCEPT !.pc = "markJob", !.job = jobs[rpc.att.job]]
    /\ UNCHANGED <<queueVars, sessionVars, served>>

R_MarkJob ==
    /\ rpc.pc = "markJob"
    /\ SaveJob(rpc.att.job, [rpc.job EXCEPT !.state = rpc.to])
    /\ rpc' = [rpc EXCEPT !.pc = "markEmit", !.att = AbsentAttempt,
                          !.job = AbsentJob]
    /\ UNCHANGED <<attempts, clock, sessionVars, served>>

(* session.cancelled is a terminal event, session.reconciled is not. *)
R_MarkEmit ==
    /\ rpc.pc = "markEmit"
    /\ events' = [events EXCEPT ![Target] =
                     @ + IF rpc.to = "CANCELLED" THEN 1 ELSE 0]
    /\ rpc' = TargetDone
    /\ UNCHANGED <<queueVars, sessions, procs, adapter, reused,
                   overdue, foreignHit, served>>

-----------------------------------------------------------------------------
(* inspect (ControlPlaneService.status): it corrects the session, but not  *)
(* the attempt.                                                            *)

R_Inspect == \E s \in Registered : StartControl("inspect", "inspect", {s})

R_InspectGone ==
    /\ rpc.pc = "inspect"
    /\ PidAbsent(Target)
    /\ TargetSession.state = "RUNNING"
    /\ SaveSession(Target, [TargetSession EXCEPT !.state = "COMPLETED"])
    /\ rpc' = RpcIdle
    /\ UNCHANGED <<queueVars, procs, adapter, reused, overdue,
                   events, foreignHit, served>>

R_InspectReused ==
    /\ rpc.pc = "inspect"
    /\ Target \in reused
    /\ SaveSession(Target, [TargetSession EXCEPT !.state = "LOST"])
    /\ rpc' = RpcIdle
    /\ UNCHANGED <<queueVars, procs, adapter, reused, overdue,
                   events, foreignHit, served>>

R_InspectNoChange ==
    /\ rpc.pc = "inspect"
    /\ \/ PidMatches(Target)
       \/ PidAbsent(Target) /\ TargetSession.state # "RUNNING"
    /\ rpc' = RpcIdle
    /\ UNCHANGED <<queueVars, sessionVars, served>>

-----------------------------------------------------------------------------
(* reconcile *)

R_Reconcile ==
    /\ Registered # {}
    /\ StartControl("reconcile", "reconcile", Registered)

R_ReconcileCancelled ==
    /\ rpc.pc = "reconcile"
    /\ PidAbsent(Target)
    /\ TargetSession.state = "CANCEL_REQUESTED"
    /\ SaveSession(Target, [TargetSession EXCEPT !.state = "CANCELLED"])
    /\ rpc' = [rpc EXCEPT !.pc = "markRead", !.to = "CANCELLED"]
    /\ UNCHANGED <<queueVars, procs, adapter, reused, overdue,
                   events, foreignHit, served>>

(* _reconcile_exit_code: the scope, else a status file in the worktree,    *)
(* which the agent may have written with any content or not at all.        *)
ReconcileReadings(s) ==
    IF "?" \in ScopeExitCodes(s) THEN ScopeExitCodes(s) \cup ExitCodes
                                 ELSE ScopeExitCodes(s)

(* Only a nonzero code is a failure: an unknown one counts as success. *)
ReconciledAs(code) == IF code \in {"?", "0"} THEN "COMPLETED" ELSE "FAILED"

R_ReconcileGone ==
    /\ rpc.pc = "reconcile"
    /\ PidAbsent(Target)
    /\ TargetSession.state = "RUNNING"
    /\ \E code \in ReconcileReadings(Target) :
          /\ SaveSession(Target,
                         [TargetSession EXCEPT !.state = ReconciledAs(code)])
          /\ rpc' = [rpc EXCEPT !.pc = "markRead", !.to = ReconciledAs(code)]
    /\ UNCHANGED <<queueVars, procs, adapter, reused, overdue,
                   events, foreignHit, served>>

(* A session that already ended, or that runs and is recorded so. *)
R_ReconcileNoChange ==
    /\ rpc.pc = "reconcile"
    /\ \/ PidAbsent(Target) /\ TargetSession.state \in TerminalSessionStates
       \/ PidMatches(Target) /\ TargetSession.state = "RUNNING"
    /\ rpc' = TargetDone
    /\ UNCHANGED <<queueVars, sessionVars, served>>

(* _retry_cancel_owned_scope: the cancel stays requested. *)
R_ReconcileRetryCancel ==
    /\ rpc.pc = "reconcile"
    /\ PidMatches(Target)
    /\ TargetSession.state = "CANCEL_REQUESTED"
    /\ procs' \in IF Scoped THEN KillOutcomes(Target) ELSE {procs}
    /\ rpc' = TargetDone
    /\ UNCHANGED <<queueVars, sessions, adapter, reused, overdue,
                   events, foreignHit, served>>

R_ReconcileRediscover ==
    /\ rpc.pc = "reconcile"
    /\ PidMatches(Target)
    /\ TargetSession.state \in TerminalSessionStates
    /\ rpc' = [rpc EXCEPT !.pc = "rediscover"]
    /\ UNCHANGED <<queueVars, sessionVars, served>>

R_Rediscover ==
    /\ rpc.pc = "rediscover"
    /\ SaveSession(Target, [TargetSession EXCEPT !.state = "RUNNING"])
    /\ rpc' = TargetDone
    /\ UNCHANGED <<queueVars, procs, adapter, reused, overdue,
                   events, foreignHit, served>>

(* The pid now belongs to a foreign process: LOST, whatever it was before. *)
R_ReconcileReused ==
    /\ rpc.pc = "reconcile"
    /\ Target \in reused
    /\ SaveSession(Target, [TargetSession EXCEPT !.state = "LOST"])
    /\ rpc' = TargetDone
    /\ UNCHANGED <<queueVars, procs, adapter, reused, overdue,
                   events, foreignHit, served>>

RpcStep ==
    \/ R_Submit \/ R_SubmitAttempt \/ R_SubmitQueue
    \/ R_Retry \/ R_RetryAttempt \/ R_RetryRefused \/ R_RetryJob
    \/ R_RetryQueue
    \/ R_Cancel \/ R_CancelMark \/ R_CancelByAdapter \/ R_CancelByScope
    \/ R_CancelFails \/ R_CancelSave \/ R_CancelRevert
    \/ R_MarkRead \/ R_MarkAttempt \/ R_MarkJobRead \/ R_MarkJob
    \/ R_MarkEmit
    \/ R_Inspect \/ R_InspectGone \/ R_InspectReused \/ R_InspectNoChange
    \/ R_Reconcile \/ R_ReconcileCancelled \/ R_ReconcileGone
    \/ R_ReconcileNoChange \/ R_ReconcileRetryCancel
    \/ R_ReconcileRediscover \/ R_Rediscover \/ R_ReconcileReused

=============================================================================

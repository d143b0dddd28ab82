------------------------- MODULE ControlPlaneSafety -------------------------
(***************************************************************************)
(* The safety of the running daemon beyond types and the global limit:     *)
(* what is known of processes, copies and slots in every reachable state,  *)
(* and that the daemon implements SlotPool.  The proofs go by what a step  *)
(* of each thread may write; the threads' own invariants rest on it.       *)
(***************************************************************************)
EXTENDS ControlPlaneProofs

-----------------------------------------------------------------------------
(* Processes: a session id names one process for ever.                     *)

Ended(s) == procs[s].state \in {"zombie", "gone"}

(* No process was started, and what is known of those that were remains.   *)
ProcessesStay ==
    \A s \in Sessions :
        /\ procs'[s].attempt = procs[s].attempt
        /\ procs'[s].state = "none" <=> procs[s].state = "none"
        /\ Ended(s) => Ended(s)' /\ procs'[s].code = procs[s].code

(* At most one process died; the queue is not touched in the same step. *)
AtMostOneExit ==
    \E s \in Sessions : \A t \in Sessions :
        /\ Alive(t)' => Alive(t)
        /\ t # s => (Alive(t) => Alive(t)')

LEMMA SameProcesses ==
    ASSUME procs' = procs
    PROVE  ProcessesStay
BY DEF ProcessesStay, Ended

LEMMA KillStays ==
    ASSUME SessionOK, NEW s \in Sessions,
           procs' \in KillOutcomes(s) \cup {Killed(s)}
    PROVE  /\ ProcessesStay /\ AtMostOneExit
           /\ procs' = Killed(s) => ~Alive(s)'
<1>1. procs \in [Sessions -> ProcRecord]
  BY DEF SessionOK, SessionTypeOK
<1>2. procs' = procs \/ procs' = Killed(s)
  BY DEF KillOutcomes
<1>3. Dead \in {"zombie", "gone"}
  BY DEF Dead
<1>4. CASE ~Alive(s)
  <2>1. procs' = procs
    BY <1>2, <1>4 DEF Killed
  <2>2. ~Alive(s)'
    BY <1>4, <2>1 DEF Alive
  <2>3. AtMostOneExit
    BY <2>1 DEF AtMostOneExit, Alive
  <2> QED BY <2>1, <2>2, <2>3, SameProcesses
<1>5. CASE Alive(s) /\ procs' = procs
  <2>1. Killed(s)[s].state # "alive"
    BY <1>1, <1>3, <1>5 DEF Killed, ProcRecord
  <2>2. procs' # Killed(s)
    BY <1>5, <2>1 DEF Alive
  <2>3. AtMostOneExit
    BY <1>5 DEF AtMostOneExit, Alive
  <2> QED BY <1>5, <2>2, <2>3, SameProcesses
<1>6. CASE Alive(s) /\ procs' = Killed(s)
  <2>1. procs' = [procs EXCEPT ![s].state = Dead, ![s].code = "1"]
    BY <1>6 DEF Killed
  <2>2. \A t \in Sessions : t # s => procs'[t] = procs[t]
    BY <1>1, <2>1
  <2>3. procs'[s].attempt = procs[s].attempt /\ procs'[s].state = Dead
    BY <1>1, <2>1 DEF ProcRecord
  <2> QED BY <1>3, <1>6, <2>2, <2>3
          DEF ProcessesStay, AtMostOneExit, Alive, Ended
<1> QED BY <1>2, <1>4, <1>5, <1>6

LEMMA MonitorProcesses ==
    ASSUME SessionOK, MonitorOK, MonitorStep
    PROVE  /\ ProcessesStay
           /\ procs' = procs \/ (AtMostOneExit /\ attempts' = attempts)
<1>1. CASE M_Kill
  <2>1. Cur \in Sessions
    BY <1>1, CurrentSession DEF M_Kill
  <2> QED BY <1>1, <2>1, KillStays DEF M_Kill, queueVars
<1>2. CASE procs' = procs
  BY <1>2, SameProcesses
<1> QED BY <1>1, <1>2
        DEF MonitorStep, sessionVars, M_Poll, M_SkipFinished, M_SessionEnded,
            M_EndedAttempt, M_Gone, M_Overdue, M_Running, M_Observe,
            M_AlreadyEmitted, M_FinalSession, M_FinalAttempt, M_ReadJob,
            M_WriteJob, M_Emit

LEMMA RpcProcesses ==
    ASSUME SessionOK, RpcOK, RpcStep
    PROVE  /\ ProcessesStay
           /\ procs' = procs \/ (AtMostOneExit /\ attempts' = attempts)
<1>t. rpc.pc \in ControlPCs => Target \in Sessions
  BY TargetBound
<1>1. CASE R_CancelByAdapter
  BY <1>1, <1>t, KillStays DEF R_CancelByAdapter, ControlPCs, RpcPCs, queueVars
<1>2. CASE R_CancelByScope
  BY <1>2, <1>t, KillStays DEF R_CancelByScope, ControlPCs, RpcPCs, queueVars
<1>3. CASE R_ReconcileRetryCancel
  <2>1. procs' = procs \/ procs' \in KillOutcomes(Target)
    BY <1>3 DEF R_ReconcileRetryCancel
  <2> QED BY <1>3, <1>t, <2>1, SameProcesses, KillStays
          DEF R_ReconcileRetryCancel, ControlPCs, RpcPCs, queueVars
<1>4. CASE procs' = procs
  BY <1>4, SameProcesses
<1> QED BY <1>1, <1>2, <1>3, <1>4
        DEF RpcStep, sessionVars, StartControl,
            R_Submit, R_SubmitAttempt, R_SubmitQueue, R_Retry, R_RetryAttempt,
            R_RetryRefused, R_RetryJob, R_RetryQueue, R_Cancel, R_CancelMark,
            R_CancelFails, R_CancelSave, R_CancelRevert, R_MarkRead,
            R_MarkAttempt, R_MarkJobRead, R_MarkJob, R_MarkEmit, R_Inspect,
            R_InspectGone, R_InspectReused, R_InspectNoChange, R_Reconcile,
            R_ReconcileCancelled, R_ReconcileGone, R_ReconcileNoChange,
            R_ReconcileRediscover, R_Rediscover, R_ReconcileReused

LEMMA EnvironmentProcesses ==
    ASSUME SessionOK, Environment
    PROVE  /\ ProcessesStay
           /\ procs' = procs \/ (AtMostOneExit /\ attempts' = attempts)
<1>t. procs \in [Sessions -> ProcRecord]
  BY DEF SessionOK, SessionTypeOK
<1>d. Dead \in {"zombie", "gone"}
  BY DEF Dead
<1>1. ASSUME NEW s \in Sessions, ProcessExits(s)
      PROVE  ProcessesStay /\ AtMostOneExit /\ attempts' = attempts
  <2>1. PICK code \in ExitStatuses :
           procs' = [procs EXCEPT ![s].state = Dead, ![s].code = code]
    BY <1>1 DEF ProcessExits
  <2>2. \A t \in Sessions : t # s => procs'[t] = procs[t]
    BY <1>t, <2>1
  <2>3. procs'[s].attempt = procs[s].attempt /\ procs'[s].state = Dead
    BY <1>t, <2>1 DEF ProcRecord
  <2> QED BY <1>1, <1>d, <2>2, <2>3
          DEF ProcessExits, ProcessesStay, AtMostOneExit, Alive, Ended,
              queueVars
<1>2. ASSUME NEW s \in Sessions, Reaped(s)
      PROVE  ProcessesStay /\ AtMostOneExit /\ attempts' = attempts
  <2>1. \A t \in Sessions : t # s => procs'[t] = procs[t]
    BY <1>t, <1>2 DEF Reaped
  <2>2. /\ procs'[s].attempt = procs[s].attempt
        /\ procs'[s].code = procs[s].code
        /\ procs'[s].state = "gone"
    BY <1>t, <1>2 DEF Reaped, ProcRecord
  <2> QED BY <1>2, <2>1, <2>2
          DEF Reaped, ProcessesStay, AtMostOneExit, Alive, Ended, queueVars
<1>3. CASE procs' = procs
  BY <1>3, SameProcesses
<1> QED BY <1>1, <1>2, <1>3
        DEF Environment, PidTakenAgain, DeadlinePasses, LeaseExpires,
            HoldElapses, sessionVars

LEMMA DispatcherProcesses ==
    ASSUME DispatcherStep
    PROVE  D_Start \/ procs' = procs
BY DEF DispatcherStep, sessionVars, D_Pass, D_Skip, D_MayStart, D_Claim,
       D_ClaimRefused, D_Load, D_NotClaimed, D_Hold, D_HoldRelease,
       D_RepoUnavailable, D_Worktree, D_WorktreeFails, D_Run, D_StartFails,
       D_Register, D_Bind, D_JobRun, D_Fail, D_FailJob

-----------------------------------------------------------------------------
(* What the threads save in the registry, and the snapshots they work on.  *)

LEMMA MonitorSessions ==
    ASSUME SessionOK, MonitorOK, MonitorStep, NEW s \in Sessions
    PROVE  \/ sessions'[s] = sessions[s]
           \/ /\ s = Cur /\ mon.pc \in {"observe", "final"}
              /\ sessions'[s].attempt = CurAttempt
              /\ sessions'[s].state = IF mon.pc = "observe" THEN "RUNNING"
                                                           ELSE mon.out.session
<1>1. sessions \in [Sessions -> SessionRecord]
  BY DEF SessionOK, SessionTypeOK
<1>2. mon.pc # "idle" => CurSession \in SessionRecord
  BY CurrentSession DEF MonitorOK, MonitorTypeOK, MonitorRecord, CurSession
<1>3. CASE M_Observe \/ M_FinalSession
  BY <1>1, <1>2, <1>3
     DEF M_Observe, M_FinalSession, SaveSession, SessionRecord, CurAttempt,
         CurSession
<1>4. CASE sessions' = sessions
  BY <1>4
<1> QED BY <1>3, <1>4
        DEF MonitorStep, sessionVars, M_Poll, M_SkipFinished, M_SessionEnded,
            M_EndedAttempt, M_Gone, M_Overdue, M_Running, M_Kill,
            M_AlreadyEmitted, M_FinalAttempt, M_ReadJob, M_WriteJob, M_Emit

(* What a request may make of the state of its target. *)
RequestSaves(state) ==
    \/ rpc.pc = "cancelMark" /\ state = "CANCEL_REQUESTED"
    \/ rpc.pc = "cancelSave" /\ state = "CANCELLED"
    \/ rpc.pc = "cancelRevert" /\ state = TargetSession.state
    \/ rpc.pc = "rediscover" /\ state = "RUNNING"
    \/ /\ rpc.pc \in {"inspect", "reconcile"}
       /\ PidAbsent(Target) \/ Target \in reused
       /\ state \in TerminalSessionStates

LEMMA RpcSessions ==
    ASSUME SessionOK, RpcOK, RpcStep, NEW s \in Sessions
    PROVE  \/ sessions'[s] = sessions[s]
           \/ /\ s = Target /\ rpc.pc \in ControlPCs
              /\ sessions'[s].attempt = TargetAttempt
              /\ RequestSaves(sessions'[s].state)
<1>1. sessions \in [Sessions -> SessionRecord]
  BY DEF SessionOK, SessionTypeOK
<1>2. rpc.pc \in ControlPCs => TargetSession \in SessionRecord
  BY TargetBound DEF RpcOK, RpcTypeOK, RpcRecord, TargetSession
<1>c. rpc.pc \in {"cancelMark", "cancelSave", "cancelRevert", "rediscover",
                  "inspect", "reconcile"} => rpc.pc \in ControlPCs
  BY DEF ControlPCs, RpcPCs
<1>w. ASSUME NEW state, SaveSession(Target, [TargetSession EXCEPT !.state
             = state]),
             rpc.pc \in ControlPCs, RequestSaves(state)
      PROVE  \/ sessions'[s] = sessions[s]
             \/ /\ s = Target /\ rpc.pc \in ControlPCs
                /\ sessions'[s].attempt = TargetAttempt
                /\ RequestSaves(sessions'[s].state)
  BY <1>1, <1>2, <1>w
     DEF SaveSession, SessionRecord, TargetSession, TargetAttempt
<1>3. CASE R_CancelMark \/ R_CancelSave
  BY <1>3, <1>c, <1>w DEF R_CancelMark, R_CancelSave, RequestSaves
<1>4. CASE R_CancelRevert
  BY <1>1, <1>4, <1>c DEF R_CancelRevert, RequestSaves, SaveSession,
                          TargetSession, TargetAttempt
<1>5. CASE R_InspectGone \/ R_InspectReused
  BY <1>5, <1>c, <1>w
     DEF R_InspectGone, R_InspectReused, RequestSaves, TerminalSessionStates
<1>6. CASE R_ReconcileCancelled \/ R_ReconcileReused
  BY <1>6, <1>c, <1>w
     DEF R_ReconcileCancelled, R_ReconcileReused, RequestSaves,
         TerminalSessionStates
<1>7. CASE R_ReconcileGone
  <2>1. PICK code \in ReconcileReadings(Target) :
           SaveSession(Target,
                       [TargetSession EXCEPT !.state = ReconciledAs(code)])
    BY <1>7 DEF R_ReconcileGone
  <2>2. RequestSaves(ReconciledAs(code))
    BY <1>7 DEF R_ReconcileGone, RequestSaves, ReconciledAs,
                TerminalSessionStates
  <2> QED BY <1>7, <1>c, <1>w, <2>1, <2>2 DEF R_ReconcileGone
<1>8. CASE R_Rediscover
  BY <1>8, <1>c, <1>w DEF R_Rediscover, RequestSaves
<1>9. CASE sessions' = sessions
  BY <1>9
<1> QED BY <1>3, <1>4, <1>5, <1>6, <1>7, <1>8, <1>9
        DEF RpcStep, sessionVars, StartControl,
            R_Submit, R_SubmitAttempt, R_SubmitQueue, R_Retry, R_RetryAttempt,
            R_RetryRefused, R_RetryJob, R_RetryQueue, R_Cancel,
            R_CancelByAdapter, R_CancelByScope, R_CancelFails, R_MarkRead,
            R_MarkAttempt, R_MarkJobRead, R_MarkJob, R_MarkEmit, R_Inspect,
            R_InspectNoChange, R_Reconcile, R_ReconcileNoChange,
            R_ReconcileRetryCancel, R_ReconcileRediscover

LEMMA DispatcherSessions ==
    ASSUME DispatcherStep
    PROVE  D_Register \/ sessions' = sessions
BY DEF DispatcherStep, sessionVars, D_Pass, D_Skip, D_MayStart, D_Claim,
       D_ClaimRefused, D_Load, D_NotClaimed, D_Hold, D_HoldRelease,
       D_RepoUnavailable, D_Worktree, D_WorktreeFails, D_Run, D_StartFails,
       D_Start, D_Bind, D_JobRun, D_Fail, D_FailJob

(* A snapshot is taken of the registry and then only becomes smaller. *)
LEMMA MonitorSnapshot ==
    ASSUME MonitorOK, MonitorStep, NEW s \in mon'.todo
    PROVE  \/ /\ mon.pc = "idle" /\ sessions[s].state # "ABSENT"
              /\ mon'.snap[s] = sessions[s]
           \/ s \in mon.todo /\ mon'.snap[s] = mon.snap[s]
<1>1. mon \in MonitorRecord
  BY DEF MonitorOK, MonitorTypeOK
<1>2. CASE M_Poll
  BY <1>1, <1>2 DEF M_Poll, MonitorRecord
<1>3. CASE mon' = NextSession
  <2>1. mon.todo # {Cur} /\ mon'.todo = mon.todo \ {Cur}
    BY <1>3 DEF NextSession, MonitorIdle
  <2>2. mon'.snap = [mon.snap EXCEPT ![Cur] = AbsentSession]
    BY <1>3, <2>1 DEF NextSession, MonitorIdle
  <2> QED BY <1>1, <2>1, <2>2 DEF MonitorRecord
<1>4. CASE mon'.todo = mon.todo /\ mon'.snap = mon.snap
  BY <1>4
<1> QED BY <1>1, <1>2, <1>3, <1>4
        DEF MonitorStep, MonitorRecord, M_SkipFinished, M_SessionEnded,
            M_EndedAttempt, M_Gone, M_Overdue, M_Running, M_Observe, M_Kill,
            M_AlreadyEmitted, M_FinalSession, M_FinalAttempt, M_ReadJob,
            M_WriteJob, M_Emit

LEMMA RpcSnapshot ==
    ASSUME RpcOK, RpcStep, NEW s \in rpc'.todo
    PROVE  \/ /\ rpc.pc = "idle" /\ sessions[s].state # "ABSENT"
              /\ rpc'.snap[s] = sessions[s]
           \/ s \in rpc.todo /\ rpc'.snap[s] = rpc.snap[s]
<1>1. rpc \in RpcRecord
  BY DEF RpcOK, RpcTypeOK
<1>2. ASSUME NEW request, NEW pc, NEW S \in SUBSET Registered,
             StartControl(request, pc, S)
      PROVE  /\ rpc.pc = "idle" /\ sessions[s].state # "ABSENT"
             /\ rpc'.snap[s] = sessions[s]
  <2>1. rpc'.todo = S /\ rpc'.snap = Snapshot(S) /\ rpc.pc = "idle"
    BY <1>1, <1>2 DEF StartControl, RpcRecord
  <2> QED BY <2>1 DEF Snapshot, Registered
<1>3. CASE R_Cancel \/ R_Inspect \/ R_Reconcile
  BY <1>2, <1>3 DEF R_Cancel, R_Inspect, R_Reconcile
<1>4. CASE rpc' = TargetDone
  <2>1. rpc.todo # {Target} /\ rpc'.todo = rpc.todo \ {Target}
    BY <1>1, <1>4 DEF TargetDone, RpcIdle, RpcRecord
  <2>2. rpc'.snap = [rpc.snap EXCEPT ![Target] = AbsentSession]
    BY <1>1, <1>4, <2>1 DEF TargetDone, RpcRecord
  <2> QED BY <1>1, <2>1, <2>2 DEF RpcRecord
<1>5. CASE rpc'.todo = rpc.todo /\ rpc'.snap = rpc.snap
  BY <1>5
<1>6. CASE rpc' = RpcIdle
  BY <1>6 DEF RpcIdle
<1> QED BY <1>1, <1>3, <1>4, <1>5, <1>6
        DEF RpcStep, RpcRecord,
            R_Submit, R_SubmitAttempt, R_SubmitQueue, R_Retry, R_RetryAttempt,
            R_RetryRefused, R_RetryJob, R_RetryQueue, R_CancelMark,
            R_CancelByAdapter, R_CancelByScope, R_CancelFails, R_CancelSave,
            R_CancelRevert, R_MarkRead, R_MarkAttempt, R_MarkJobRead,
            R_MarkJob, R_MarkEmit, R_InspectGone, R_InspectReused,
            R_InspectNoChange, R_ReconcileCancelled, R_ReconcileGone,
            R_ReconcileNoChange, R_ReconcileRetryCancel,
            R_ReconcileRediscover, R_Rediscover, R_ReconcileReused

-----------------------------------------------------------------------------
(* Bindings: whatever the registry or a copy of it says, a session belongs *)
(* to the attempt whose process was started under its id.                  *)

RegistryBound ==
    \A s \in Sessions :
        /\ procs[s].attempt = NoAttempt <=> procs[s].state = "none"
        /\ sessions[s].state # "ABSENT"
              => sessions[s].attempt = procs[s].attempt

BindingInv ==
    /\ RegistryBound
    /\ \A s \in mon.todo : mon.snap[s].attempt = procs[s].attempt
    /\ \A s \in rpc.todo : rpc.snap[s].attempt = procs[s].attempt
    /\ disp.pc \in {"register", "bind"}
          => procs[disp.session].attempt = disp.cur

(* The process of a session in the registry or in a snapshot was started. *)
LEMMA BoundProcesses ==
    ASSUME TypesInv, BindingInv
    PROVE  /\ \A s \in Sessions :
                 sessions[s].state # "ABSENT"
                    => procs[s].attempt \in Attempts /\ procs[s].state # "none"
           /\ \A s \in mon.todo :
                 /\ procs[s].attempt \in Attempts
                 /\ procs[s].state # "none"
           /\ \A s \in rpc.todo :
                 /\ procs[s].attempt \in Attempts
                 /\ procs[s].state # "none"
<1>1. mon.todo \in SUBSET Sessions /\ rpc.todo \in SUBSET Sessions
  BY DEF TypesInv, MonitorOK, MonitorTypeOK, MonitorRecord, RpcOK, RpcTypeOK,
         RpcRecord
<1> QED BY <1>1, QueueAssumption
        DEF BindingInv, RegistryBound, TypesInv, SessionOK, MonitorOK, RpcOK,
            Bound

LEMMA BindingInit ==
    ASSUME Init
    PROVE  BindingInv
BY DEF Init, SessionInit, DispatchInit, MonitorInit, RpcInit, BindingInv,
       RegistryBound, NoProc, AbsentSession, MonitorIdle, RpcIdle, DispatchIdle

(* Nothing was registered, and the processes are those there were. *)
LEMMA SameRegistry ==
    ASSUME RegistryBound, ProcessesStay, sessions' = sessions
    PROVE  RegistryBound'
BY DEF RegistryBound, ProcessesStay

LEMMA BindingDispatcher ==
    ASSUME TypesInv, BindingInv, Dispatch
    PROVE  BindingInv'
<1>d. DispatcherStep /\ mon' = mon /\ rpc' = rpc
  BY DEF Dispatch, monitorVars, rpcVars
<1>t. /\ procs \in [Sessions -> ProcRecord]
      /\ sessions \in [Sessions -> SessionRecord]
      /\ disp \in DispatchRecord
      /\ mon.todo \in SUBSET Sessions /\ rpc.todo \in SUBSET Sessions
  BY DEF TypesInv, SessionOK, SessionTypeOK, DispatchOK, DispatchTypeOK,
         MonitorOK, MonitorTypeOK, MonitorRecord, RpcOK, RpcTypeOK, RpcRecord
<1>1. CASE D_Start
  <2>1. PICK s \in Sessions :
           /\ procs[s].state = "none"
           /\ procs' = [procs EXCEPT ![s].state = "alive",
                                     ![s].attempt = disp.cur]
           /\ disp' = [disp EXCEPT !.pc = "register", !.session = s]
    BY <1>1 DEF D_Start
  <2>2. /\ \A t \in Sessions : t # s => procs'[t] = procs[t]
        /\ procs'[s].state = "alive" /\ procs'[s].attempt = disp.cur
    BY <1>t, <2>1 DEF ProcRecord
  <2>3. disp.cur \in Attempts
    BY <1>1 DEF D_Start, TypesInv, DispatchOK
  <2>4. RegistryBound'
    <3>1. sessions' = sessions
      BY <1>1 DEF D_Start
    <3>2. sessions[s].state = "ABSENT"
      BY <2>1, BoundProcesses
    <3> QED BY <2>2, <2>3, <3>1, <3>2, QueueAssumption
            DEF BindingInv, RegistryBound
  <2>5. s \notin mon.todo /\ s \notin rpc.todo
    BY <2>1, BoundProcesses
  <2>6. procs'[disp'.session].attempt = disp'.cur
    BY <1>t, <2>1, <2>2 DEF DispatchRecord
  <2> QED BY <1>d, <1>t, <2>2, <2>4, <2>5, <2>6 DEF BindingInv
<1>2. CASE D_Register
  <2>1. procs' = procs /\ disp' = [disp EXCEPT !.pc = "bind"]
    BY <1>2 DEF D_Register
  <2>2. procs[disp.session].attempt = disp.cur
    BY <1>2 DEF D_Register, BindingInv
  <2>3. \A s \in Sessions :
           \/ sessions'[s] = sessions[s]
           \/ s = disp.session /\ sessions'[s].attempt = disp.cur
    BY <1>2, <1>t DEF D_Register, SaveSession
  <2>4. RegistryBound'
    BY <2>1, <2>2, <2>3 DEF BindingInv, RegistryBound
  <2> QED BY <1>d, <1>t, <2>1, <2>2, <2>4 DEF BindingInv, DispatchRecord
<1>3. CASE ~D_Start /\ ~D_Register
  <2>1. procs' = procs /\ sessions' = sessions
    BY <1>d, <1>3, DispatcherProcesses, DispatcherSessions
  <2>2. RegistryBound'
    BY <2>1 DEF BindingInv, RegistryBound
  <2>3. disp'.pc \notin {"register", "bind"}
    <3>1. \A Q : NextEntry(Q).pc \notin {"register", "bind"}
      BY DEF NextEntry, DispatchIdle
    <3>2. CASE \E Q : disp' = NextEntry(Q)
      BY <3>1, <3>2
    <3>3. CASE D_MayStart \/ D_Claim \/ D_Load \/ D_Hold \/ D_Worktree
      BY <1>t, <3>3 DEF D_MayStart, D_Claim, D_Load, D_Hold, D_Worktree,
                        DispatchRecord
    <3>4. CASE D_WorktreeFails \/ D_Run \/ D_StartFails \/ D_Bind \/ D_Fail
      BY <1>t, <3>4 DEF D_WorktreeFails, D_Run, D_StartFails, D_Bind, D_Fail,
                        DispatchRecord
    <3>5. CASE D_RepoUnavailable
      BY <3>5 DEF D_RepoUnavailable, DispatchIdle
    <3> QED BY <1>d, <1>3, <3>2, <3>3, <3>4, <3>5
            DEF DispatcherStep, D_Pass, D_Skip, D_ClaimRefused, D_NotClaimed,
                D_HoldRelease, D_JobRun, D_FailJob
  <2> QED BY <1>d, <2>1, <2>2, <2>3 DEF BindingInv
<1> QED BY <1>1, <1>2, <1>3

LEMMA BindingStep ==
    ASSUME TypesInv, BindingInv, [Next]_vars
    PROVE  BindingInv'
<1>t. mon.todo \in SUBSET Sessions /\ rpc.todo \in SUBSET Sessions
  BY DEF TypesInv, MonitorOK, MonitorTypeOK, MonitorRecord, RpcOK, RpcTypeOK,
         RpcRecord
(* The dispatcher did not move. *)
<1>d. ASSUME ProcessesStay, disp' = disp
      PROVE  disp'.pc \in {"register", "bind"}
                => procs'[disp'.session].attempt = disp'.cur
  <2>1. disp.pc \in {"register", "bind"} => disp.session \in Sessions
    BY DEF TypesInv, DispatchOK
  <2> QED BY <1>d, <2>1 DEF BindingInv, ProcessesStay
<1>1. CASE Dispatch
  BY <1>1, BindingDispatcher
<1>2. CASE Observe
  <2>1. MonitorStep /\ disp' = disp /\ rpc' = rpc
    BY <1>2 DEF Observe, dispatchVars, rpcVars
  <2>2. ProcessesStay
    BY <2>1, MonitorProcesses DEF TypesInv
  <2>3. ASSUME NEW s \in Sessions
        PROVE  \/ sessions'[s] = sessions[s]
               \/ /\ sessions'[s].attempt = procs[s].attempt
                  /\ s \in mon.todo
    <3>1. mon.pc # "idle" =>
             Cur \in mon.todo /\ CurAttempt = procs[Cur].attempt
      BY CurrentSession DEF TypesInv, BindingInv, CurAttempt
    <3> QED BY <2>1, <3>1, MonitorSessions DEF TypesInv
  <2>4. RegistryBound'
    BY <2>2, <2>3, BoundProcesses
       DEF BindingInv, RegistryBound, ProcessesStay
  <2>5. ASSUME NEW s \in mon'.todo
        PROVE  s \in Sessions /\ mon'.snap[s].attempt = procs'[s].attempt
    <3>1. mon'.todo \in SUBSET Sessions
      BY <2>1, MonitorTypes
         DEF TypesInv, MonitorOK, MonitorTypeOK, MonitorRecord
    <3>2. mon'.snap[s].attempt = procs[s].attempt
      BY <2>1, <3>1, MonitorSnapshot DEF TypesInv, BindingInv, RegistryBound
    <3> QED BY <2>2, <3>1, <3>2 DEF ProcessesStay
  <2> QED BY <1>t, <1>d, <2>1, <2>2, <2>4, <2>5
          DEF BindingInv, ProcessesStay
<1>3. CASE Serve
  <2>1. RpcStep /\ disp' = disp /\ mon' = mon
    BY <1>3 DEF Serve, dispatchVars, monitorVars
  <2>2. ProcessesStay
    BY <2>1, RpcProcesses DEF TypesInv
  <2>3. ASSUME NEW s \in Sessions
        PROVE  \/ sessions'[s] = sessions[s]
               \/ /\ sessions'[s].attempt = procs[s].attempt
                  /\ s \in rpc.todo
    <3>1. rpc.pc \in ControlPCs =>
             Target \in rpc.todo /\ TargetAttempt = procs[Target].attempt
      BY TargetBound DEF TypesInv, BindingInv, TargetAttempt
    <3> QED BY <2>1, <3>1, RpcSessions DEF TypesInv
  <2>4. RegistryBound'
    BY <2>2, <2>3, BoundProcesses
       DEF BindingInv, RegistryBound, ProcessesStay
  <2>5. ASSUME NEW s \in rpc'.todo
        PROVE  s \in Sessions /\ rpc'.snap[s].attempt = procs'[s].attempt
    <3>1. rpc'.todo \in SUBSET Sessions
      BY <2>1, RpcTypes DEF TypesInv, RpcOK, RpcTypeOK, RpcRecord
    <3>2. rpc'.snap[s].attempt = procs[s].attempt
      BY <2>1, <3>1, RpcSnapshot DEF TypesInv, BindingInv, RegistryBound
    <3> QED BY <2>2, <3>1, <3>2 DEF ProcessesStay
  <2> QED BY <1>t, <1>d, <2>1, <2>2, <2>4, <2>5
          DEF BindingInv, ProcessesStay
<1>4. CASE Environment
  <2>1. /\ sessions' = sessions /\ disp' = disp /\ mon' = mon /\ rpc' = rpc
    BY <1>4 DEF Environment, ProcessExits, Reaped, PidTakenAgain,
                DeadlinePasses, LeaseExpires, HoldElapses, sessionVars,
                dispatchVars, monitorVars, rpcVars
  <2>2. ProcessesStay
    BY <1>4, EnvironmentProcesses DEF TypesInv
  <2>3. RegistryBound'
    BY <2>1, <2>2, SameRegistry DEF BindingInv
  <2> QED BY <1>t, <1>d, <2>1, <2>2, <2>3 DEF BindingInv, ProcessesStay
<1>5. CASE CrashRestart
  <2>1. /\ sessions' = sessions /\ procs' = procs /\ mon'.todo = {}
        /\ rpc'.todo = {} /\ disp'.pc = "idle"
    BY <1>5 DEF CrashRestart, MonitorIdle, RpcIdle, DispatchIdle
  <2> QED BY <2>1 DEF BindingInv, RegistryBound
<1>6. CASE UNCHANGED vars
  <2>1. /\ sessions' = sessions /\ procs' = procs /\ mon' = mon /\ rpc' = rpc
        /\ disp' = disp
    BY <1>6 DEF vars, sessionVars, dispatchVars, monitorVars, rpcVars
  <2> QED BY <2>1 DEF BindingInv, RegistryBound
<1> QED BY <1>1, <1>2, <1>3, <1>4, <1>5, <1>6 DEF Next

-----------------------------------------------------------------------------
(* What the threads save in the queue, attempt by attempt.                 *)

LEMMA MonitorAttempts ==
    ASSUME QueueOK, MonitorOK, MonitorStep, NEW a \in Attempts
    PROVE  \/ attempts'[a] = attempts[a]
           \/ /\ a = CurAttempt /\ mon.pc \in {"ended", "attempt"}
              /\ attempts'[a].job = mon.att.job
              /\ attempts'[a].state = IF mon.pc = "ended"
                                      THEN EndedAs(CurSession.state)
                                      ELSE mon.out.attempt
<1>1. attempts \in [Attempts -> AttemptRecord] /\ mon.att \in AttemptRecord
  BY DEF QueueOK, QueueTypeOK, MonitorOK, MonitorTypeOK, MonitorRecord
<1>2. CASE M_EndedAttempt
  <2>1. SaveAttempt(CurAttempt,
                    [mon.att EXCEPT !.state = EndedAs(CurSession.state)])
    BY <1>2 DEF M_EndedAttempt
  <2> QED BY <1>1, <1>2, <2>1 DEF M_EndedAttempt, SaveAttempt, AttemptRecord
<1>3. CASE M_FinalAttempt
  BY <1>1, <1>3 DEF M_FinalAttempt, SaveAttempt, AttemptRecord
<1>4. CASE attempts' = attempts
  BY <1>4
<1> QED BY <1>2, <1>3, <1>4
        DEF MonitorStep, queueVars, M_Poll, M_SkipFinished, M_SessionEnded,
            M_Gone, M_Overdue, M_Running, M_Observe, M_Kill, M_AlreadyEmitted,
            M_FinalSession, M_ReadJob, M_WriteJob, M_Emit

LEMMA RpcAttempts ==
    ASSUME QueueOK, RpcOK, RpcStep, NEW a \in Attempts
    PROVE  \/ attempts'[a] = attempts[a]
           \/ /\ a = TargetAttempt /\ rpc.pc = "markAttempt"
              /\ attempts'[a].job = rpc.att.job
              /\ attempts'[a].state = rpc.to
           \/ /\ a = rpc.aid /\ rpc.pc = "submitAttempt"
              /\ attempts'[a] = NewAttempt(rpc.jid)
           \/ /\ rpc.pc = "retryAttempt" /\ a \in RetryIds(rpc.job)
              /\ attempts'[a] = NewAttempt(rpc.jid)
           \/ /\ a = rpc.aid /\ rpc.pc \in {"submitQueue", "retryQueue"}
              /\ attempts'[a].job = rpc.att.job
              /\ attempts'[a].state = "QUEUED"
<1>1. attempts \in [Attempts -> AttemptRecord] /\ rpc.att \in AttemptRecord
  BY DEF QueueOK, QueueTypeOK, RpcOK, RpcTypeOK, RpcRecord
<1>2. CASE R_MarkAttempt
  BY <1>1, <1>2 DEF R_MarkAttempt, SaveAttempt, AttemptRecord
<1>3. CASE R_SubmitAttempt \/ R_RetryAttempt
  BY <1>1, <1>3 DEF R_SubmitAttempt, R_RetryAttempt, SaveAttempt
<1>4. CASE R_SubmitQueue \/ R_RetryQueue
  BY <1>1, <1>4 DEF R_SubmitQueue, R_RetryQueue, SaveAttempt, AttemptRecord
<1>5. CASE attempts' = attempts
  BY <1>5
<1> QED BY <1>2, <1>3, <1>4, <1>5
        DEF RpcStep, queueVars, StartControl,
            R_Submit, R_Retry, R_RetryRefused, R_RetryJob, R_Cancel,
            R_CancelMark, R_CancelByAdapter, R_CancelByScope, R_CancelFails,
            R_CancelSave, R_CancelRevert, R_MarkRead, R_MarkJobRead, R_MarkJob,
            R_MarkEmit, R_Inspect, R_InspectGone, R_InspectReused,
            R_InspectNoChange, R_Reconcile, R_ReconcileCancelled,
            R_ReconcileGone, R_ReconcileNoChange, R_ReconcileRetryCancel,
            R_ReconcileRediscover, R_Rediscover, R_ReconcileReused

LEMMA DispatcherAttempts ==
    ASSUME QueueOK, DispatchOK, DispatcherStep, NEW a \in Attempts
    PROVE  \/ attempts'[a] = attempts[a]
           \/ /\ D_Pass
              /\ attempts[a].state = "CLAIMED" /\ attempts'[a].state = "QUEUED"
              /\ attempts'[a].job = attempts[a].job
           \/ /\ D_Claim /\ a = HeadOf(disp.queue).id
              /\ attempts[a].state = "QUEUED" /\ attempts'[a].state = "CLAIMED"
              /\ attempts'[a].job = attempts[a].job
           \/ /\ D_HoldRelease /\ a = disp.cur
              /\ attempts[a].state = "CLAIMED" /\ attempts'[a].state = "QUEUED"
              /\ attempts'[a].job = attempts[a].job
           \/ /\ a = disp.cur
              /\ D_Hold \/ D_Run \/ D_Bind \/ D_Fail
              /\ attempts'[a].job = disp.att.job
              /\ attempts'[a].state = IF D_Run THEN "RUNNING"
                                      ELSE IF D_Fail THEN "FAILED"
                                      ELSE disp.att.state
<1>1. attempts \in [Attempts -> AttemptRecord] /\ disp.att \in AttemptRecord
  BY DEF QueueOK, QueueTypeOK, DispatchOK, DispatchTypeOK, DispatchRecord
<1>2. CASE D_Pass
  <2>1. attempts'[a] = IF attempts[a].state = "CLAIMED" /\ attempts[a].expired
                       THEN Released(attempts[a]) ELSE attempts[a]
    BY <1>2 DEF D_Pass, Recovered
  <2> QED BY <1>1, <1>2, <2>1 DEF Released, AttemptRecord
<1>3. CASE D_Claim
  <2> DEFINE b == HeadOf(disp.queue).id
  <2>1. /\ attempts[b].state = "QUEUED"
        /\ attempts' = [attempts EXCEPT
              ![b] = [attempts[b] EXCEPT !.state = "CLAIMED",
                                         !.expired = FALSE]]
    BY <1>3 DEF D_Claim, Claimable, SaveAttempt
  <2>2. CASE a # b
    BY <1>1, <2>1, <2>2
  <2>3. CASE a = b
    <3>1. attempts'[a] = [attempts[a] EXCEPT !.state = "CLAIMED",
                                             !.expired = FALSE]
      BY <1>1, <2>1, <2>3
    <3> QED BY <1>1, <1>3, <2>1, <2>3, <3>1 DEF AttemptRecord
  <2> QED BY <2>2, <2>3
<1>4. CASE D_HoldRelease
  <2>1. CASE attempts[disp.cur].state = "CLAIMED" /\ a = disp.cur
    <3>1. attempts' = [attempts EXCEPT ![disp.cur]
        = Released(attempts[disp.cur])]
      BY <1>4, <2>1 DEF D_HoldRelease, SaveAttempt
    <3>2. attempts'[a] = Released(attempts[a])
      BY <1>1, <2>1, <3>1
    <3> QED BY <1>1, <1>4, <2>1, <3>2 DEF Released, AttemptRecord
  <2>2. CASE attempts[disp.cur].state # "CLAIMED" \/ a # disp.cur
    BY <1>1, <1>4, <2>2 DEF D_HoldRelease, SaveAttempt
  <2> QED BY <2>1, <2>2
<1>5. CASE D_Hold
  <2>1. ~D_Run /\ ~D_Fail
    BY <1>5 DEF D_Hold, D_Run, D_Fail
  <2> QED BY <1>1, <1>5, <2>1 DEF D_Hold, SaveAttempt, AttemptRecord
<1>6. CASE D_Bind
  <2>1. ~D_Run /\ ~D_Fail
    BY <1>6 DEF D_Bind, D_Run, D_Fail
  <2> QED BY <1>1, <1>6, <2>1 DEF D_Bind, SaveAttempt, AttemptRecord
<1>7. CASE D_Run
  <2>1. disp'.att = [disp.att EXCEPT !.state = "RUNNING"]
    BY <1>7 DEF D_Run, DispatchOK, DispatchTypeOK, DispatchRecord
  <2>2. attempts' = [attempts EXCEPT ![disp.cur] = disp'.att]
    BY <1>7 DEF D_Run, SaveAttempt
  <2> QED BY <1>1, <1>7, <2>1, <2>2 DEF AttemptRecord
<1>8. CASE D_Fail
  <2>1. ~D_Run
    BY <1>8 DEF D_Run, D_Fail
  <2> QED BY <1>1, <1>8, <2>1 DEF D_Fail, SaveAttempt, AttemptRecord
<1>9. CASE attempts' = attempts
  BY <1>9
<1> QED BY <1>2, <1>3, <1>4, <1>5, <1>6, <1>7, <1>8, <1>9
        DEF DispatcherStep, queueVars, D_Skip, D_MayStart, D_ClaimRefused,
            D_Load, D_NotClaimed, D_RepoUnavailable, D_Worktree,
            D_WorktreeFails, D_StartFails, D_Start, D_Register, D_JobRun,
            D_FailJob

LEMMA EnvironmentAttempts ==
    ASSUME QueueOK, Environment, NEW a \in Attempts
    PROVE  /\ attempts'[a].state = attempts[a].state
           /\ attempts'[a].job = attempts[a].job
<1>1. attempts \in [Attempts -> AttemptRecord]
  BY DEF QueueOK, QueueTypeOK
<1>2. ASSUME NEW b \in Attempts, LeaseExpires(b) \/ HoldElapses(b)
      PROVE  /\ attempts'[a].state = attempts[a].state
             /\ attempts'[a].job = attempts[a].job
  BY <1>1, <1>2 DEF LeaseExpires, HoldElapses, SaveAttempt, AttemptRecord
<1>3. CASE attempts' = attempts
  BY <1>3
<1> QED BY <1>2, <1>3
        DEF Environment, queueVars, ProcessExits, Reaped, PidTakenAgain,
            DeadlinePasses

-----------------------------------------------------------------------------
(* One start: an attempt gets at most one process, and from the save of    *)
(* RUNNING before the start it is never QUEUED or CLAIMED again.  It needs *)
(* callers of retry that name unused attempts: a default name may be the   *)
(* attempt of another job, which is then created anew.                     *)

Started(a) == \E s \in Sessions : procs[s].attempt = a

OnceStarted == {"RUNNING"} \cup TerminalAttemptStates

(* The claim in flight is still in the store, and nothing was started for  *)
(* it yet, as long as the dispatcher may give it back, start it or fail it.*)
ClaimInFlight ==
    /\ disp.pc \in {"load", "admit", "holdRelease", "run"}
          => attempts[disp.cur].state = "CLAIMED"
    /\ disp.pc = "start" => attempts[disp.cur].state = "RUNNING"
    /\ disp.pc = "fail" => attempts[disp.cur].state \in {"CLAIMED", "RUNNING"}
    /\ disp.pc \in {"start", "fail"} => ~Started(disp.cur)

CopyOfClaim ==
    /\ disp.pc \in {"admit", "run"} => disp.att.state = "CLAIMED"
    /\ disp.pc \in {"start", "register", "bind"} => disp.att.state = "RUNNING"

NewAttempts ==
    /\ rpc.pc = "submitAttempt" => attempts[rpc.aid].state = "ABSENT"
    /\ rpc.pc \in {"submitQueue", "retryJob", "retryQueue"}
          => attempts[rpc.aid].state = "CREATED"

StartInv ==
    /\ \A s, t \in Sessions :
          procs[s].attempt = procs[t].attempt /\ procs[s].attempt # NoAttempt
             => s = t
    /\ \A a \in Attempts : Started(a) => attempts[a].state \in OnceStarted
    /\ ClaimInFlight
    /\ CopyOfClaim
    /\ NewAttempts

LEMMA StartInit ==
    ASSUME Init
    PROVE  StartInv
BY QueueAssumption
   DEF Init, QueueInit, SessionInit, DispatchInit, RpcInit, StartInv,
       ClaimInFlight, CopyOfClaim, NewAttempts, Started, NoProc, DispatchIdle,
       RpcIdle

LEMMA StartedStay ==
    ASSUME ProcessesStay
    PROVE  \A a : Started(a)' <=> Started(a)
BY DEF ProcessesStay, Started

(* What the dispatcher relies on while it does not move: nobody else       *)
(* changes the state of an attempt that is neither new nor started.        *)
LEMMA StartKept ==
    ASSUME TypesInv, StartInv, ProcessesStay, disp' = disp, NewAttempts',
           \A a \in Attempts :
              /\ Started(a) => attempts'[a].state \in OnceStarted
              /\ ~Started(a) /\ attempts[a].state \notin {"ABSENT", "CREATED"}
                    => attempts'[a].state = attempts[a].state
    PROVE  StartInv'
<1>1. \A a : Started(a)' <=> Started(a)
  BY StartedStay
<1>2. disp.pc \notin {"idle", "examine", "claim"} => disp.cur \in Attempts
  BY DEF TypesInv, DispatchOK
<1>3. ClaimInFlight'
  <2>1. disp.pc \in {"load", "admit", "holdRelease", "run", "start", "fail"}
           => attempts'[disp.cur].state = attempts[disp.cur].state
    BY <1>2 DEF StartInv, ClaimInFlight, OnceStarted, TerminalAttemptStates
  <2> QED BY <1>1, <2>1 DEF StartInv, ClaimInFlight
<1>4. CopyOfClaim'
  BY DEF StartInv, CopyOfClaim
<1> QED BY <1>1, <1>3, <1>4 DEF StartInv, ProcessesStay

(* The dispatcher leaves new attempts alone, and started ones as good as.  *)
LEMMA DispatcherLeaves ==
    ASSUME TypesInv, BindingInv, StartInv, DispatcherStep, NEW a \in Attempts
    PROVE  /\ attempts[a].state \in {"ABSENT", "CREATED"}
                 => attempts'[a] = attempts[a]
           /\ Started(a) => attempts'[a].state \in OnceStarted
<1>1. CASE attempts'[a] = attempts[a]
  BY <1>1 DEF StartInv
<1>2. CASE attempts[a].state \in {"CLAIMED", "QUEUED"}
  BY <1>2 DEF StartInv, OnceStarted, TerminalAttemptStates
<1>3. CASE a = disp.cur /\ (D_Hold \/ D_Run)
  <2>1. attempts[a].state = "CLAIMED"
    BY <1>3 DEF D_Hold, D_Run, StartInv, ClaimInFlight
  <2> QED BY <1>2, <2>1
<1>4. CASE a = disp.cur /\ D_Fail
  <2>1. attempts[a].state \in {"CLAIMED", "RUNNING"} /\ ~Started(a)
    BY <1>4 DEF D_Fail, StartInv, ClaimInFlight
  <2> QED BY <2>1
<1>5. CASE a = disp.cur /\ D_Bind
  <2>1. /\ procs[disp.session].attempt = a /\ disp.att.state = "RUNNING"
        /\ disp.session \in Sessions
    BY <1>5 DEF D_Bind, TypesInv, DispatchOK, BindingInv, StartInv, CopyOfClaim
  <2>2. attempts[a].state \in OnceStarted
    BY <2>1 DEF StartInv, Started
  <2>3. attempts'[a].state = "RUNNING" \/ attempts'[a] = attempts[a]
    <3>1. ~D_Pass /\ ~D_Claim /\ ~D_HoldRelease /\ ~D_Run /\ ~D_Fail
      BY <1>5 DEF D_Bind, D_Pass, D_Claim, D_HoldRelease, D_Run, D_Fail
    <3> QED BY <2>1, <3>1, DispatcherAttempts DEF TypesInv
  <2> QED BY <2>2, <2>3 DEF OnceStarted, TerminalAttemptStates
<1> QED BY <1>1, <1>2, <1>3, <1>4, <1>5, DispatcherAttempts DEF TypesInv

LEMMA StartDispatcher ==
    ASSUME TypesInv, BindingInv, StartInv, Dispatch
    PROVE  StartInv'
<1>d. DispatcherStep /\ rpc' = rpc
  BY DEF Dispatch, rpcVars
<1>t. /\ disp \in DispatchRecord
      /\ procs \in [Sessions -> ProcRecord]
      /\ disp.pc \notin {"idle", "examine", "claim"} => disp.cur \in Attempts
  BY DEF TypesInv, DispatchOK, DispatchTypeOK, SessionOK, SessionTypeOK
<1>n. NewAttempts'
  <2>1. rpc.pc \in {"submitAttempt", "submitQueue", "retryJob", "retryQueue"}
           => rpc.aid \in Attempts
    BY DEF TypesInv, RpcOK
  <2> QED BY <1>d, <2>1, DispatcherLeaves DEF StartInv, NewAttempts
(* Every step but a start: the rest is what becomes of the claim. *)
<1>r. ASSUME procs' = procs, ClaimInFlight', CopyOfClaim'
      PROVE  StartInv'
  <2>1. \A a : Started(a)' <=> Started(a)
    BY <1>r, SameProcesses, StartedStay
  <2> QED BY <1>d, <1>n, <1>r, <2>1, DispatcherLeaves DEF StartInv
<1>l. ASSUME NEW Q, disp' = NextEntry(Q)
      PROVE  ClaimInFlight' /\ CopyOfClaim'
  BY <1>l DEF NextEntry, DispatchIdle, ClaimInFlight, CopyOfClaim
<1>s. ASSUME NEW rec, SaveAttempt(disp.cur, rec), disp.cur \in Attempts
      PROVE  attempts'[disp.cur] = rec
  BY <1>s DEF SaveAttempt, TypesInv, QueueOK, QueueTypeOK
<1>1. CASE D_Pass
  BY <1>1, <1>l, <1>r DEF D_Pass, sessionVars
<1>2. CASE D_Skip \/ D_ClaimRefused \/ D_NotClaimed
  BY <1>2, <1>l, <1>r DEF D_Skip, D_ClaimRefused, D_NotClaimed, sessionVars
<1>3. CASE D_MayStart
  BY <1>3, <1>r, <1>t
     DEF D_MayStart, sessionVars, DispatchRecord, ClaimInFlight, CopyOfClaim
<1>4. CASE D_Claim
  <2> DEFINE a == HeadOf(disp.queue).id
  <2>1. /\ disp'.pc = "load" /\ disp'.cur = a
        /\ SaveAttempt(a, [attempts[a] EXCEPT !.state = "CLAIMED",
                                              !.expired = FALSE])
        /\ procs' = procs
    BY <1>4, <1>t DEF D_Claim, DispatchRecord, sessionVars
  <2>2. a \in Attempts
    <3>1. HeadOf(disp.queue) \in disp.queue
      BY <1>4, <1>t, HeadIn DEF D_Claim, TypesInv, DispatchOK, DispatchRecord
    <3> QED BY <1>t, <3>1 DEF DispatchRecord, QueueEntry
  <2> HIDE DEF a
  <2>3. attempts'[a].state = "CLAIMED"
    BY <2>1, <2>2 DEF SaveAttempt, TypesInv, QueueOK, QueueTypeOK,
                      AttemptRecord
  <2> QED BY <1>r, <2>1, <2>3 DEF ClaimInFlight, CopyOfClaim
<1>5. CASE D_Load
  <2>1. /\ disp'.pc = "admit" /\ disp'.cur = disp.cur
        /\ disp'.att = attempts[disp.cur] /\ attempts' = attempts
        /\ procs' = procs /\ attempts[disp.cur].state = "CLAIMED"
    BY <1>5, <1>t DEF D_Load, DispatchRecord, queueVars, sessionVars
  <2> QED BY <1>r, <2>1 DEF ClaimInFlight, CopyOfClaim
<1>6. CASE D_Hold
  <2>1. /\ disp'.pc = "holdRelease" /\ disp'.cur = disp.cur
        /\ procs' = procs /\ disp.cur \in Attempts
        /\ disp.att.state = "CLAIMED" /\ disp.att \in AttemptRecord
    BY <1>6, <1>t DEF D_Hold, DispatchRecord, sessionVars, StartInv,
                      CopyOfClaim
  <2>2. attempts'[disp.cur].state = "CLAIMED"
    BY <1>6, <1>s, <2>1 DEF D_Hold, AttemptRecord
  <2> QED BY <1>r, <2>1, <2>2 DEF ClaimInFlight, CopyOfClaim
<1>7. CASE D_HoldRelease
  BY <1>7, <1>l, <1>r DEF D_HoldRelease, sessionVars
<1>8. CASE D_RepoUnavailable
  BY <1>8, <1>r
     DEF D_RepoUnavailable, sessionVars, DispatchIdle, ClaimInFlight,
         CopyOfClaim
<1>9. CASE D_Worktree
  <2>1. /\ disp'.pc = "run" /\ disp'.cur = disp.cur /\ disp'.att = disp.att
        /\ procs' = procs /\ attempts' = attempts
    BY <1>9, <1>t DEF D_Worktree, DispatchRecord, sessionVars, queueVars
  <2> QED BY <1>9, <1>r, <2>1
          DEF D_Worktree, StartInv, ClaimInFlight, CopyOfClaim
<1>10. CASE D_WorktreeFails
  <2>1. /\ disp'.pc = "fail" /\ disp'.cur = disp.cur
        /\ procs' = procs /\ attempts' = attempts /\ disp.cur \in Attempts
    BY <1>10, <1>t DEF D_WorktreeFails, DispatchRecord, sessionVars, queueVars
  <2>2. attempts[disp.cur].state = "CLAIMED"
    BY <1>10 DEF D_WorktreeFails, StartInv, ClaimInFlight
  <2>3. ~Started(disp.cur)
    BY <2>1, <2>2 DEF StartInv, OnceStarted, TerminalAttemptStates
  <2>4. ~Started(disp.cur)'
    BY <2>1, <2>3 DEF Started
  <2> QED BY <1>r, <2>1, <2>2, <2>4 DEF ClaimInFlight, CopyOfClaim, Started
<1>11. CASE D_Run
  <2>1. /\ disp'.pc = "start" /\ disp'.cur = disp.cur
        /\ disp'.att = [disp.att EXCEPT !.state = "RUNNING"]
        /\ procs' = procs /\ disp.cur \in Attempts
    BY <1>11, <1>t DEF D_Run, DispatchRecord, sessionVars
  <2>2. disp'.att.state = "RUNNING" /\ attempts'[disp.cur].state = "RUNNING"
    BY <1>11, <1>s, <1>t, <2>1 DEF D_Run, DispatchRecord, AttemptRecord
  <2>3. ~Started(disp.cur)
    BY <1>11, <2>1
       DEF D_Run, StartInv, ClaimInFlight, OnceStarted, TerminalAttemptStates
  <2> QED BY <1>r, <2>1, <2>2, <2>3 DEF ClaimInFlight, CopyOfClaim, Started
<1>12. CASE D_StartFails
  <2>1. /\ disp'.pc = "fail" /\ disp'.cur = disp.cur
        /\ procs' = procs /\ attempts' = attempts
    BY <1>12, <1>t DEF D_StartFails, DispatchRecord, sessionVars, queueVars
  <2> QED BY <1>12, <1>r, <2>1
          DEF D_StartFails, StartInv, ClaimInFlight, CopyOfClaim, Started
<1>13. CASE D_Start
  <2>1. PICK s \in Sessions :
           /\ procs[s].state = "none"
           /\ procs' = [procs EXCEPT ![s].state = "alive",
                                     ![s].attempt = disp.cur]
           /\ disp' = [disp EXCEPT !.pc = "register", !.session = s]
    BY <1>13 DEF D_Start
  <2>2. /\ \A t \in Sessions : t # s => procs'[t] = procs[t]
        /\ procs'[s].attempt = disp.cur
    BY <1>t, <2>1 DEF ProcRecord
  <2>3. /\ disp'.pc = "register" /\ disp'.att = disp.att
        /\ attempts' = attempts
    BY <1>13, <1>t, <2>1 DEF D_Start, DispatchRecord, queueVars
  <2>4. /\ ~Started(disp.cur) /\ disp.att.state = "RUNNING"
        /\ attempts[disp.cur].state = "RUNNING"
    BY <1>13 DEF D_Start, StartInv, ClaimInFlight, CopyOfClaim
  <2>5. \A a : Started(a)' => Started(a) \/ a = disp.cur
    BY <2>2 DEF Started
  <2>6. \A t, u \in Sessions :
           procs'[t].attempt = procs'[u].attempt
               /\ procs'[t].attempt # NoAttempt
              => t = u
    BY <2>2, <2>4 DEF StartInv, Started
  <2>7. ClaimInFlight' /\ CopyOfClaim'
    BY <2>3, <2>4 DEF ClaimInFlight, CopyOfClaim
  <2>8. \A a \in Attempts : Started(a)' => attempts'[a].state \in OnceStarted
    BY <2>3, <2>4, <2>5 DEF StartInv, OnceStarted
  <2> QED BY <1>n, <2>6, <2>7, <2>8 DEF StartInv
<1>14. CASE D_Register
  <2>1. /\ disp'.pc = "bind" /\ disp'.att = disp.att /\ procs' = procs
    BY <1>14, <1>t DEF D_Register, DispatchRecord
  <2> QED BY <1>14, <1>r, <2>1
          DEF D_Register, StartInv, ClaimInFlight, CopyOfClaim
<1>15. CASE D_Bind \/ D_Fail
  <2>1. disp'.pc \in {"jobRun", "failJob"} /\ procs' = procs
    BY <1>15, <1>t DEF D_Bind, D_Fail, DispatchRecord, sessionVars
  <2> QED BY <1>r, <2>1 DEF ClaimInFlight, CopyOfClaim
<1>16. CASE D_JobRun \/ D_FailJob
  BY <1>16, <1>l, <1>r DEF D_JobRun, D_FailJob, sessionVars
<1> QED
  BY <1>d, <1>1, <1>2, <1>3, <1>4, <1>5, <1>6, <1>7, <1>8, <1>9, <1>10,
     <1>11, <1>12, <1>13, <1>14, <1>15, <1>16
     DEF DispatcherStep

(* A request is over, or reconcile goes on. *)
LEMMA TargetDonePC ==
    ASSUME rpc \in RpcRecord
    PROVE  TargetDone.pc \in {"idle", "reconcile"}
<1>1. CASE rpc.todo = {Target}
  BY <1>1 DEF TargetDone, RpcIdle
<1>2. CASE rpc.todo # {Target}
  BY <1>2 DEF TargetDone, RpcRecord
<1> QED BY <1>1, <1>2

LEMMA StartServe ==
    ASSUME FreshRetryIds, TypesInv, BindingInv, StartInv, Serve
    PROVE  StartInv'
<1>r. RpcStep /\ disp' = disp
  BY DEF Serve, dispatchVars
<1>t. /\ rpc \in RpcRecord /\ RpcOK
      /\ attempts \in [Attempts -> AttemptRecord]
  BY DEF TypesInv, RpcOK, RpcTypeOK, QueueOK, QueueTypeOK
<1>p. ProcessesStay
  BY <1>r, RpcProcesses DEF TypesInv
<1>1. \A j : NewAttempt(j).state = "CREATED"
  BY DEF NewAttempt, AbsentAttempt
<1>m. rpc.pc = "markAttempt" => Started(TargetAttempt)
  <2>1. rpc.pc = "markAttempt" => rpc.pc \in ControlPCs
    BY DEF ControlPCs, RpcPCs
  <2>2. rpc.pc = "markAttempt" => Target \in rpc.todo /\ Target \in Sessions
    BY <1>t, <2>1, TargetBound
  <2> QED BY <2>2 DEF BindingInv, TargetAttempt, Started
<1>2. ASSUME NEW a \in Attempts
      PROVE  /\ Started(a) => attempts'[a].state \in OnceStarted
             /\ ~Started(a) /\ attempts[a].state \notin {"ABSENT", "CREATED"}
                   => attempts'[a].state = attempts[a].state
  <2>1. CASE attempts'[a] = attempts[a]
    BY <2>1 DEF StartInv
  <2>2. CASE rpc.pc = "markAttempt" /\ a = TargetAttempt
             /\ attempts'[a].state = rpc.to
    BY <1>t, <1>m, <2>2 DEF RpcRecord, OnceStarted
  <2>3. CASE attempts[a].state \in {"ABSENT", "CREATED"}
    BY <2>3 DEF StartInv, OnceStarted, TerminalAttemptStates
  <2>4. /\ a = rpc.aid /\ rpc.pc \in {"submitAttempt", "submitQueue",
                              "retryQueue"}
              => attempts[a].state \in {"ABSENT", "CREATED"}
        /\ a \in RetryIds(rpc.job) => attempts[a].state = "ABSENT"
    BY DEF StartInv, NewAttempts, RetryIds
  <2> QED BY <1>r, <1>t, <2>1, <2>2, <2>3, <2>4, RpcAttempts DEF TypesInv
<1>3. NewAttempts'
  <2>1. CASE R_Submit
    <3>1. PICK a \in Attempts :
             /\ attempts[a].state = "ABSENT"
             /\ \E j : rpc' = [rpc EXCEPT !.pc = "submitAttempt", !.jid = j,
                                          !.aid = a]
      BY <2>1 DEF R_Submit
    <3>2. rpc'.pc = "submitAttempt" /\ rpc'.aid = a /\ attempts' = attempts
      BY <1>t, <2>1, <3>1 DEF R_Submit, RpcRecord
    <3> QED BY <3>1, <3>2 DEF NewAttempts
  <2>2. CASE R_SubmitAttempt
    <3>1. /\ rpc'.pc = "submitQueue" /\ rpc'.aid = rpc.aid
          /\ attempts'[rpc.aid] = NewAttempt(rpc.jid)
      BY <1>t, <2>2 DEF R_SubmitAttempt, RpcRecord, RpcOK, SaveAttempt
    <3> QED BY <1>1, <3>1 DEF NewAttempts
  <2>3. CASE R_RetryAttempt
    <3>1. PICK a \in RetryIds(rpc.job) :
             /\ SaveAttempt(a, NewAttempt(rpc.jid))
             /\ rpc' = [rpc EXCEPT !.pc = "retryJob", !.aid = a,
                                   !.att = NewAttempt(rpc.jid)]
      BY <2>3 DEF R_RetryAttempt
    <3>2. rpc'.pc = "retryJob" /\ rpc'.aid = a
      BY <1>t, <3>1 DEF RpcRecord
    <3>3. attempts'[a] = NewAttempt(rpc.jid)
      BY <1>t, <3>1 DEF SaveAttempt, RetryIds
    <3> QED BY <1>1, <3>2, <3>3 DEF NewAttempts
  <2>4. CASE R_RetryJob
    <3>1. /\ rpc'.pc = "retryQueue" /\ rpc'.aid = rpc.aid
          /\ attempts' = attempts
      BY <1>t, <2>4 DEF R_RetryJob, RpcRecord
    <3> QED BY <2>4, <3>1 DEF R_RetryJob, StartInv, NewAttempts
  <2>5. CASE rpc'.pc \notin {"submitAttempt", "submitQueue", "retryJob",
                             "retryQueue"}
    BY <2>5 DEF NewAttempts
  <2>6. CASE R_Cancel \/ R_Inspect \/ R_Reconcile
    <3>1. rpc'.pc \in {"cancelMark", "inspect", "reconcile"}
      BY <1>t, <2>6 DEF R_Cancel, R_Inspect, R_Reconcile, StartControl,
                        RpcRecord
    <3> QED BY <2>5, <3>1
  <2>7. CASE rpc' = RpcIdle \/ rpc' = TargetDone
    <3>1. TargetDone.pc \in {"idle", "reconcile"}
      BY <1>t, TargetDonePC
    <3>2. rpc'.pc \in {"idle", "reconcile"}
      BY <2>7, <3>1 DEF RpcIdle
    <3> QED BY <2>5, <3>2
  <2> QED BY <1>r, <1>t, <2>1, <2>2, <2>3, <2>4, <2>5, <2>6, <2>7
          DEF RpcStep, RpcRecord, R_SubmitQueue, R_Retry, R_RetryRefused,
              R_RetryQueue, R_CancelMark, R_CancelByAdapter, R_CancelByScope,
              R_CancelFails, R_CancelSave, R_CancelRevert, R_MarkRead,
              R_MarkAttempt, R_MarkJobRead, R_MarkJob, R_MarkEmit,
              R_InspectGone, R_InspectReused, R_InspectNoChange,
              R_ReconcileCancelled, R_ReconcileGone, R_ReconcileNoChange,
              R_ReconcileRetryCancel, R_ReconcileRediscover, R_Rediscover,
              R_ReconcileReused
<1> QED BY <1>r, <1>p, <1>2, <1>3, StartKept

LEMMA StartStep ==
    ASSUME FreshRetryIds, TypesInv, BindingInv, StartInv, [Next]_vars
    PROVE  StartInv'
(* Where no attempt that is not started is changed. *)
<1>k. ASSUME ProcessesStay, disp' = disp, rpc' = rpc,
             \A a \in Attempts :
                /\ Started(a) => attempts'[a].state \in OnceStarted
                /\ ~Started(a) => attempts'[a].state = attempts[a].state
      PROVE  StartInv'
  <2>1. rpc.pc \in {"submitAttempt", "submitQueue", "retryJob", "retryQueue"}
           => rpc.aid \in Attempts
    BY DEF TypesInv, RpcOK
  <2>2. NewAttempts'
    BY <1>k, <2>1 DEF StartInv, NewAttempts, OnceStarted, TerminalAttemptStates
  <2> QED BY <1>k, <2>2, StartKept
<1>1. CASE Dispatch
  BY <1>1, StartDispatcher
<1>2. CASE Observe
  <2>1. MonitorStep /\ disp' = disp /\ rpc' = rpc
    BY <1>2 DEF Observe, dispatchVars, rpcVars
  <2>2. ProcessesStay
    BY <2>1, MonitorProcesses DEF TypesInv
  <2>3. mon.pc # "idle" => Started(CurAttempt)
    <3>1. mon.pc # "idle" => Cur \in mon.todo /\ Cur \in Sessions
      BY CurrentSession DEF TypesInv
    <3> QED BY <3>1 DEF BindingInv, CurAttempt, Started
  <2>4. EndedAs(CurSession.state) \in OnceStarted
        /\ mon.out.attempt \in OnceStarted
    BY DEF EndedAs, OnceStarted, TerminalAttemptStates, TypesInv, MonitorOK,
           MonitorTypeOK, MonitorRecord, Outcome
  <2>5. \A a \in Attempts :
           /\ Started(a) => attempts'[a].state \in OnceStarted
           /\ ~Started(a) => attempts'[a].state = attempts[a].state
    BY <2>1, <2>3, <2>4, MonitorAttempts DEF TypesInv, StartInv
  <2> QED BY <1>k, <2>1, <2>2, <2>5
<1>3. CASE Serve
  BY <1>3, StartServe
<1>4. CASE Environment
  <2>1. disp' = disp /\ rpc' = rpc
    BY <1>4 DEF Environment, ProcessExits, Reaped, PidTakenAgain,
                DeadlinePasses, LeaseExpires, HoldElapses, dispatchVars,
                    rpcVars
  <2>2. ProcessesStay
    BY <1>4, EnvironmentProcesses DEF TypesInv
  <2> QED BY <1>4, <1>k, <2>1, <2>2, EnvironmentAttempts DEF TypesInv, StartInv
<1>5. CASE CrashRestart
  <2>1. /\ attempts' = attempts /\ procs' = procs /\ rpc'.pc = "idle"
        /\ disp'.pc = "idle"
    BY <1>5 DEF CrashRestart, queueVars, RpcIdle, DispatchIdle
  <2> QED BY <2>1 DEF StartInv, ClaimInFlight, CopyOfClaim, NewAttempts,
                      Started
<1>6. CASE UNCHANGED vars
  BY <1>6 DEF vars, queueVars, sessionVars, dispatchVars, rpcVars, StartInv,
              ClaimInFlight, CopyOfClaim, NewAttempts, Started
<1> QED BY <1>1, <1>2, <1>3, <1>4, <1>5, <1>6 DEF Next

(* An attempt whose process was started is never offered for dispatch      *)
(* again: neither the recovery of expired leases nor the release of a hold *)
(* nor a stale copy that is saved late puts it back into the queue,        *)
(* wherever the daemon crashes and whether or not a kill has an effect.    *)
THEOREM NoRequeueAfterStart ==
    ASSUME FreshRetryIds
    PROVE  Spec => []NeverRequeuedAfterStart
<1>1. Init => TypesInv /\ BindingInv /\ StartInv
  BY TypesInit, BindingInit, StartInit
<1>2. TypesInv /\ BindingInv /\ StartInv /\ [Next]_vars
         => (TypesInv /\ BindingInv /\ StartInv)'
  BY TypesStep, BindingStep, StartStep
<1>3. StartInv => NeverRequeuedAfterStart
  BY DEF StartInv, NeverRequeuedAfterStart, StartedFor, Started, OnceStarted,
         TerminalAttemptStates
<1> QED BY <1>1, <1>2, <1>3, PTL DEF Spec

-----------------------------------------------------------------------------
(* One job: no copy of an attempt, and no entry of the snapshot of a pass, *)
(* is of another job than the attempt, so a late save never moves one.     *)

JobsStay ==
    \A a \in Attempts :
        attempts[a].state # "ABSENT" => attempts'[a].job = attempts[a].job

EntriesTrue ==
    \A e \in disp.queue :
        /\ attempts[e.id].state # "ABSENT"
        /\ e.harness = Harness(attempts[e.id])

JobInv ==
    /\ disp.pc \notin {"idle", "examine", "claim", "load"}
          => disp.att.job = attempts[disp.cur].job
    /\ EntriesTrue
    /\ mon.pc \in {"ended", "kill", "final", "attempt"}
          => mon.att.job = attempts[CurAttempt].job
    /\ rpc.pc = "markAttempt" => rpc.att.job = attempts[TargetAttempt].job
    /\ rpc.pc \in {"submitQueue", "retryJob", "retryQueue"}
          => rpc.att.job = attempts[rpc.aid].job

LEMMA JobInit ==
    ASSUME Init
    PROVE  JobInv
BY DEF Init, DispatchInit, MonitorInit, RpcInit, JobInv, EntriesTrue,
       DispatchIdle, MonitorIdle, RpcIdle

LEMMA JobsStayStep ==
    ASSUME FreshRetryIds, TypesInv, StartInv, JobInv, [Next]_vars
    PROVE  JobsStay
<1> SUFFICES ASSUME NEW a \in Attempts, attempts[a].state # "ABSENT"
             PROVE  attempts'[a].job = attempts[a].job
  BY DEF JobsStay
<1>1. CASE Dispatch
  <2>1. D_Hold \/ D_Run \/ D_Bind \/ D_Fail
           => disp.att.job = attempts[disp.cur].job
    BY DEF JobInv, D_Hold, D_Run, D_Bind, D_Fail
  <2> QED BY <1>1, <2>1, DispatcherAttempts DEF Dispatch, TypesInv
<1>2. CASE Observe
  BY <1>2, MonitorAttempts DEF Observe, TypesInv, JobInv
<1>3. CASE Serve
  <2>1. /\ ~(a = rpc.aid /\ rpc.pc = "submitAttempt")
        /\ a \notin RetryIds(rpc.job)
    BY DEF StartInv, NewAttempts, RetryIds
  <2> QED BY <1>3, <2>1, RpcAttempts DEF Serve, TypesInv, JobInv
<1>4. CASE Environment
  BY <1>4, EnvironmentAttempts DEF TypesInv
<1>5. CASE attempts' = attempts
  BY <1>5
<1> QED BY <1>1, <1>2, <1>3, <1>4, <1>5 DEF Next, CrashRestart, vars, queueVars

(* Entries and copies stay true while their thread does not move. *)
LEMMA EntriesKept ==
    ASSUME TypesInv, EntriesTrue, JobsStay, Kept,
           disp'.queue \subseteq disp.queue
    PROVE  EntriesTrue'
<1>1. disp.queue \in SUBSET QueueEntry
  BY DEF TypesInv, DispatchOK, DispatchTypeOK, DispatchRecord
<1>2. \A e \in disp.queue : e.id \in Attempts
  BY <1>1 DEF QueueEntry
<1> QED BY <1>2 DEF EntriesTrue, JobsStay, Kept, Harness

LEMMA JobDispatcher ==
    ASSUME TypesInv, JobInv, JobsStay, Kept, DispatcherStep
    PROVE  /\ disp'.pc \notin {"idle", "examine", "claim", "load"}
                 => disp'.att.job = attempts'[disp'.cur].job
           /\ EntriesTrue'
<1>t. /\ disp \in DispatchRecord
      /\ disp.pc \notin {"idle", "examine", "claim"}
            => disp.cur \in Attempts /\ attempts[disp.cur].state # "ABSENT"
  BY DEF TypesInv, DispatchOK, DispatchTypeOK
<1>e. disp'.queue \subseteq disp.queue => EntriesTrue'
  BY EntriesKept DEF JobInv
<1>n. \A Q : /\ NextEntry(Q).pc \in {"idle", "examine"}
             /\ NextEntry(Q).queue = Q
  BY DEF NextEntry, DispatchIdle
<1>1. CASE D_Pass
  <2> DEFINE Q == {[id      |-> a,
                    created |-> Recovered[a].created,
                    harness |-> Harness(Recovered[a])] :
                      a \in {b \in Attempts : Recovered[b].state = "QUEUED"}}
  <2>1. attempts' = Recovered /\ disp' = NextEntry(Q)
    BY <1>1 DEF D_Pass
  <2>2. \A e \in Q : /\ Recovered[e.id].state # "ABSENT"
                     /\ e.harness = Harness(Recovered[e.id])
    OBVIOUS
  <2> HIDE DEF Q
  <2> QED BY <1>n, <2>1, <2>2 DEF EntriesTrue, Harness
<1>2. CASE D_Load
  BY <1>2, <1>e, <1>t DEF D_Load, DispatchRecord, queueVars
<1>3. CASE D_Hold \/ D_Worktree \/ D_WorktreeFails \/ D_StartFails \/ D_Start
           \/ D_Register \/ D_Bind \/ D_Fail \/ D_Run
  <2>1. /\ disp'.att.job = disp.att.job /\ disp'.cur = disp.cur
        /\ disp'.queue = disp.queue
        /\ disp.pc \notin {"idle", "examine", "claim", "load"}
    <3>1. CASE D_Hold \/ D_Worktree \/ D_WorktreeFails \/ D_StartFails
      BY <1>t, <3>1 DEF D_Hold, D_Worktree, D_WorktreeFails, D_StartFails,
                        DispatchRecord
    <3>2. CASE D_Start \/ D_Register \/ D_Bind \/ D_Fail
      BY <1>t, <3>2 DEF D_Start, D_Register, D_Bind, D_Fail, DispatchRecord
    <3>3. CASE D_Run
      BY <1>t, <3>3 DEF D_Run, DispatchRecord, AttemptRecord
    <3> QED BY <1>3, <3>1, <3>2, <3>3
  <2> QED BY <1>t, <1>e, <2>1 DEF JobInv, JobsStay
<1>4. CASE D_MayStart
  BY <1>4, <1>e, <1>t DEF D_MayStart, DispatchRecord
<1>5. CASE D_Claim
  BY <1>5, <1>e, <1>t DEF D_Claim, DispatchRecord
<1>6. CASE D_Skip \/ D_ClaimRefused
  BY <1>6, <1>e, <1>n DEF D_Skip, D_ClaimRefused
<1>7. CASE D_NotClaimed \/ D_HoldRelease \/ D_JobRun \/ D_FailJob
  BY <1>7, <1>e, <1>n DEF D_NotClaimed, D_HoldRelease, D_JobRun, D_FailJob
<1>8. CASE D_RepoUnavailable
  BY <1>8, <1>e DEF D_RepoUnavailable, DispatchIdle
<1> QED BY <1>1, <1>2, <1>3, <1>4, <1>5, <1>6, <1>7, <1>8 DEF DispatcherStep

LEMMA JobMonitor ==
    ASSUME TypesInv, JobInv, JobsStay, MonitorStep
    PROVE  mon'.pc \in {"ended", "kill", "final", "attempt"}
              => mon'.att.job = attempts'[CurAttempt'].job
<1>t. mon \in MonitorRecord
  BY DEF TypesInv, MonitorOK, MonitorTypeOK
<1>c. mon.pc # "idle" =>
         CurAttempt \in Attempts /\ attempts[CurAttempt].state # "ABSENT"
  BY CurrentSession DEF TypesInv, MonitorOK
<1>n. NextSession.pc \in {"idle", "next"}
  BY DEF NextSession, MonitorIdle
<1>1. CASE M_SessionEnded \/ M_Overdue \/ M_Gone
  <2>1. /\ mon'.att = attempts[CurAttempt]
        /\ mon'.todo = mon.todo /\ mon'.snap = mon.snap
        /\ attempts' = attempts
    BY <1>t, <1>1 DEF M_SessionEnded, M_Overdue, M_Gone, MonitorRecord,
                      queueVars
  <2> QED BY <2>1 DEF CurAttempt, Cur
<1>2. CASE M_Kill \/ M_FinalSession
  <2>1. /\ mon'.att = mon.att /\ mon.pc \in {"kill", "final"}
        /\ mon'.todo = mon.todo /\ mon'.snap = mon.snap
    BY <1>t, <1>2 DEF M_Kill, M_FinalSession, MonitorRecord
  <2>2. CurAttempt' = CurAttempt
    BY <2>1 DEF CurAttempt, Cur
  <2> QED BY <1>c, <2>1, <2>2 DEF JobInv, JobsStay
<1>3. CASE mon' = NextSession
  BY <1>3, <1>n
<1>4. CASE mon'.pc \notin {"ended", "kill", "final", "attempt"}
  BY <1>4
<1> QED BY <1>t, <1>1, <1>2, <1>3, <1>4
        DEF MonitorStep, MonitorRecord, M_Poll, M_SkipFinished, M_EndedAttempt,
            M_Running, M_Observe, M_AlreadyEmitted, M_FinalAttempt, M_ReadJob,
            M_WriteJob, M_Emit

LEMMA JobRpc ==
    ASSUME TypesInv, JobInv, JobsStay, RpcStep
    PROVE  /\ rpc'.pc = "markAttempt"
                 => rpc'.att.job = attempts'[TargetAttempt'].job
           /\ rpc'.pc \in {"submitQueue", "retryJob", "retryQueue"}
                 => rpc'.att.job = attempts'[rpc'.aid].job
<1>t. /\ rpc \in RpcRecord
      /\ attempts \in [Attempts -> AttemptRecord]
  BY DEF TypesInv, RpcOK, RpcTypeOK, QueueOK, QueueTypeOK
<1>1. CASE R_MarkRead
  <2>1. CASE Terminal(TargetAttempt)
    BY <1>1, <1>t, <2>1 DEF R_MarkRead, RpcRecord
  <2>2. CASE ~Terminal(TargetAttempt)
    <3>1. /\ rpc'.pc = "markAttempt" /\ rpc'.att = attempts[TargetAttempt]
          /\ rpc'.todo = rpc.todo /\ rpc'.snap = rpc.snap
          /\ attempts' = attempts
      BY <1>1, <1>t, <2>2 DEF R_MarkRead, RpcRecord, queueVars
    <3> QED BY <3>1 DEF TargetAttempt, Target
  <2> QED BY <2>1, <2>2
<1>2. CASE R_SubmitAttempt
  <2>1. /\ rpc'.pc = "submitQueue" /\ rpc'.aid = rpc.aid
        /\ rpc'.att = NewAttempt(rpc.jid)
        /\ attempts'[rpc.aid] = NewAttempt(rpc.jid)
    BY <1>2, <1>t DEF R_SubmitAttempt, RpcRecord, SaveAttempt, TypesInv, RpcOK
  <2> QED BY <2>1
<1>3. CASE R_RetryAttempt
  <2>1. PICK a \in RetryIds(rpc.job) :
           /\ SaveAttempt(a, NewAttempt(rpc.jid))
           /\ rpc' = [rpc EXCEPT !.pc = "retryJob", !.aid = a,
                                 !.att = NewAttempt(rpc.jid)]
    BY <1>3 DEF R_RetryAttempt
  <2>2. /\ rpc'.pc = "retryJob" /\ rpc'.aid = a
        /\ rpc'.att = NewAttempt(rpc.jid)
    BY <1>t, <2>1 DEF RpcRecord
  <2>3. attempts'[a] = NewAttempt(rpc.jid)
    BY <1>t, <2>1 DEF SaveAttempt, RetryIds
  <2> QED BY <2>2, <2>3
<1>4. CASE R_RetryJob
  <2>1. /\ rpc'.pc = "retryQueue" /\ rpc'.aid = rpc.aid
        /\ rpc'.att = rpc.att /\ attempts' = attempts /\ rpc.pc = "retryJob"
    BY <1>4, <1>t DEF R_RetryJob, RpcRecord
  <2> QED BY <2>1 DEF JobInv
<1>5. CASE rpc'.pc \notin {"markAttempt", "submitQueue", "retryJob",
    "retryQueue"}
  BY <1>5
<1>6. CASE R_Cancel \/ R_Inspect \/ R_Reconcile
  <2>1. rpc'.pc \in {"cancelMark", "inspect", "reconcile"}
    BY <1>t, <1>6 DEF R_Cancel, R_Inspect, R_Reconcile, StartControl, RpcRecord
  <2> QED BY <2>1
<1>7. CASE rpc' = RpcIdle \/ rpc' = TargetDone
  <2>1. TargetDone.pc \in {"idle", "reconcile"}
    BY <1>t, TargetDonePC
  <2> QED BY <1>7, <2>1 DEF RpcIdle
<1> QED BY <1>t, <1>1, <1>2, <1>3, <1>4, <1>5, <1>6, <1>7
        DEF RpcStep, RpcRecord, R_Submit, R_SubmitQueue, R_Retry,
            R_RetryRefused, R_RetryQueue, R_CancelMark, R_CancelByAdapter,
            R_CancelByScope, R_CancelFails, R_CancelSave, R_CancelRevert,
            R_MarkAttempt, R_MarkJobRead, R_MarkJob, R_MarkEmit,
            R_InspectGone, R_InspectReused, R_InspectNoChange,
            R_ReconcileCancelled, R_ReconcileGone, R_ReconcileNoChange,
            R_ReconcileRetryCancel, R_ReconcileRediscover, R_Rediscover,
            R_ReconcileReused

LEMMA KeptStep ==
    ASSUME TypesInv, [Next]_vars
    PROVE  Kept
<1>1. CASE Dispatch
  BY <1>1, DispatcherTypes DEF Dispatch, TypesInv
<1>2. CASE Observe
  BY <1>2, MonitorTypes DEF Observe, TypesInv
<1>3. CASE Serve
  BY <1>3, RpcTypes DEF Serve, TypesInv
<1>4. CASE Environment
  BY <1>4, EnvironmentTypes DEF TypesInv
<1>5. CASE attempts' = attempts
  BY <1>5 DEF Kept
<1> QED BY <1>1, <1>2, <1>3, <1>4, <1>5 DEF Next, CrashRestart, vars, queueVars

LEMMA JobStep ==
    ASSUME FreshRetryIds, TypesInv, StartInv, JobInv, [Next]_vars
    PROVE  JobInv'
<1>j. JobsStay /\ Kept
  BY JobsStayStep, KeptStep
<1>d. ASSUME disp' = disp
      PROVE  /\ disp'.pc \notin {"idle", "examine", "claim", "load"}
                   => disp'.att.job = attempts'[disp'.cur].job
             /\ EntriesTrue'
  <2>1. EntriesTrue'
    BY <1>d, <1>j, EntriesKept DEF JobInv
  <2>2. disp.pc \notin {"idle", "examine", "claim"}
           => disp.cur \in Attempts /\ attempts[disp.cur].state # "ABSENT"
    BY DEF TypesInv, DispatchOK
  <2> QED BY <1>d, <1>j, <2>1, <2>2 DEF JobInv, JobsStay
<1>m. ASSUME mon' = mon
      PROVE  mon'.pc \in {"ended", "kill", "final", "attempt"}
                => mon'.att.job = attempts'[CurAttempt'].job
  <2>1. mon.pc # "idle" =>
           CurAttempt \in Attempts /\ attempts[CurAttempt].state # "ABSENT"
    BY CurrentSession DEF TypesInv, MonitorOK
  <2>2. CurAttempt' = CurAttempt
    BY <1>m DEF CurAttempt, Cur
  <2> QED BY <1>m, <1>j, <2>1, <2>2 DEF JobInv, JobsStay
<1>r. ASSUME rpc' = rpc
      PROVE  /\ rpc'.pc = "markAttempt"
                   => rpc'.att.job = attempts'[TargetAttempt'].job
             /\ rpc'.pc \in {"submitQueue", "retryJob", "retryQueue"}
                   => rpc'.att.job = attempts'[rpc'.aid].job
  <2>1. rpc.pc = "markAttempt" =>
           TargetAttempt \in Attempts
               /\ attempts[TargetAttempt].state # "ABSENT"
    BY TargetBound DEF TypesInv, ControlPCs, RpcPCs
  <2>2. TargetAttempt' = TargetAttempt
    BY <1>r DEF TargetAttempt, Target
  <2>3. rpc.pc \in {"submitQueue", "retryJob", "retryQueue"} =>
           rpc.aid \in Attempts /\ attempts[rpc.aid].state # "ABSENT"
    BY DEF TypesInv, RpcOK, StartInv, NewAttempts
  <2> QED BY <1>r, <1>j, <2>1, <2>2, <2>3 DEF JobInv, JobsStay
<1>1. CASE Dispatch
  <2>1. DispatcherStep /\ mon' = mon /\ rpc' = rpc
    BY <1>1 DEF Dispatch, monitorVars, rpcVars
  <2> QED BY <1>j, <1>m, <1>r, <2>1, JobDispatcher DEF JobInv
<1>2. CASE Observe
  <2>1. MonitorStep /\ disp' = disp /\ rpc' = rpc
    BY <1>2 DEF Observe, dispatchVars, rpcVars
  <2> QED BY <1>j, <1>d, <1>r, <2>1, JobMonitor DEF JobInv
<1>3. CASE Serve
  <2>1. RpcStep /\ disp' = disp /\ mon' = mon
    BY <1>3 DEF Serve, dispatchVars, monitorVars
  <2> QED BY <1>j, <1>d, <1>m, <2>1, JobRpc DEF JobInv
<1>4. CASE disp' = disp /\ mon' = mon /\ rpc' = rpc
  BY <1>4, <1>d, <1>m, <1>r DEF JobInv
<1>5. CASE CrashRestart
  BY <1>5 DEF CrashRestart, DispatchIdle, MonitorIdle, RpcIdle, JobInv,
              EntriesTrue
<1> QED BY <1>1, <1>2, <1>3, <1>4, <1>5
        DEF Next, vars, Environment, ProcessExits, Reaped, PidTakenAgain,
            DeadlinePasses, LeaseExpires, HoldElapses, dispatchVars,
            monitorVars, rpcVars

(* An attempt belongs to the same job for as long as it exists, whichever  *)
(* of its copies is saved late, unless a caller of retry names an attempt  *)
(* that exists already.                                                    *)
THEOREM JobsAreKept ==
    ASSUME FreshRetryIds
    PROVE  Spec => AttemptsKeepTheirJob
<1> DEFINE I == TypesInv /\ BindingInv /\ StartInv /\ JobInv
<1>1. Init => I
  BY TypesInit, BindingInit, StartInit, JobInit
<1>2. I /\ [Next]_vars => I'
  BY TypesStep, BindingStep, StartStep, JobStep
<1>3. I /\ [Next]_vars =>
         [\A a \in Attempts :
             attempts[a].state # "ABSENT"
                => attempts'[a].job = attempts[a].job]_vars
  BY JobsStayStep DEF JobsStay
<1> QED BY <1>1, <1>2, <1>3, PTL DEF Spec, AttemptsKeepTheirJob

-----------------------------------------------------------------------------
(* Slots: only a claim takes one.                                          *)

LEMMA DispatcherHolds ==
    ASSUME TypesInv, DispatcherStep
    PROVE  \/ D_Claim
           \/ Holding' \subseteq Holding
<1>t. disp \in DispatchRecord
  BY DEF TypesInv, DispatchOK, DispatchTypeOK
<1>n. \A Q : NextEntry(Q).pc \in {"idle", "examine"}
  BY DEF NextEntry, DispatchIdle
<1>1. ASSUME ~D_Claim, NEW a \in Attempts, a \in Active'
      PROVE  a \in Holding
  <2>1. attempts'[a].state \in {"CLAIMED", "RUNNING"}
    BY <1>1 DEF Active
  <2>2. CASE attempts'[a] = attempts[a]
    BY <2>1, <2>2 DEF Active, Holding
  <2>3. CASE a = disp.cur /\ (D_Hold \/ D_Run \/ D_Bind \/ D_Fail)
    BY <2>3 DEF D_Hold, D_Run, D_Bind, D_Fail, InFlight, Holding
  <2> QED BY <1>1, <2>1, <2>2, <2>3, DispatcherAttempts DEF TypesInv
<1>2. ASSUME ~D_Claim, InFlight'
      PROVE  InFlight /\ disp'.cur = disp.cur
  <2>1. CASE \E Q : disp' = NextEntry(Q)
    BY <1>2, <1>n, <2>1 DEF InFlight
  <2>2. CASE D_Load \/ D_Hold \/ D_Worktree \/ D_WorktreeFails \/ D_Run
    BY <1>t, <2>2 DEF D_Load, D_Hold, D_Worktree, D_WorktreeFails, D_Run,
                      DispatchRecord, InFlight
  <2>3. CASE D_StartFails \/ D_Start \/ D_Register
    BY <1>t, <2>3 DEF D_StartFails, D_Start, D_Register, DispatchRecord,
                      InFlight
  <2>4. CASE D_MayStart \/ D_Bind \/ D_Fail
    BY <1>2, <1>t, <2>4 DEF D_MayStart, D_Bind, D_Fail, DispatchRecord,
                            InFlight
  <2>5. CASE D_RepoUnavailable
    BY <1>2, <2>5 DEF D_RepoUnavailable, DispatchIdle, InFlight
  <2> QED BY <1>2, <2>1, <2>2, <2>3, <2>4, <2>5
          DEF DispatcherStep, D_Pass, D_Skip, D_ClaimRefused, D_NotClaimed,
              D_HoldRelease, D_JobRun, D_FailJob
<1>3. ASSUME ~D_Claim
      PROVE  Holding' \subseteq Holding
  <2>1. Active' \subseteq Holding
    BY <1>1, <1>3 DEF Active
  <2>2. InFlight' => disp'.cur \in Holding
    BY <1>2, <1>3 DEF Holding
  <2> QED BY <2>1, <2>2 DEF Holding
<1> QED BY <1>3

LEMMA OthersHold ==
    ASSUME TypesInv, [Next]_vars, ~Dispatch
    PROVE  /\ Active' \subseteq Active
           /\ Holding' \subseteq Holding
           /\ disp' = disp \/ disp'.pc = "idle"
<1>1. Active' \subseteq Active
  <2>1. CASE Observe
    BY <2>1, MonitorCapacity DEF Observe, TypesInv
  <2>2. CASE Serve
    BY <2>2, RpcCapacity DEF Serve, TypesInv
  <2>3. CASE Environment
    BY <2>3, EnvironmentCapacity DEF TypesInv
  <2>4. CASE attempts' = attempts
    BY <2>4, ActiveKept
  <2> QED BY <2>1, <2>2, <2>3, <2>4 DEF Next, CrashRestart, vars, queueVars
<1>2. disp' = disp \/ disp'.pc = "idle"
  <2>1. CASE Environment
    BY <2>1 DEF Environment, ProcessExits, Reaped, PidTakenAgain,
                DeadlinePasses, LeaseExpires, HoldElapses, dispatchVars
  <2>2. CASE CrashRestart
    BY <2>2 DEF CrashRestart, DispatchIdle
  <2> QED BY <2>1, <2>2 DEF Next, Observe, Serve, dispatchVars, vars
<1> QED BY <1>1, <1>2 DEF Holding, InFlight

-----------------------------------------------------------------------------
(* Capacity of a harness: what can_start read for the harness of an entry  *)
(* still holds at the claim, because the attempts that count are still     *)
(* attempts of that harness.                                               *)

HoldingOn(h) == {a \in Holding : Harness(attempts[a]) = h}

HarnessInv ==
    /\ HarnessCapacity
    /\ disp.pc = "claim" =>
          \A h \in Harnesses :
             h = HeadOf(disp.queue).harness
                => Cardinality(ActiveOn(h)) < HarnessLimit[h]

LEMMA HarnessSets ==
    ASSUME TypesInv, NEW h
    PROVE  /\ IsFiniteSet(HoldingOn(h)) /\ Cardinality(HoldingOn(h)) \in Nat
           /\ IsFiniteSet(ActiveOn(h)) /\ Cardinality(ActiveOn(h)) \in Nat
           /\ \A a \in Holding : a \in Attempts /\ attempts[a].state # "ABSENT"
<1>1. \A a \in Holding : a \in Attempts /\ attempts[a].state # "ABSENT"
  BY DEF Holding, Active, InFlight, TypesInv, DispatchOK
<1>2. HoldingOn(h) \in SUBSET Attempts /\ ActiveOn(h) \in SUBSET Attempts
  BY <1>1 DEF HoldingOn, ActiveOn, Active
<1> QED BY <1>1, <1>2, QueueAssumption, FS_Subset, FS_CardinalityType

LEMMA HarnessShrinks ==
    ASSUME TypesInv, JobsStay, NEW h
    PROVE  /\ Holding' \subseteq Holding =>
                 /\ Cardinality(HoldingOn(h)') \in Nat
                 /\ Cardinality(HoldingOn(h)') <= Cardinality(HoldingOn(h))
           /\ Active' \subseteq Active =>
                 /\ Cardinality(ActiveOn(h)') \in Nat
                 /\ Cardinality(ActiveOn(h)') <= Cardinality(ActiveOn(h))
<1>1. \A a \in Holding : Harness(attempts'[a]) = Harness(attempts[a])
  BY HarnessSets DEF JobsStay, Harness
<1>2. Active \subseteq Holding
  BY DEF Holding
<1>3. /\ Holding' \subseteq Holding => HoldingOn(h)' \subseteq HoldingOn(h)
      /\ Active' \subseteq Active => ActiveOn(h)' \subseteq ActiveOn(h)
  BY <1>1, <1>2 DEF HoldingOn, ActiveOn
<1>4. ASSUME NEW S, NEW T, IsFiniteSet(S), T \subseteq S
      PROVE  /\ Cardinality(T) \in Nat
             /\ Cardinality(T) <= Cardinality(S)
  <2>1. IsFiniteSet(T) /\ Cardinality(T) <= Cardinality(S)
    BY <1>4, FS_Subset
  <2> QED BY <2>1, FS_CardinalityType
<1>5. IsFiniteSet(HoldingOn(h)) /\ IsFiniteSet(ActiveOn(h))
  BY HarnessSets
<1> QED BY <1>3, <1>4, <1>5

LEMMA HarnessCapacityAs ==
    HarnessCapacity
       <=> \A h \in Harnesses : Cardinality(HoldingOn(h)) <= HarnessLimit[h]
BY DEF HarnessCapacity, HoldingOn

(* Nobody took a slot: the bound holds as before. *)
LEMMA HarnessBoundKept ==
    ASSUME TypesInv, HarnessCapacity, JobsStay,
           Holding' \subseteq Holding
    PROVE  HarnessCapacity'
<1>1. ASSUME NEW h \in Harnesses
      PROVE  Cardinality(HoldingOn(h)') <= HarnessLimit[h]
  <2>1. Cardinality(HoldingOn(h)) <= HarnessLimit[h]
    BY HarnessCapacityAs
  <2>2. /\ Cardinality(HoldingOn(h)') <= Cardinality(HoldingOn(h))
        /\ Cardinality(HoldingOn(h)') \in Nat
    BY HarnessShrinks
  <2>3. Cardinality(HoldingOn(h)) \in Nat /\ HarnessLimit[h] \in Nat
    BY HarnessSets, QueueAssumption
  <2> QED BY <2>1, <2>2, <2>3
<1> QED BY <1>1 DEF HarnessCapacity, HoldingOn

LEMMA HarnessInit ==
    ASSUME Init
    PROVE  HarnessInv
<1>1. Active = {} /\ ~InFlight /\ disp.pc = "idle"
  BY DEF Init, QueueInit, Active, AbsentAttempt, DispatchInit, DispatchIdle,
         InFlight
<1>2. \A h : HoldingOn(h) = {}
  BY <1>1 DEF Holding, HoldingOn
<1>3. \A h \in Harnesses : HarnessLimit[h] \in Nat
  BY QueueAssumption
<1> QED BY <1>1, <1>2, <1>3, FS_EmptySet, HarnessCapacityAs DEF HarnessInv

LEMMA HarnessClaim ==
    ASSUME TypesInv, JobInv, JobsStay, HarnessInv, D_Claim
    PROVE  HarnessCapacity'
<1> DEFINE e == HeadOf(disp.queue)
<1>t. disp \in DispatchRecord
  BY DEF TypesInv, DispatchOK, DispatchTypeOK
<1>1. e \in disp.queue
  BY <1>t, HeadIn DEF D_Claim, TypesInv, DispatchOK, DispatchRecord
<1>2. /\ e.id \in Attempts /\ e.harness = Harness(attempts[e.id])
      /\ attempts[e.id].state # "ABSENT"
  BY <1>t, <1>1 DEF DispatchRecord, QueueEntry, JobInv, EntriesTrue
<1>3. /\ disp'.pc = "load" /\ disp'.cur = e.id
      /\ \E rec : SaveAttempt(e.id, rec)
  BY <1>t DEF D_Claim, DispatchRecord
<1>4. Cardinality(ActiveOn(e.harness)) < HarnessLimit[e.harness]
  BY <1>t, <1>1 DEF HarnessInv, D_Claim, DispatchRecord, QueueEntry
<1> HIDE DEF e
<1>5. Active' \subseteq Active \cup {e.id}
  BY <1>3 DEF SaveAttempt, Active, TypesInv, QueueOK, QueueTypeOK
<1>6. Holding' \subseteq Active \cup {e.id}
  BY <1>3, <1>5 DEF Holding, InFlight
<1>7. \A a \in Active \cup {e.id} : Harness(attempts'[a])
    = Harness(attempts[a])
  BY <1>2 DEF JobsStay, Harness, Active
<1>8. ASSUME NEW h \in Harnesses
      PROVE  Cardinality(HoldingOn(h)') <= HarnessLimit[h]
  <2>n. /\ IsFiniteSet(ActiveOn(h)) /\ Cardinality(ActiveOn(h)) \in Nat
        /\ IsFiniteSet(HoldingOn(h)) /\ Cardinality(HoldingOn(h)) \in Nat
        /\ HarnessLimit[h] \in Nat
    BY HarnessSets, QueueAssumption
  <2>s. ASSUME NEW S, IsFiniteSet(S), HoldingOn(h)' \subseteq S
        PROVE  /\ Cardinality(HoldingOn(h)') \in Nat
               /\ Cardinality(HoldingOn(h)') <= Cardinality(S)
    <3>1. /\ IsFiniteSet(HoldingOn(h)')
          /\ Cardinality(HoldingOn(h)') <= Cardinality(S)
      BY <2>s, FS_Subset
    <3> QED BY <3>1, FS_CardinalityType
  <2>1. CASE h # e.harness
    <3>1. HoldingOn(h)' \subseteq HoldingOn(h)
      BY <1>2, <1>6, <1>7, <2>1 DEF HoldingOn, Holding
    <3>2. /\ Cardinality(HoldingOn(h)') \in Nat
          /\ Cardinality(HoldingOn(h)') <= Cardinality(HoldingOn(h))
      BY <2>n, <2>s, <3>1
    <3>3. Cardinality(HoldingOn(h)) <= HarnessLimit[h]
      BY HarnessCapacityAs DEF HarnessInv
    <3> QED BY <2>n, <3>2, <3>3
  <2>2. CASE h = e.harness
    <3>1. HoldingOn(h)' \subseteq ActiveOn(h) \cup {e.id}
      BY <1>6, <1>7 DEF HoldingOn, ActiveOn
    <3>2. /\ IsFiniteSet(ActiveOn(h) \cup {e.id})
          /\ Cardinality(ActiveOn(h) \cup {e.id}) =
                IF e.id \in ActiveOn(h) THEN Cardinality(ActiveOn(h))
                                        ELSE Cardinality(ActiveOn(h)) + 1
      BY <2>n, FS_AddElement
    <3>3. Cardinality(ActiveOn(h) \cup {e.id}) <= Cardinality(ActiveOn(h)) + 1
      BY <2>n, <3>2
    <3>4. Cardinality(ActiveOn(h) \cup {e.id}) \in Nat
      BY <3>2, FS_CardinalityType
    <3>5. /\ Cardinality(HoldingOn(h)') \in Nat
          /\ Cardinality(HoldingOn(h)') <= Cardinality(ActiveOn(h) \cup {e.id})
      BY <2>s, <3>1, <3>2
    <3> QED BY <1>4, <2>n, <2>2, <3>3, <3>4, <3>5
  <2> QED BY <2>1, <2>2
<1> QED BY <1>8 DEF HarnessCapacity, HoldingOn

LEMMA HarnessStep ==
    ASSUME TypesInv, JobInv, JobsStay, HarnessInv, [Next]_vars
    PROVE  HarnessInv'
<1>t. disp \in DispatchRecord
  BY DEF TypesInv, DispatchOK, DispatchTypeOK
<1>n. \A Q : NextEntry(Q).pc \in {"idle", "examine"}
  BY DEF NextEntry, DispatchIdle
<1>c. HarnessInv => HarnessCapacity
  BY DEF HarnessInv
<1>1. CASE Dispatch
  <2>1. DispatcherStep
    BY <1>1 DEF Dispatch
  <2>2. CASE D_MayStart
    <3>1. /\ disp'.queue = disp.queue /\ attempts' = attempts
          /\ CanStart(HeadOf(disp.queue).harness)
      BY <1>t, <2>2 DEF D_MayStart, DispatchRecord, queueVars
    <3>2. \A h : ActiveOn(h)' = ActiveOn(h)
      BY <3>1 DEF ActiveOn, Active
    <3>3. Holding' \subseteq Holding
      BY <2>1, <2>2, DispatcherHolds DEF D_Claim, D_MayStart
    <3>4. HarnessCapacity'
      BY <1>c, <3>3, HarnessBoundKept
    <3> QED BY <3>1, <3>2, <3>4 DEF HarnessInv, CanStart
  <2>3. CASE D_Claim
    <3>1. disp'.pc = "load"
      BY <1>t, <2>3 DEF D_Claim, DispatchRecord
    <3> QED BY <2>3, <3>1, HarnessClaim DEF HarnessInv
  <2>4. CASE ~D_MayStart /\ ~D_Claim
    <3>1. disp'.pc # "claim"
      <4>1. CASE \E Q : disp' = NextEntry(Q)
        BY <1>n, <4>1
      <4>2. CASE D_Load \/ D_Hold \/ D_Worktree \/ D_WorktreeFails \/ D_Run
        BY <1>t, <4>2 DEF D_Load, D_Hold, D_Worktree, D_WorktreeFails, D_Run,
                          DispatchRecord
      <4>3. CASE D_StartFails \/ D_Start \/ D_Register \/ D_Bind \/ D_Fail
        BY <1>t, <4>3 DEF D_StartFails, D_Start, D_Register, D_Bind, D_Fail,
                          DispatchRecord
      <4>4. CASE D_RepoUnavailable
        BY <4>4 DEF D_RepoUnavailable, DispatchIdle
      <4> QED BY <2>1, <2>4, <4>1, <4>2, <4>3, <4>4
              DEF DispatcherStep, D_Pass, D_Skip, D_ClaimRefused,
                  D_NotClaimed, D_HoldRelease, D_JobRun, D_FailJob
    <3>2. HarnessCapacity'
      BY <1>c, <2>1, <2>4, DispatcherHolds, HarnessBoundKept
    <3> QED BY <3>1, <3>2 DEF HarnessInv
  <2> QED BY <2>2, <2>3, <2>4
<1>2. CASE ~Dispatch
  <2>1. /\ Active' \subseteq Active /\ Holding' \subseteq Holding
        /\ disp' = disp \/ disp'.pc = "idle"
    BY <1>2, OthersHold
  <2>2. HarnessCapacity'
    BY <1>c, <2>1, HarnessBoundKept
  <2>3. ASSUME disp'.pc = "claim", NEW h \in Harnesses,
               h = HeadOf(disp'.queue).harness
        PROVE  Cardinality(ActiveOn(h)') < HarnessLimit[h]
    <3>1. disp' = disp
      BY <2>1, <2>3
    <3>4. Cardinality(ActiveOn(h)) < HarnessLimit[h]
      BY <2>3, <3>1 DEF HarnessInv
    <3>5. /\ Cardinality(ActiveOn(h)) \in Nat /\ HarnessLimit[h] \in Nat
          /\ Cardinality(ActiveOn(h)') <= Cardinality(ActiveOn(h))
          /\ Cardinality(ActiveOn(h)') \in Nat
      BY <2>1, HarnessSets, HarnessShrinks, QueueAssumption
    <3> QED BY <3>4, <3>5
  <2> QED BY <2>2, <2>3 DEF HarnessInv
<1> QED BY <1>1, <1>2

(* Scheduler.per_harness is never exceeded either, counting the slots of   *)
(* claims in flight: the harness of an entry was read in one pass and is   *)
(* compared with counts of later states of the store.                      *)
THEOREM HarnessLimitsHold ==
    ASSUME FreshRetryIds
    PROVE  Spec => []HarnessCapacity
<1> DEFINE I == TypesInv /\ BindingInv /\ StartInv /\ JobInv
<1>1. Init => I /\ HarnessInv
  BY TypesInit, BindingInit, StartInit, JobInit, HarnessInit
<1>2. I /\ HarnessInv /\ [Next]_vars => I' /\ HarnessInv'
  <2>1. I /\ [Next]_vars => I' /\ JobsStay
    BY TypesStep, BindingStep, StartStep, JobStep, JobsStayStep
  <2> QED BY <2>1, HarnessStep
<1>3. HarnessInv => HarnessCapacity
  BY DEF HarnessInv
<1> QED BY <1>1, <1>2, <1>3, PTL DEF Spec

-----------------------------------------------------------------------------
(* Ends: what is recorded as ended has ended, and the process of an        *)
(* attempt that is alive is the process of an attempt that is RUNNING.     *)
(* This needs kills that have an effect: cancel by the adapter and the     *)
(* timeout take the death of the process for granted.                      *)

EndedInv ==
    /\ \A s \in Sessions :
          s \in reused \/ sessions[s].state \in TerminalSessionStates
             => Ended(s)
    /\ \A s \in mon.todo :
          mon.snap[s].state \in TerminalSessionStates => Ended(s)
    /\ \A s \in rpc.todo :
          rpc.snap[s].state \in TerminalSessionStates => Ended(s)
    /\ mon.pc \in {"ended", "final", "attempt"} => Ended(Cur)
    /\ rpc.pc \in {"cancelSave", "markRead", "markAttempt"} => Ended(Target)

RunningInv ==
    \A s \in Sessions :
        Alive(s) => attempts[procs[s].attempt].state = "RUNNING"

LEMMA TargetIsFirst == Target = First(rpc.todo) /\ Target' = First(rpc'.todo)
BY DEF Target, First

(* What has ended stays so, with its exit code. *)
LEMMA EndsStay ==
    ASSUME TypesInv, [Next]_vars
    PROVE  \A s \in Sessions :
              /\ Ended(s) => Ended(s)'
              /\ Ended(s) => procs'[s].code = procs[s].code
              /\ Ended(s) => procs'[s].attempt = procs[s].attempt
<1>t. procs \in [Sessions -> ProcRecord]
  BY DEF TypesInv, SessionOK, SessionTypeOK
<1>1. CASE D_Start
  BY <1>t, <1>1 DEF D_Start, Ended
<1>2. CASE ProcessesStay
  BY <1>2 DEF ProcessesStay
<1>3. CASE procs' = procs
  BY <1>3, <1>2, SameProcesses
<1> QED BY <1>1, <1>2, <1>3, DispatcherProcesses, MonitorProcesses,
           RpcProcesses, EnvironmentProcesses
        DEF Next, Dispatch, Observe, Serve, CrashRestart, vars, sessionVars,
            TypesInv

(* A process that was started and is not alive has ended. *)
LEMMA StartedEnded ==
    ASSUME TypesInv, NEW s \in Sessions, procs[s].state # "none", ~Alive(s)
    PROVE  Ended(s)
BY DEF TypesInv, SessionOK, SessionTypeOK, ProcRecord, Alive, Ended

(* A kill that has an effect. *)
LEMMA KillEnds ==
    ASSUME TypesInv, NEW s \in Sessions, procs[s].state # "none",
           procs' = Killed(s)
    PROVE  Ended(s)'
<1>t. procs \in [Sessions -> ProcRecord]
  BY DEF TypesInv, SessionOK, SessionTypeOK
<1>1. CASE Alive(s)
  BY <1>t, <1>1 DEF Killed, Dead, Ended, ProcRecord
<1>2. CASE ~Alive(s)
  BY <1>2, StartedEnded DEF Killed, Ended
<1> QED BY <1>1, <1>2

LEMMA EndedObserve ==
    ASSUME KillMayFail = FALSE, TypesInv, BindingInv, EndedInv, Observe
    PROVE  EndedInv'
<1>r. MonitorStep /\ rpc' = rpc
  BY DEF Observe, rpcVars
<1>t. /\ mon \in MonitorRecord /\ MonitorOK
      /\ mon.todo \subseteq Sessions /\ rpc.todo \subseteq Sessions
  BY DEF TypesInv, MonitorOK, MonitorTypeOK, MonitorRecord, RpcOK, RpcTypeOK,
         RpcRecord
<1>e. \A s \in Sessions : Ended(s) => Ended(s)'
  BY EndsStay DEF Next
<1>c. mon.pc # "idle" => /\ Cur \in mon.todo /\ Cur \in Sessions
                         /\ procs[Cur].state # "none"
  BY <1>t, CurrentSession, BoundProcesses
<1>1. ASSUME NEW s \in Sessions,
             s \in reused' \/ sessions'[s].state \in TerminalSessionStates
      PROVE  Ended(s)'
  <2>1. reused' = reused
    BY <1>r DEF MonitorStep, sessionVars, M_Poll, M_SkipFinished,
                M_SessionEnded, M_EndedAttempt, M_Gone, M_Overdue, M_Running,
                M_Observe, M_Kill, M_AlreadyEmitted, M_FinalSession,
                M_FinalAttempt, M_ReadJob, M_WriteJob, M_Emit
  <2>2. CASE s \in reused \/ sessions[s].state \in TerminalSessionStates
    BY <1>e, <2>2 DEF EndedInv
  <2>3. CASE s = Cur /\ mon.pc = "final"
    BY <1>e, <2>3 DEF EndedInv
  <2> QED BY <1>1, <1>r, <1>t, <2>1, <2>2, <2>3, MonitorSessions
          DEF TypesInv, TerminalSessionStates
<1>2. ASSUME NEW s \in mon'.todo, mon'.snap[s].state \in TerminalSessionStates
      PROVE  Ended(s)'
  <2>1. s \in Sessions
    <3>1. MonitorOK'
      BY TypesStep DEF TypesInv, Next
    <3> QED BY <3>1 DEF MonitorOK, MonitorTypeOK, MonitorRecord
  <2> QED BY <1>2, <1>e, <1>r, <1>t, <2>1, MonitorSnapshot DEF EndedInv
<1>3. ASSUME mon'.pc \in {"ended", "final", "attempt"}
      PROVE  Ended(Cur)'
  <2>c. mon'.todo = mon.todo => Cur' = Cur
    BY DEF Cur
  <2>1. CASE M_SessionEnded
    <3>1. mon'.todo = mon.todo /\ mon.pc # "idle"
      BY <1>t, <2>1 DEF M_SessionEnded, MonitorRecord
    <3>2. Ended(Cur)
      BY <1>c, <2>1, <3>1
         DEF M_SessionEnded, EndedElsewhere, EndedInv, CurSession,
             TerminalSessionStates
    <3> QED BY <1>c, <1>e, <2>c, <3>1, <3>2
  <2>2. CASE M_Gone
    <3>1. mon'.todo = mon.todo /\ mon.pc # "idle"
      BY <1>t, <2>2 DEF M_Gone, Examine, MonitorRecord
    <3>2. Ended(Cur)
      BY <1>c, <2>2, <3>1, StartedEnded DEF M_Gone, PidGone
    <3> QED BY <1>c, <1>e, <2>c, <3>1, <3>2
  <2>3. CASE M_Kill
    <3>1. mon'.todo = mon.todo /\ mon.pc # "idle"
      BY <1>t, <2>3 DEF M_Kill, MonitorRecord
    <3>2. PICK s \in Sessions : s = Cur
      BY <1>c, <3>1
    <3>3. procs' = Killed(s)
      BY <2>3, <3>2 DEF M_Kill, KillOutcomes
    <3>4. Ended(s)'
      BY <1>c, <3>1, <3>2, <3>3, KillEnds
    <3> QED BY <2>c, <3>1, <3>2, <3>4 DEF Ended
  <2>4. CASE M_FinalSession
    <3>1. mon'.todo = mon.todo /\ mon.pc # "idle"
      BY <1>t, <2>4 DEF M_FinalSession, MonitorRecord
    <3>2. Ended(Cur)
      BY <2>4 DEF M_FinalSession, EndedInv
    <3> QED BY <1>c, <1>e, <2>c, <3>1, <3>2
  <2>5. CASE mon' = NextSession
    BY <1>3, <2>5 DEF NextSession, MonitorIdle
  <2> QED BY <1>3, <1>r, <1>t, <2>1, <2>2, <2>3, <2>4, <2>5
          DEF MonitorStep, MonitorRecord, M_Poll, M_SkipFinished,
              M_EndedAttempt, M_Overdue, M_Running, M_Observe,
              M_AlreadyEmitted, M_FinalAttempt, M_ReadJob, M_WriteJob, M_Emit
<1>4. \A s \in rpc'.todo :
         rpc'.snap[s].state \in TerminalSessionStates => Ended(s)'
  BY <1>e, <1>r, <1>t DEF EndedInv
<1>5. rpc'.pc \in {"cancelSave", "markRead", "markAttempt"} => Ended(Target)'
  <2>1. Target' = Target
    BY <1>r, TargetIsFirst
  <2>2. rpc.pc \in {"cancelSave", "markRead", "markAttempt"}
           => Target \in Sessions
    BY TargetBound DEF TypesInv, ControlPCs, RpcPCs
  <2> QED BY <1>e, <1>r, <2>1, <2>2 DEF EndedInv
<1> QED BY <1>1, <1>2, <1>3, <1>4, <1>5 DEF EndedInv

LEMMA EndedServe ==
    ASSUME KillMayFail = FALSE, TypesInv, BindingInv, EndedInv, Serve
    PROVE  EndedInv'
<1>r. RpcStep /\ mon' = mon
  BY DEF Serve, monitorVars
<1>t. /\ rpc \in RpcRecord /\ RpcOK
      /\ mon.todo \subseteq Sessions /\ rpc.todo \subseteq Sessions
  BY DEF TypesInv, MonitorOK, MonitorTypeOK, MonitorRecord, RpcOK, RpcTypeOK,
         RpcRecord
<1>e. \A s \in Sessions : Ended(s) => Ended(s)'
  BY EndsStay DEF Next
<1>c. rpc.pc \in ControlPCs => /\ Target \in rpc.todo /\ Target \in Sessions
                               /\ procs[Target].state # "none"
  BY <1>t, TargetBound, BoundProcesses
<1>p. /\ "cancelSave" \in ControlPCs /\ "cancelRevert" \in ControlPCs
      /\ "cancelKill" \in ControlPCs /\ "markRead" \in ControlPCs
      /\ "reconcile" \in ControlPCs /\ "inspect" \in ControlPCs
  BY DEF ControlPCs, RpcPCs
<1>g. PidAbsent(Target) /\ rpc.pc \in ControlPCs => Ended(Target)
  BY DEF PidAbsent, Ended
<1>1. ASSUME NEW s \in Sessions,
             s \in reused' \/ sessions'[s].state \in TerminalSessionStates
      PROVE  Ended(s)'
  <2>1. reused' = reused
    BY <1>r DEF RpcStep, sessionVars, StartControl,
          R_Submit, R_SubmitAttempt, R_SubmitQueue, R_Retry, R_RetryAttempt,
          R_RetryRefused, R_RetryJob, R_RetryQueue, R_Cancel, R_CancelMark,
          R_CancelByAdapter, R_CancelByScope, R_CancelFails, R_CancelSave,
          R_CancelRevert, R_MarkRead, R_MarkAttempt, R_MarkJobRead, R_MarkJob,
          R_MarkEmit, R_Inspect, R_InspectGone, R_InspectReused,
          R_InspectNoChange, R_Reconcile, R_ReconcileCancelled,
          R_ReconcileGone, R_ReconcileNoChange, R_ReconcileRetryCancel,
          R_ReconcileRediscover, R_Rediscover, R_ReconcileReused
  <2>2. CASE s \in reused \/ sessions[s].state \in TerminalSessionStates
    BY <1>e, <2>2 DEF EndedInv
  <2>3. ASSUME s = Target, rpc.pc \in ControlPCs,
               RequestSaves(sessions'[s].state),
               sessions'[s].state \in TerminalSessionStates
        PROVE  Ended(Target)
    <3>1. CASE rpc.pc = "cancelSave"
      BY <3>1 DEF EndedInv
    <3>2. CASE /\ rpc.pc = "cancelRevert"
               /\ TargetSession.state \in TerminalSessionStates
      BY <1>c, <2>3, <3>2 DEF EndedInv, TargetSession
    <3>3. CASE PidAbsent(Target) \/ Target \in reused
      BY <1>c, <1>g, <2>3, <3>3 DEF EndedInv
    <3> QED BY <2>3, <3>1, <3>2, <3>3
            DEF RequestSaves, TerminalSessionStates
  <2> QED BY <1>1, <1>e, <1>r, <1>t, <2>1, <2>2, <2>3, RpcSessions
          DEF TypesInv
<1>2. ASSUME NEW s \in rpc'.todo, rpc'.snap[s].state \in TerminalSessionStates
      PROVE  Ended(s)'
  <2>1. s \in Sessions
    <3>1. RpcOK'
      BY TypesStep DEF TypesInv, Next
    <3> QED BY <3>1 DEF RpcOK, RpcTypeOK, RpcRecord
  <2> QED BY <1>2, <1>e, <1>r, <1>t, <2>1, RpcSnapshot DEF EndedInv
<1>3. ASSUME rpc'.pc \in {"cancelSave", "markRead", "markAttempt"}
      PROVE  Ended(Target)'
  <2>c. rpc'.todo = rpc.todo => Target' = Target
    BY TargetIsFirst
  <2>s. ASSUME Ended(Target), rpc.pc \in ControlPCs, rpc'.todo = rpc.todo
        PROVE  Ended(Target)'
    BY <1>c, <1>e, <2>c, <2>s
  <2>1. CASE R_CancelByAdapter \/ R_CancelByScope
    <3>1. rpc'.todo = rpc.todo /\ rpc.pc = "cancelKill"
      BY <1>t, <2>1 DEF R_CancelByAdapter, R_CancelByScope, RpcRecord
    <3>2. PICK s \in Sessions : s = Target
      BY <1>c, <1>p, <3>1
    <3>3. procs' = Killed(s)
      BY <2>1, <3>2 DEF R_CancelByAdapter, R_CancelByScope, KillOutcomes
    <3>4. Ended(s)'
      BY <1>c, <1>p, <3>1, <3>2, <3>3, KillEnds
    <3> QED BY <2>c, <3>1, <3>2, <3>4 DEF Ended
  <2>2. CASE R_CancelSave \/ R_MarkRead
    <3>1. rpc'.todo = rpc.todo /\ rpc.pc \in {"cancelSave", "markRead"}
      BY <1>t, <2>2 DEF R_CancelSave, R_MarkRead, RpcRecord
    <3> QED BY <1>p, <2>s, <3>1 DEF EndedInv
  <2>3. CASE R_ReconcileCancelled \/ R_ReconcileGone
    <3>1. /\ rpc'.todo = rpc.todo /\ rpc.pc = "reconcile"
          /\ PidAbsent(Target)
      BY <1>t, <2>3 DEF R_ReconcileCancelled, R_ReconcileGone, RpcRecord
    <3> QED BY <1>g, <1>p, <2>s, <3>1
  <2>4. CASE rpc' = RpcIdle \/ rpc' = TargetDone
    <3>1. TargetDone.pc \in {"idle", "reconcile"}
      BY <1>t, TargetDonePC
    <3> QED BY <1>3, <2>4, <3>1 DEF RpcIdle
  <2>5. CASE R_Cancel \/ R_Inspect \/ R_Reconcile
    <3>1. rpc'.pc \in {"cancelMark", "inspect", "reconcile"}
      BY <1>t, <2>5 DEF R_Cancel, R_Inspect, R_Reconcile, StartControl,
                        RpcRecord
    <3> QED BY <1>3, <3>1
  <2> QED BY <1>3, <1>r, <1>t, <2>1, <2>2, <2>3, <2>4, <2>5
          DEF RpcStep, RpcRecord, R_Submit, R_SubmitAttempt, R_SubmitQueue,
              R_Retry, R_RetryAttempt, R_RetryRefused, R_RetryJob,
              R_RetryQueue, R_CancelMark, R_CancelFails, R_CancelRevert,
              R_MarkAttempt, R_MarkJobRead, R_MarkJob, R_MarkEmit,
              R_InspectGone, R_InspectReused, R_InspectNoChange,
              R_ReconcileNoChange, R_ReconcileRetryCancel,
              R_ReconcileRediscover, R_Rediscover, R_ReconcileReused
<1>4. \A s \in mon'.todo :
         mon'.snap[s].state \in TerminalSessionStates => Ended(s)'
  BY <1>e, <1>r, <1>t DEF EndedInv
<1>5. mon'.pc \in {"ended", "final", "attempt"} => Ended(Cur)'
  <2>1. Cur' = Cur
    BY <1>r DEF Cur
  <2>2. mon.pc \in {"ended", "final", "attempt"} => Cur \in Sessions
    BY CurrentSession DEF TypesInv
  <2> QED BY <1>e, <1>r, <2>1, <2>2 DEF EndedInv
<1> QED BY <1>1, <1>2, <1>3, <1>4, <1>5 DEF EndedInv

LEMMA EndedStep ==
    ASSUME KillMayFail = FALSE, TypesInv, BindingInv, EndedInv, [Next]_vars
    PROVE  EndedInv'
<1>t. mon.todo \subseteq Sessions /\ rpc.todo \subseteq Sessions
  BY DEF TypesInv, MonitorOK, MonitorTypeOK, MonitorRecord, RpcOK, RpcTypeOK,
         RpcRecord
<1>e. \A s \in Sessions : Ended(s) => Ended(s)'
  BY EndsStay
<1>c. /\ mon.pc \in {"ended", "final", "attempt"} => Cur \in Sessions
      /\ rpc.pc \in {"cancelSave", "markRead", "markAttempt"}
            => Target \in Sessions
  BY CurrentSession, TargetBound DEF TypesInv, ControlPCs, RpcPCs
(* The monitor and the request do not move. *)
<1>k. ASSUME mon' = mon, rpc' = rpc,
             \A s \in Sessions :
                s \in reused' \/ sessions'[s].state \in TerminalSessionStates
                   => Ended(s)'
      PROVE  EndedInv'
  <2>1. Cur' = Cur /\ Target' = Target
    BY <1>k, TargetIsFirst DEF Cur
  <2> QED BY <1>t, <1>e, <1>c, <1>k, <2>1 DEF EndedInv
<1>1. CASE Dispatch
  <2>1. /\ mon' = mon /\ rpc' = rpc /\ DispatcherStep
    BY <1>1 DEF Dispatch, monitorVars, rpcVars
  <2>2. reused' = reused
    BY <2>1 DEF DispatcherStep, sessionVars, D_Pass, D_Skip, D_MayStart,
          D_Claim, D_ClaimRefused, D_Load, D_NotClaimed, D_Hold,
          D_HoldRelease, D_RepoUnavailable, D_Worktree, D_WorktreeFails,
          D_Run, D_StartFails, D_Start, D_Register, D_Bind, D_JobRun, D_Fail,
          D_FailJob
  <2>3. \A s \in Sessions :
           sessions'[s] = sessions[s]
              \/ sessions'[s].state \notin TerminalSessionStates
    <3>1. sessions \in [Sessions -> SessionRecord]
      BY DEF TypesInv, SessionOK, SessionTypeOK
    <3>2. CASE D_Register
      BY <3>1, <3>2 DEF D_Register, SaveSession, TerminalSessionStates
    <3> QED BY <2>1, <3>2, DispatcherSessions
  <2> QED BY <1>e, <1>k, <2>1, <2>2, <2>3 DEF EndedInv
<1>2. CASE Observe
  BY <1>2, EndedObserve
<1>3. CASE Serve
  BY <1>3, EndedServe
<1>4. CASE Environment
  <2>1. mon' = mon /\ rpc' = rpc /\ sessions' = sessions
    BY <1>4 DEF Environment, ProcessExits, Reaped, PidTakenAgain,
                DeadlinePasses, LeaseExpires, HoldElapses, sessionVars,
                monitorVars, rpcVars
  <2>2. \A s \in reused' : s \in reused \/ Ended(s)
    BY <1>4 DEF Environment, ProcessExits, Reaped, PidTakenAgain,
                DeadlinePasses, LeaseExpires, HoldElapses, sessionVars, Ended
  <2> QED BY <1>e, <1>k, <2>1, <2>2 DEF EndedInv
<1>5. CASE CrashRestart
  <2>1. /\ sessions' = sessions /\ reused' = reused
        /\ mon'.todo = {} /\ mon'.pc = "idle"
        /\ rpc'.todo = {} /\ rpc'.pc = "idle"
    BY <1>5 DEF CrashRestart, MonitorIdle, RpcIdle
  <2> QED BY <1>e, <2>1 DEF EndedInv
<1>6. CASE UNCHANGED vars
  <2>1. /\ mon' = mon /\ rpc' = rpc /\ sessions' = sessions
        /\ reused' = reused
    BY <1>6 DEF vars, sessionVars, monitorVars, rpcVars
  <2> QED BY <1>e, <1>k, <2>1 DEF EndedInv
<1> QED BY <1>1, <1>2, <1>3, <1>4, <1>5, <1>6 DEF Next

LEMMA RunningStep ==
    ASSUME FreshRetryIds, TypesInv, BindingInv, StartInv, EndedInv, RunningInv,
           [Next]_vars
    PROVE  RunningInv'
<1>t. /\ procs \in [Sessions -> ProcRecord]
      /\ attempts \in [Attempts -> AttemptRecord]
      /\ disp \in DispatchRecord
  BY DEF TypesInv, SessionOK, SessionTypeOK, QueueOK, QueueTypeOK, DispatchOK,
         DispatchTypeOK
<1>b. \A s \in Sessions : Alive(s) =>
         /\ procs[s].attempt \in Attempts
         /\ Started(procs[s].attempt)
         /\ attempts[procs[s].attempt].state = "RUNNING"
  <2>1. \A s \in Sessions : Alive(s) => procs[s].attempt # NoAttempt
    BY DEF Alive, BindingInv, RegistryBound
  <2> QED BY <1>t, <2>1 DEF RunningInv, ProcRecord, Started
(* No process was started, and no RUNNING attempt of a live one is touched. *)
<1>k. ASSUME ProcessesStay,
             \A s \in Sessions :
                Alive(s) => attempts'[procs[s].attempt].state = "RUNNING"
      PROVE  RunningInv'
  <2>1. ASSUME NEW s \in Sessions, Alive(s)'
        PROVE  Alive(s) /\ procs'[s].attempt = procs[s].attempt
    BY <1>t, <1>k, <2>1 DEF ProcessesStay, Alive, Ended, ProcRecord
  <2> QED BY <1>k, <2>1 DEF RunningInv
<1>1. CASE Dispatch
  <2>1. DispatcherStep
    BY <1>1 DEF Dispatch
  <2>2. CASE D_Start
    <3>1. PICK s \in Sessions :
             /\ procs' = [procs EXCEPT ![s].state = "alive",
                                       ![s].attempt = disp.cur]
             /\ attempts' = attempts
             /\ disp.pc = "start"
      BY <2>2 DEF D_Start, queueVars
    <3>2. attempts[disp.cur].state = "RUNNING"
      BY <3>1 DEF StartInv, ClaimInFlight
    <3>3. procs'[s].attempt = disp.cur
      BY <1>t, <3>1 DEF ProcRecord
    <3>4. \A r \in Sessions : r # s => procs'[r] = procs[r]
      BY <1>t, <3>1
    <3> QED BY <3>1, <3>2, <3>3, <3>4 DEF RunningInv, Alive
  <2>3. CASE procs' = procs
    <3>1. ASSUME NEW a \in Attempts, Started(a), attempts[a].state = "RUNNING"
          PROVE  attempts'[a].state = "RUNNING"
      <4>1. CASE a = disp.cur /\ (D_Hold \/ D_Run)
        BY <3>1, <4>1 DEF D_Hold, D_Run, StartInv, ClaimInFlight
      <4>2. CASE a = disp.cur /\ D_Fail
        BY <3>1, <4>2 DEF D_Fail, StartInv, ClaimInFlight
      <4>3. CASE a = disp.cur /\ D_Bind /\ attempts'[a].state = disp.att.state
        BY <4>3 DEF D_Bind, StartInv, CopyOfClaim
      <4>4. D_Bind => ~D_Run /\ ~D_Fail
        BY DEF D_Bind, D_Run, D_Fail
      <4> QED BY <2>1, <3>1, <4>1, <4>2, <4>3, <4>4, DispatcherAttempts
              DEF TypesInv
    <3>2. \A s \in Sessions :
             Alive(s) => attempts'[procs[s].attempt].state = "RUNNING"
      BY <1>b, <3>1
    <3> QED BY <1>k, <2>3, <3>2, SameProcesses
  <2> QED BY <2>1, <2>2, <2>3, DispatcherProcesses
<1>2. CASE Observe
  <2>1. MonitorStep
    BY <1>2 DEF Observe
  <2>2. mon.pc \in {"ended", "attempt"} =>
           /\ Cur \in mon.todo /\ Cur \in Sessions /\ Ended(Cur)
           /\ CurAttempt = procs[Cur].attempt
    BY CurrentSession DEF TypesInv, EndedInv, BindingInv, CurAttempt
  <2>3. ASSUME NEW s \in Sessions, Alive(s)
        PROVE  attempts'[procs[s].attempt].state = "RUNNING"
    <3>1. /\ procs[s].attempt \in Attempts
          /\ attempts[procs[s].attempt].state = "RUNNING"
      BY <1>b, <2>3
    <3>2. CASE mon.pc \in {"ended", "attempt"} /\ procs[s].attempt = CurAttempt
      <4>1. s = Cur
        BY <2>2, <3>1, <3>2, QueueAssumption DEF StartInv
      <4> QED BY <2>2, <2>3, <3>2, <4>1 DEF Alive, Ended
    <3> QED BY <2>1, <3>1, <3>2, MonitorAttempts DEF TypesInv
  <2> QED BY <1>k, <2>1, <2>3, MonitorProcesses DEF TypesInv
<1>3. CASE Serve
  <2>1. RpcStep
    BY <1>3 DEF Serve
  <2>2. rpc.pc = "markAttempt" =>
           /\ Target \in rpc.todo /\ Target \in Sessions /\ Ended(Target)
           /\ TargetAttempt = procs[Target].attempt
    <3>1. "markAttempt" \in ControlPCs
      BY DEF ControlPCs, RpcPCs
    <3> QED BY <3>1, TargetBound DEF TypesInv, EndedInv, BindingInv,
                                     TargetAttempt
  <2>3. ASSUME NEW s \in Sessions, Alive(s)
        PROVE  attempts'[procs[s].attempt].state = "RUNNING"
    <3>1. /\ procs[s].attempt \in Attempts
          /\ attempts[procs[s].attempt].state = "RUNNING"
      BY <1>b, <2>3
    <3>2. CASE rpc.pc = "markAttempt" /\ procs[s].attempt = TargetAttempt
      <4>1. s = Target
        BY <2>2, <3>1, <3>2, QueueAssumption DEF StartInv
      <4> QED BY <2>2, <2>3, <3>2, <4>1 DEF Alive, Ended
    <3>3. /\ rpc.pc = "submitAttempt" => attempts[rpc.aid].state # "RUNNING"
          /\ rpc.pc \in {"submitQueue", "retryQueue"}
                => attempts[rpc.aid].state # "RUNNING"
          /\ \A b \in RetryIds(rpc.job) : attempts[b].state # "RUNNING"
      BY DEF StartInv, NewAttempts, RetryIds
    <3> QED BY <2>1, <3>1, <3>2, <3>3, RpcAttempts DEF TypesInv
  <2> QED BY <1>k, <2>1, <2>3, RpcProcesses DEF TypesInv
<1>4. CASE Environment
  <2>1. ASSUME NEW s \in Sessions, Alive(s)
        PROVE  attempts'[procs[s].attempt].state = "RUNNING"
    BY <1>b, <1>4, <2>1, EnvironmentAttempts DEF TypesInv
  <2> QED BY <1>k, <1>4, <2>1, EnvironmentProcesses DEF TypesInv
<1>5. CASE procs' = procs /\ attempts' = attempts
  BY <1>5 DEF RunningInv, Alive
<1> QED BY <1>1, <1>2, <1>3, <1>4, <1>5
        DEF Next, CrashRestart, vars, sessionVars, queueVars

LEMMA EndedInit ==
    ASSUME Init
    PROVE  EndedInv /\ RunningInv
BY DEF Init, SessionInit, MonitorInit, RpcInit, MonitorIdle, RpcIdle, NoProc,
       AbsentSession, TerminalSessionStates, EndedInv, RunningInv, Alive

-----------------------------------------------------------------------------
(* The daemon implements SlotPool: a claim acquires a slot, D_Start starts *)
(* the process, a death is an exit, and every other step releases the      *)
(* slots that are no longer held, or changes nothing.                      *)

Starts == {a \in Attempts : StartedFor(a) # {}}

Lives == {procs[s].attempt : s \in {t \in Sessions : Alive(t)}}

LEMMA SlotsOfLives ==
    ASSUME TypesInv, BindingInv, RunningInv
    PROVE  Lives \subseteq Active
<1>1. ASSUME NEW s \in Sessions, Alive(s)
      PROVE  procs[s].attempt \in Active
  <2>1. procs[s].attempt # NoAttempt
    BY <1>1 DEF Alive, BindingInv, RegistryBound
  <2>2. procs[s].attempt \in Attempts
    BY <2>1 DEF TypesInv, SessionOK, SessionTypeOK, ProcRecord
  <2> QED BY <1>1, <2>2 DEF RunningInv, Active
<1> QED BY <1>1 DEF Lives

(* The two names of one operator. *)
LEMMA PoolCardinality == \A S : Pool!Cardinality(S) = Cardinality(S)
BY DEF Pool!Cardinality, Cardinality

LEMMA ClaimAcquires ==
    ASSUME TypesInv, StartInv, CapacityInv, D_Claim
    PROVE  \E a \in Attempts : Pool!Acquire(a)
<1> DEFINE a == HeadOf(disp.queue).id
<1>t. /\ disp \in DispatchRecord
      /\ attempts \in [Attempts -> AttemptRecord]
  BY DEF TypesInv, QueueOK, QueueTypeOK, DispatchOK, DispatchTypeOK
<1>1. a \in Attempts
  <2>1. HeadOf(disp.queue) \in disp.queue
    BY <1>t, HeadIn DEF D_Claim, TypesInv, DispatchOK, DispatchRecord
  <2> QED BY <1>t, <2>1 DEF DispatchRecord, QueueEntry
<1>2. /\ attempts[a].state = "QUEUED" /\ disp.pc = "claim"
      /\ \E rec : rec.state = "CLAIMED" /\ SaveAttempt(a, rec)
      /\ disp'.pc = "load" /\ disp'.cur = a /\ procs' = procs
  <2>1. SaveAttempt(a, [attempts[a] EXCEPT !.state = "CLAIMED",
                                           !.expired = FALSE])
    BY DEF D_Claim
  <2>2. [attempts[a] EXCEPT !.state = "CLAIMED",
                            !.expired = FALSE].state = "CLAIMED"
    BY <1>t, <1>1 DEF AttemptRecord
  <2>3. disp'.pc = "load" /\ disp'.cur = a
    BY <1>t DEF D_Claim, DispatchRecord
  <2> QED BY <2>1, <2>2, <2>3 DEF D_Claim, Claimable, sessionVars
<1> HIDE DEF a
<1>3. Holding = Active
  BY <1>2 DEF Holding, InFlight
<1>4. Holding' = Holding \cup {a}
  <2>1. Active' = Active \cup {a}
    BY <1>t, <1>1, <1>2 DEF SaveAttempt, Active
  <2> QED BY <1>2, <1>3, <2>1 DEF Holding, InFlight
<1>5. a \notin Holding
  BY <1>2, <1>3 DEF Active
<1>6. a \notin Starts
  BY <1>2 DEF Starts, StartedFor, StartInv, Started, OnceStarted,
              TerminalAttemptStates
<1>7. Starts' = Starts /\ Lives' = Lives
  BY <1>2 DEF Starts, Lives, StartedFor, Alive
<1>8. Cardinality(Holding) < GlobalLimit
  BY <1>2, <1>3 DEF CapacityInv
<1> QED BY <1>1, <1>4, <1>5, <1>6, <1>7, <1>8, PoolCardinality
        DEF Pool!Acquire, Starts, Lives

LEMMA StartStarts ==
    ASSUME TypesInv, BindingInv, StartInv, D_Start
    PROVE  \E a \in Attempts : Pool!Start(a)
<1>t. /\ disp \in DispatchRecord /\ procs \in [Sessions -> ProcRecord]
  BY DEF TypesInv, DispatchOK, DispatchTypeOK, SessionOK, SessionTypeOK
<1>1. PICK s \in Sessions :
         /\ procs[s].state = "none"
         /\ procs' = [procs EXCEPT ![s].state = "alive",
                                   ![s].attempt = disp.cur]
         /\ disp' = [disp EXCEPT !.pc = "register", !.session = s]
  BY DEF D_Start
<1>2. PICK a \in Attempts : a = disp.cur
  BY DEF D_Start, TypesInv, DispatchOK
<1>3. /\ disp.pc = "start" /\ disp'.pc = "register" /\ disp'.cur = a
      /\ attempts' = attempts
  BY <1>t, <1>1, <1>2 DEF D_Start, DispatchRecord, queueVars
<1>4. a \in Holding /\ Holding' = Holding
  BY <1>2, <1>3 DEF Holding, InFlight, Active
<1>5. /\ procs'[s].attempt = a /\ procs'[s].state = "alive"
      /\ \A r \in Sessions : r # s => procs'[r] = procs[r]
      /\ procs[s].attempt = NoAttempt
  BY <1>t, <1>1, <1>2 DEF ProcRecord, BindingInv, RegistryBound
<1>6. Lives' = Lives \cup {a}
  <2>1. /\ Alive(s)' /\ ~Alive(s)
        /\ \A r \in Sessions : r # s => Alive(r)' = Alive(r)
    BY <1>1, <1>5 DEF Alive
  <2>2. ASSUME NEW x PROVE x \in Lives' <=> x \in Lives \cup {a}
    BY <1>5, <2>1 DEF Lives
  <2> QED BY <2>2
<1>7. Starts' = Starts \cup {a}
  BY <1>5, QueueAssumption DEF Starts, StartedFor
<1>8. a \notin Starts
  BY <1>2, <1>3 DEF Starts, StartedFor, StartInv, ClaimInFlight, Started
<1> QED BY <1>4, <1>6, <1>7, <1>8 DEF Pool!Start, Starts, Lives

(* A death: the slot is kept, and the process is that of one attempt.      *)
LEMMA DeathExits ==
    ASSUME TypesInv, BindingInv, StartInv, ProcessesStay, AtMostOneExit,
           attempts' = attempts, disp' = disp
    PROVE  \/ \E a \in Attempts : Pool!Exit(a)
           \/ UNCHANGED <<Holding, Starts, Lives>>
<1>t. procs \in [Sessions -> ProcRecord]
  BY DEF TypesInv, SessionOK, SessionTypeOK
<1>1. Holding' = Holding
  BY DEF Holding, InFlight, Active
<1>2. /\ \A s \in Sessions : procs'[s].attempt = procs[s].attempt
      /\ Starts' = Starts
  BY DEF ProcessesStay, Starts, StartedFor
<1>3. PICK s \in Sessions : \A t \in Sessions :
         /\ Alive(t)' => Alive(t)
         /\ t # s => (Alive(t) => Alive(t)')
  BY DEF AtMostOneExit
<1>4. CASE Alive(s) /\ ~Alive(s)'
  <2>1. procs[s].attempt # NoAttempt
    BY <1>4 DEF Alive, BindingInv, RegistryBound
  <2>2. PICK a \in Attempts : a = procs[s].attempt
    BY <1>t, <2>1 DEF ProcRecord
  <2>3. \A t \in Sessions : procs[t].attempt = a => t = s
    BY <2>1, <2>2 DEF StartInv
  <2>4. Lives' = Lives \ {a}
    BY <1>2, <1>3, <1>4, <2>2, <2>3 DEF Lives
  <2> QED BY <1>1, <1>2, <2>4 DEF Pool!Exit, Starts, Lives
<1>5. CASE ~Alive(s) \/ Alive(s)'
  <2>1. \A t \in Sessions : Alive(t)' <=> Alive(t)
    BY <1>3, <1>5
  <2>2. Lives' = Lives
    BY <1>2, <2>1 DEF Lives
  <2> QED BY <1>1, <1>2, <2>2
<1> QED BY <1>4, <1>5

(* Everything else: what is held no longer does not belong to a process.   *)
LEMMA RestReleases ==
    ASSUME TypesInv, procs' = procs, Holding' \subseteq Holding,
           Lives' \subseteq Active'
    PROVE  \E S \in SUBSET Attempts : Pool!Release(S)
<1>1. Starts' = Starts /\ Lives' = Lives
  BY DEF Starts, StartedFor, Lives, Alive
<1>2. PICK S : S = Holding \ Holding'
  OBVIOUS
<1>3. S \in SUBSET Attempts
  BY <1>2, HoldingFinite DEF TypesInv
<1>4. S \cap Lives = {} /\ Holding' = Holding \ S
  BY <1>1, <1>2 DEF Holding
<1> QED BY <1>1, <1>3, <1>4 DEF Pool!Release, Starts, Lives

LEMMA PoolStep ==
    ASSUME TypesInv, BindingInv, StartInv, CapacityInv,
           Lives' \subseteq Active',
           [Next]_vars
    PROVE  Pool!PoolNext \/ UNCHANGED <<Holding, Starts, Lives>>
<1>a. ASSUME NEW a \in Attempts,
             Pool!Acquire(a) \/ Pool!Start(a) \/ Pool!Exit(a)
      PROVE  Pool!PoolNext
  BY <1>a DEF Pool!PoolNext
<1>r. ASSUME procs' = procs, Holding' \subseteq Holding
      PROVE  Pool!PoolNext
  BY <1>r, RestReleases DEF Pool!PoolNext
<1>1. CASE Dispatch
  <2>1. DispatcherStep
    BY <1>1 DEF Dispatch
  <2>2. CASE D_Claim
    BY <1>a, <2>2, ClaimAcquires
  <2>3. CASE D_Start
    BY <1>a, <2>3, StartStarts
  <2> QED BY <1>r, <2>1, <2>2, <2>3, DispatcherProcesses, DispatcherHolds
<1>2. CASE ~Dispatch
  <2>1. Holding' \subseteq Holding
    BY <1>2, OthersHold
  <2>2. CASE procs' = procs
    BY <1>r, <2>1, <2>2
  <2>3. CASE procs' # procs
    <3>1. /\ ProcessesStay /\ AtMostOneExit /\ attempts' = attempts
      BY <1>2, <2>3, MonitorProcesses, RpcProcesses, EnvironmentProcesses
         DEF Next, Observe, Serve, CrashRestart, vars, sessionVars, TypesInv
    <3>2. disp' = disp
      BY <1>2, <2>3
         DEF Next, Observe, Serve, Environment, CrashRestart, vars,
             dispatchVars, sessionVars, ProcessExits, Reaped, PidTakenAgain,
             DeadlinePasses, LeaseExpires, HoldElapses
    <3> QED BY <1>a, <3>1, <3>2, DeathExits
  <2> QED BY <2>2, <2>3
<1> QED BY <1>1, <1>2

(* The daemon keeps the promise of SlotPool: an attempt starts at most one *)
(* process in its life, only with a slot, and the slot is given back only  *)
(* when the process is dead, whichever of the threads ends the attempt and *)
(* wherever the daemon crashes.  It is promised for kills that have an     *)
(* effect and for retries under unused names.                              *)
THEOREM SlotsImplementPool ==
    ASSUME FreshRetryIds, KillMayFail = FALSE
    PROVE  Spec => SlotsAreKept
<1> DEFINE I == /\ TypesInv /\ BindingInv /\ StartInv /\ CapacityInv
                /\ EndedInv /\ RunningInv
<1>1. Init => I
  BY TypesInit, BindingInit, StartInit, CapacityInit, EndedInit
<1>2. I /\ [Next]_vars => I'
  BY TypesStep, BindingStep, StartStep, CapacityStep, EndedStep, RunningStep
<1>3. Init => Pool!PoolInit
  <2> SUFFICES ASSUME Init PROVE Pool!PoolInit
    OBVIOUS
  <2>1. Holding = {}
    BY DEF Init, QueueInit, DispatchInit, DispatchIdle, AbsentAttempt, Holding,
           Active, InFlight
  <2>2. \A s \in Sessions : procs[s].attempt = NoAttempt /\ ~Alive(s)
    BY DEF Init, SessionInit, NoProc, Alive
  <2> QED BY <2>1, <2>2, QueueAssumption DEF Pool!PoolInit, StartedFor
<1>4. I => Lives \subseteq Active
  BY SlotsOfLives
<1>5. I /\ (Lives \subseteq Active)' /\ [Next]_vars
         => [Pool!PoolNext]_(Pool!poolVars)
  <2> SUFFICES ASSUME I, (Lives \subseteq Active)', [Next]_vars
               PROVE  [Pool!PoolNext]_(Pool!poolVars)
    OBVIOUS
  <2>1. Pool!PoolNext \/ UNCHANGED <<Holding, Starts, Lives>>
    BY PoolStep
  <2> QED BY <2>1 DEF Pool!poolVars, Starts, Lives
<1> QED BY <1>1, <1>2, <1>3, <1>4, <1>5, PTL
        DEF Spec, SlotsAreKept, Pool!PoolSpec

(* So there are never more live processes than Scheduler.global_limit, and *)
(* every one of them belongs to an attempt that holds a slot.              *)
THEOREM LiveProcessesWithinLimit ==
    ASSUME FreshRetryIds, KillMayFail = FALSE
    PROVE  Spec => []Pool!LiveWithinLimit
<1> DEFINE I == /\ TypesInv /\ BindingInv /\ StartInv /\ CapacityInv
                /\ EndedInv /\ RunningInv
<1>1. Init => I
  BY TypesInit, BindingInit, StartInit, CapacityInit, EndedInit
<1>2. I /\ [Next]_vars => I'
  BY TypesStep, BindingStep, StartStep, CapacityStep, EndedStep, RunningStep
<1>3. I => Pool!LiveWithinLimit
  <2> SUFFICES ASSUME I PROVE Pool!LiveWithinLimit
    OBVIOUS
  <2>1. Lives \subseteq Holding
    BY SlotsOfLives DEF Holding
  <2>2. /\ IsFiniteSet(Holding) /\ Cardinality(Holding) \in Nat
        /\ Cardinality(Holding) <= GlobalLimit
    BY HoldingFinite DEF TypesInv, CapacityInv, GlobalCapacity
  <2>3. IsFiniteSet(Lives) /\ Cardinality(Lives) <= Cardinality(Holding)
    BY <2>1, <2>2, FS_Subset
  <2>4. Cardinality(Lives) \in Nat
    BY <2>3, FS_CardinalityType
  <2>5. Cardinality(Lives) <= GlobalLimit
    BY <2>2, <2>3, <2>4, QueueAssumption
  <2> QED BY <2>1, <2>5, PoolCardinality DEF Pool!LiveWithinLimit, Lives
<1> QED BY <1>1, <1>2, <1>3, PTL DEF Spec

-----------------------------------------------------------------------------
(* Completion: between the reading of an exit code and the save of         *)
(* COMPLETED there are several saves of several threads, and what was read *)
(* must still be the code of a process of that attempt.                    *)

LEMMA CopyStep ==
    ASSUME TypesInv, CopyOfClaim, [Next]_vars
    PROVE  CopyOfClaim'
<1>t. disp \in DispatchRecord /\ disp.att \in AttemptRecord
  BY DEF TypesInv, DispatchOK, DispatchTypeOK, DispatchRecord
<1>n. \A Q : NextEntry(Q).pc \in {"idle", "examine"}
  BY DEF NextEntry, DispatchIdle
<1>1. CASE disp' = disp \/ disp'.pc \in {"idle", "examine", "claim", "load",
                                         "holdRelease", "jobRun", "fail",
                                         "failJob"}
  BY <1>1 DEF CopyOfClaim
<1>2. CASE \E Q : disp' = NextEntry(Q)
  BY <1>1, <1>2, <1>n
<1>3. CASE D_Load
  BY <1>t, <1>3 DEF D_Load, DispatchRecord, CopyOfClaim
<1>4. CASE D_Run
  BY <1>t, <1>4 DEF D_Run, DispatchRecord, AttemptRecord, CopyOfClaim
<1>5. CASE D_Worktree \/ D_Start \/ D_Register
  BY <1>t, <1>5 DEF D_Worktree, D_Start, D_Register, DispatchRecord,
                    CopyOfClaim
<1>6. CASE D_MayStart \/ D_Claim \/ D_Hold \/ D_RepoUnavailable
           \/ D_WorktreeFails \/ D_StartFails \/ D_Bind \/ D_Fail
  <2>1. disp'.pc \in {"idle", "claim", "load", "holdRelease", "jobRun", "fail",
                      "failJob"}
    <3>1. CASE D_MayStart \/ D_Claim \/ D_Hold
      BY <1>t, <3>1 DEF D_MayStart, D_Claim, D_Hold, DispatchRecord
    <3>2. CASE D_WorktreeFails \/ D_StartFails \/ D_Bind \/ D_Fail
      BY <1>t, <3>2 DEF D_WorktreeFails, D_StartFails, D_Bind, D_Fail,
                        DispatchRecord
    <3>3. CASE D_RepoUnavailable
      BY <3>3 DEF D_RepoUnavailable, DispatchIdle
    <3> QED BY <1>6, <3>1, <3>2, <3>3
  <2> QED BY <1>1, <2>1
<1>7. CASE Environment \/ CrashRestart
  <2>1. CASE Environment
    BY <1>1, <2>1 DEF Environment, ProcessExits, Reaped, PidTakenAgain,
                      DeadlinePasses, LeaseExpires, HoldElapses, dispatchVars
  <2>2. CASE CrashRestart
    BY <1>1, <2>2 DEF CrashRestart, DispatchIdle
  <2> QED BY <1>7, <2>1, <2>2
<1> QED BY <1>1, <1>2, <1>3, <1>4, <1>5, <1>6, <1>7
        DEF Next, Dispatch, Observe, Serve, dispatchVars, vars,
            DispatcherStep, D_Pass, D_Skip, D_ClaimRefused, D_NotClaimed,
            D_HoldRelease, D_JobRun, D_FailJob

(* Requests of a daemon that is never asked to reconcile have one target.  *)
OneTargetEach ==
    /\ rpc.pc \notin {"reconcile", "rediscover"}
    /\ rpc.pc \in ControlPCs => \E s : rpc.todo = {s}

LEMMA OneTargetStep ==
    ASSUME "reconcile" \notin Requests, TypesInv, OneTargetEach, [Next]_vars
    PROVE  OneTargetEach'
<1>t. rpc \in RpcRecord /\ RpcOK
  BY DEF TypesInv, RpcOK, RpcTypeOK
<1>i. "idle" \notin ControlPCs
  BY DEF ControlPCs
<1>s. \A pc \in {"submitAttempt", "submitQueue", "retryAttempt", "retryJob",
                 "retryQueue"} : pc \notin ControlPCs
  BY DEF ControlPCs
<1>1. CASE rpc' = RpcIdle
  BY <1>i, <1>1 DEF RpcIdle, OneTargetEach
<1>2. CASE rpc' = TargetDone /\ rpc.pc \in ControlPCs
  <2>1. rpc.todo = {Target}
    BY <1>t, <1>2, TargetBound DEF OneTargetEach
  <2> QED BY <1>1, <1>2, <2>1 DEF TargetDone
<1>3. CASE rpc'.pc \in {"submitAttempt", "submitQueue", "retryAttempt",
                        "retryJob", "retryQueue"}
  BY <1>s, <1>3 DEF OneTargetEach
<1>4. CASE rpc.pc \in ControlPCs /\ rpc'.todo = rpc.todo
           /\ rpc'.pc \notin {"reconcile", "rediscover"}
  BY <1>4 DEF OneTargetEach
<1>5. ASSUME NEW request, NEW pc \in {"cancelMark", "inspect"}, NEW s,
             StartControl(request, pc, {s})
      PROVE  OneTargetEach'
  BY <1>t, <1>5 DEF StartControl, RpcRecord, OneTargetEach
<1>6. CASE R_Cancel \/ R_Inspect
  BY <1>5, <1>6 DEF R_Cancel, R_Inspect
<1>7. CASE RpcStep
  <2>1. ~R_Reconcile
    BY DEF R_Reconcile, StartControl
  <2>2. rpc.pc \notin {"reconcile", "rediscover"}
    BY DEF OneTargetEach
  <2>3. CASE R_Submit \/ R_SubmitAttempt \/ R_Retry \/ R_RetryAttempt
             \/ R_RetryJob
    BY <1>t, <1>3, <2>3 DEF R_Submit, R_SubmitAttempt, R_Retry,
          R_RetryAttempt, R_RetryJob, RpcRecord
  <2>4. CASE R_SubmitQueue \/ R_RetryQueue \/ R_RetryRefused
             \/ R_CancelRevert \/ R_InspectGone \/ R_InspectReused
             \/ R_InspectNoChange
    BY <1>1, <2>4 DEF R_SubmitQueue, R_RetryQueue, R_RetryRefused,
          R_CancelRevert, R_InspectGone, R_InspectReused, R_InspectNoChange
  <2>5. CASE R_CancelMark \/ R_CancelByAdapter \/ R_CancelByScope
             \/ R_CancelFails \/ R_CancelSave
    BY <1>t, <1>4, <2>5 DEF R_CancelMark, R_CancelByAdapter, R_CancelByScope,
          R_CancelFails, R_CancelSave, RpcRecord, ControlPCs, RpcPCs
  <2>6. CASE R_MarkRead \/ R_MarkAttempt \/ R_MarkJobRead \/ R_MarkJob
    BY <1>t, <1>4, <2>6 DEF R_MarkRead, R_MarkAttempt, R_MarkJobRead,
          R_MarkJob, RpcRecord, ControlPCs, RpcPCs
  <2>7. CASE R_MarkEmit
    BY <1>2, <2>7 DEF R_MarkEmit, ControlPCs, RpcPCs
  <2> QED BY <1>6, <1>7, <2>1, <2>2, <2>3, <2>4, <2>5, <2>6, <2>7
          DEF RpcStep, R_ReconcileCancelled, R_ReconcileGone,
              R_ReconcileNoChange, R_ReconcileRetryCancel,
              R_ReconcileRediscover, R_Rediscover, R_ReconcileReused
<1>8. CASE rpc' = rpc
  BY <1>8 DEF OneTargetEach
<1>9. CASE Environment
  BY <1>8, <1>9 DEF Environment, ProcessExits, Reaped, PidTakenAgain,
                    DeadlinePasses, LeaseExpires, HoldElapses, rpcVars
<1> QED BY <1>1, <1>7, <1>8, <1>9
        DEF Next, Dispatch, Observe, Serve, CrashRestart, rpcVars, vars

ZeroExit(s) == Ended(s) /\ procs[s].code = "0"

CompletedInv ==
    /\ \A a \in Attempts :
          attempts[a].state = "COMPLETED" =>
             \E s \in Sessions : procs[s].attempt = a /\ ZeroExit(s)
    /\ mon.pc \in {"final", "attempt"} /\ mon.out.attempt = "COMPLETED"
          => ZeroExit(Cur)
    /\ rpc.to # "COMPLETED"

LEMMA CompletedMonitor ==
    ASSUME TypesInv, BindingInv, CompletedInv, MonitorStep,
           \A s \in Sessions : ZeroExit(s) => ZeroExit(s)',
           mon'.pc \in {"final", "attempt"}, mon'.out.attempt = "COMPLETED"
    PROVE  ZeroExit(Cur)'
<1>t. mon \in MonitorRecord /\ mon.todo \subseteq Sessions
  BY DEF TypesInv, MonitorOK, MonitorTypeOK, MonitorRecord
<1>c. mon.pc # "idle" => /\ Cur \in mon.todo /\ Cur \in Sessions
                         /\ procs[Cur].state # "none"
  BY CurrentSession, BoundProcesses DEF TypesInv
<1>k. ASSUME mon.pc # "idle", mon'.todo = mon.todo, ZeroExit(Cur)
      PROVE  ZeroExit(Cur)'
  <2>1. Cur' = Cur
    BY <1>k DEF Cur
  <2> QED BY <1>c, <1>k, <2>1
<1>1. CASE M_Gone
  <2>1. PICK code \in ExitReadings(Cur), intact \in BOOLEAN :
           mon' = [mon EXCEPT !.pc = "final", !.att = attempts[CurAttempt],
                              !.out = [session |-> GoneAs(code, intact),
                                       attempt |-> GoneAs(code, intact),
                                       event   |-> TRUE]]
    BY <1>1 DEF M_Gone
  <2>2. mon.pc # "idle" /\ mon'.todo = mon.todo
        /\ mon'.out.attempt = GoneAs(code, intact)
    BY <1>t, <1>1, <2>1 DEF M_Gone, Examine, MonitorRecord
  <2>3. code = "0"
    BY <2>2 DEF GoneAs
  <2>4. procs[Cur].code = "0"
    BY <2>3 DEF ExitReadings, ScopeExitCodes
  <2>5. Ended(Cur)
    BY <1>c, <1>1, <2>2, StartedEnded DEF M_Gone, PidGone
  <2> QED BY <1>k, <2>2, <2>4, <2>5 DEF ZeroExit
<1>2. CASE M_FinalSession
  <2>1. mon.pc = "final" /\ mon'.todo = mon.todo /\ mon'.out = mon.out
    BY <1>t, <1>2 DEF M_FinalSession, MonitorRecord
  <2> QED BY <1>k, <2>1 DEF CompletedInv
<1>3. CASE M_Kill
  <2>1. mon'.out.attempt = "TIMED_OUT"
    BY <1>t, <1>3 DEF M_Kill, MonitorRecord
  <2> QED BY <2>1
<1>4. CASE mon' = NextSession
  BY <1>4 DEF NextSession, MonitorIdle
<1> QED BY <1>t, <1>1, <1>2, <1>3, <1>4
        DEF MonitorStep, MonitorRecord, M_Poll, M_SkipFinished,
            M_SessionEnded, M_EndedAttempt, M_Overdue, M_Running, M_Observe,
            M_AlreadyEmitted, M_FinalAttempt, M_ReadJob, M_WriteJob, M_Emit

(* A request that does not reconcile records CANCELLED or FAILED. *)
LEMMA RequestRecords ==
    ASSUME TypesInv, OneTargetEach, rpc.to # "COMPLETED", RpcStep
    PROVE  rpc'.to # "COMPLETED"
<1>t. rpc \in RpcRecord
  BY DEF TypesInv, RpcOK, RpcTypeOK
<1>1. CASE rpc' = RpcIdle \/ rpc' = TargetDone
  <2>1. RpcIdle.to = "FAILED"
    BY DEF RpcIdle
  <2>2. rpc.todo # {Target} => TargetDone.to = "FAILED"
    BY <1>t DEF TargetDone, RpcRecord
  <2>3. rpc.todo = {Target} => TargetDone = RpcIdle
    BY DEF TargetDone
  <2> QED BY <1>1, <2>1, <2>2, <2>3
<1>2. CASE R_CancelSave
  BY <1>t, <1>2 DEF R_CancelSave, RpcRecord
<1>3. CASE rpc'.to = rpc.to
  BY <1>3
<1>4. CASE R_Cancel \/ R_Inspect \/ R_Reconcile
  BY <1>t, <1>3, <1>4 DEF R_Cancel, R_Inspect, R_Reconcile, StartControl,
                          RpcRecord
<1>5. rpc.pc # "reconcile"
  BY DEF OneTargetEach
<1> QED BY <1>t, <1>1, <1>2, <1>3, <1>4, <1>5
        DEF RpcStep, RpcRecord, R_Submit, R_SubmitAttempt, R_SubmitQueue,
            R_Retry, R_RetryAttempt, R_RetryRefused, R_RetryJob, R_RetryQueue,
            R_CancelMark, R_CancelByAdapter, R_CancelByScope, R_CancelFails,
            R_CancelRevert, R_MarkRead, R_MarkAttempt, R_MarkJobRead,
            R_MarkJob, R_MarkEmit, R_InspectGone, R_InspectReused,
            R_InspectNoChange, R_ReconcileCancelled, R_ReconcileGone,
            R_ReconcileNoChange, R_ReconcileRetryCancel,
            R_ReconcileRediscover, R_Rediscover, R_ReconcileReused

LEMMA CompletedStep ==
    ASSUME TypesInv, BindingInv, CopyOfClaim, OneTargetEach, CompletedInv,
           [Next]_vars
    PROVE  CompletedInv'
<1>e. \A s \in Sessions :
         ZeroExit(s) => ZeroExit(s)' /\ procs'[s].attempt = procs[s].attempt
  BY EndsStay DEF ZeroExit
<1>c. mon.pc # "idle" => Cur \in Sessions
  BY CurrentSession DEF TypesInv
<1>m. mon' = mon => Cur' = Cur
  BY DEF Cur
(* What an attempt is recorded as. *)
<1>k. ASSUME NEW a \in Attempts, attempts'[a].state = "COMPLETED",
             \/ attempts[a].state = "COMPLETED"
             \/ \E s \in Sessions : procs[s].attempt = a /\ ZeroExit(s)
      PROVE  \E s \in Sessions : procs'[s].attempt = a /\ ZeroExit(s)'
  BY <1>e, <1>k DEF CompletedInv
<1>1. CASE Dispatch
  <2>1. DispatcherStep /\ mon' = mon /\ rpc' = rpc
    BY <1>1 DEF Dispatch, monitorVars, rpcVars
  <2>2. ASSUME NEW a \in Attempts, attempts'[a].state = "COMPLETED"
        PROVE  attempts[a].state = "COMPLETED"
    <3>1. (D_Hold \/ D_Bind) => disp.att.state \in {"CLAIMED", "RUNNING"}
      BY DEF D_Hold, D_Bind, CopyOfClaim
    <3> QED BY <2>1, <2>2, <3>1, DispatcherAttempts DEF TypesInv
  <2> QED BY <1>e, <1>c, <1>m, <1>k, <2>1, <2>2 DEF CompletedInv
<1>2. CASE Observe
  <2>1. MonitorStep /\ rpc' = rpc
    BY <1>2 DEF Observe, rpcVars
  <2>2. ASSUME NEW a \in Attempts, attempts'[a].state = "COMPLETED"
        PROVE  \/ attempts[a].state = "COMPLETED"
               \/ \E s \in Sessions : procs[s].attempt = a /\ ZeroExit(s)
    <3>1. CASE /\ a = CurAttempt /\ mon.pc = "attempt"
               /\ mon.out.attempt = "COMPLETED"
      <4>1. Cur \in mon.todo /\ Cur \in Sessions
        BY <3>1, CurrentSession DEF TypesInv
      <4> QED BY <3>1, <4>1 DEF CompletedInv, BindingInv, CurAttempt
    <3>2. EndedAs(CurSession.state) # "COMPLETED"
      BY DEF EndedAs
    <3> QED BY <2>1, <2>2, <3>1, <3>2, MonitorAttempts DEF TypesInv
  <2>3. mon'.pc \in {"final", "attempt"} /\ mon'.out.attempt = "COMPLETED"
           => ZeroExit(Cur)'
    BY <1>e, <2>1, CompletedMonitor
  <2> QED BY <1>k, <2>1, <2>2, <2>3 DEF CompletedInv
<1>3. CASE Serve
  <2>1. RpcStep /\ mon' = mon
    BY <1>3 DEF Serve, monitorVars
  <2>2. ASSUME NEW a \in Attempts, attempts'[a].state = "COMPLETED"
        PROVE  attempts[a].state = "COMPLETED"
    <3>1. NewAttempt(rpc.jid).state = "CREATED"
      BY DEF NewAttempt, AbsentAttempt
    <3> QED BY <2>1, <2>2, <3>1, RpcAttempts DEF TypesInv, CompletedInv
  <2>3. rpc'.to # "COMPLETED"
    BY <2>1, RequestRecords DEF CompletedInv
  <2> QED BY <1>e, <1>c, <1>m, <1>k, <2>1, <2>2, <2>3 DEF CompletedInv
<1>4. CASE Environment
  <2>1. mon' = mon /\ rpc' = rpc
    BY <1>4 DEF Environment, ProcessExits, Reaped, PidTakenAgain,
                DeadlinePasses, LeaseExpires, HoldElapses, monitorVars, rpcVars
  <2>2. \A a \in Attempts : attempts'[a].state = attempts[a].state
    BY <1>4, EnvironmentAttempts DEF TypesInv
  <2> QED BY <1>e, <1>c, <1>m, <1>k, <2>1, <2>2 DEF CompletedInv
<1>5. CASE CrashRestart
  <2>1. attempts' = attempts /\ mon'.pc = "idle" /\ rpc'.to = "FAILED"
    BY <1>5 DEF CrashRestart, queueVars, MonitorIdle, RpcIdle
  <2> QED BY <1>k, <2>1 DEF CompletedInv
<1>6. CASE UNCHANGED vars
  <2>1. attempts' = attempts /\ mon' = mon /\ rpc' = rpc
    BY <1>6 DEF vars, queueVars, monitorVars, rpcVars
  <2> QED BY <1>e, <1>c, <1>m, <1>k, <2>1 DEF CompletedInv
<1> QED BY <1>1, <1>2, <1>3, <1>4, <1>5, <1>6 DEF Next

(* An attempt is recorded COMPLETED only when a process of that attempt    *)
(* really ended with exit code 0, whatever the watchdog, the scope and the *)
(* evidence store answer, as long as nobody asks for a reconcile, which    *)
(* takes an unknown code for a success (the finding of unknown_exit).      *)
THEOREM CompletedOnlyOnExitZero ==
    ASSUME "reconcile" \notin Requests
    PROVE  Spec => []CompletedMeansExitZero
<1> DEFINE I == /\ TypesInv /\ BindingInv /\ CopyOfClaim /\ OneTargetEach
                /\ CompletedInv
<1>1. Init => I
  <2> SUFFICES ASSUME Init PROVE I
    OBVIOUS
  <2>1. disp.pc = "idle" /\ mon.pc = "idle" /\ rpc.pc = "idle"
        /\ rpc.to = "FAILED" /\ rpc.pc \notin ControlPCs
    BY DEF Init, DispatchInit, DispatchIdle, MonitorInit, MonitorIdle, RpcInit,
           RpcIdle, ControlPCs
  <2>2. \A a \in Attempts : attempts[a].state = "ABSENT"
    BY DEF Init, QueueInit, AbsentAttempt
  <2> QED BY <2>1, <2>2, TypesInit, BindingInit
          DEF CopyOfClaim, OneTargetEach, CompletedInv
<1>2. I /\ [Next]_vars => I'
  BY TypesStep, BindingStep, CopyStep, OneTargetStep, CompletedStep
<1>3. I => CompletedMeansExitZero
  <2>1. \A s \in Sessions : Ended(s) => ~Alive(s)
    BY DEF Ended, Alive
  <2> QED BY <2>1 DEF CompletedInv, CompletedMeansExitZero, StartedFor,
                      ZeroExit
<1> QED BY <1>1, <1>2, <1>3, PTL DEF Spec

-----------------------------------------------------------------------------
(* Events: the set of emitted sessions is asked in one step and extended   *)
(* several saves later, and the event goes out in between; a restart       *)
(* empties the set.  A request still has an event to give for the sessions *)
(* it has not come to.                                                     *)

Given(s) == IF s \in emitted THEN 1 ELSE 0
Owed(s) == IF s \in rpc.todo THEN 1 ELSE 0

EventsInv ==
    /\ \A s \in Sessions : events[s] + Owed(s) <= Given(s) + crashes + served
    /\ mon.pc \in {"idle", "next", "ended"} => ~mon.out.event
    /\ mon.pc \in {"attempt", "readJob", "writeJob", "emit"} /\ mon.out.event
          => Cur \notin emitted

LEMMA EventsMonitor ==
    ASSUME TypesInv, EventsInv, Observe
    PROVE  EventsInv'
<1>m. /\ MonitorStep
      /\ rpc' = rpc /\ served' = served /\ crashes' = crashes
  BY DEF Observe, rpcVars
<1>t. /\ crashes \in Nat /\ served \in Nat
      /\ mon \in MonitorRecord /\ mon.todo \subseteq Sessions
      /\ events \in [Sessions -> Nat]
  BY DEF TypesInv, MonitorOK, MonitorTypeOK, MonitorRecord, SessionOK,
         SessionTypeOK, RpcOK, RpcTypeOK
<1>c. mon.pc # "idle" => Cur \in Sessions
  BY CurrentSession DEF TypesInv
<1>f. mon'.todo = mon.todo => Cur' = Cur
  BY DEF Cur
<1>k. ASSUME events' = events, emitted' = emitted,
             mon'.pc \in {"idle", "next", "ended"} => ~mon'.out.event,
             mon'.pc \in {"attempt", "readJob", "writeJob", "emit"}
                => /\ mon'.todo = mon.todo
                   /\ mon'.out.event => Cur \notin emitted
      PROVE  EventsInv'
  BY <1>f, <1>k, <1>m DEF EventsInv, Owed, Given
<1>n. NextSession.pc \in {"idle", "next"} /\ ~NextSession.out.event
  BY DEF NextSession, MonitorIdle, NoOutcome
<1>1. CASE M_Poll \/ M_SessionEnded
  <2>1. CASE M_Poll
    BY <1>k, <1>t, <2>1 DEF M_Poll, MonitorRecord, EventsInv, sessionVars
  <2>2. CASE M_SessionEnded
    BY <1>k, <1>t, <2>2 DEF M_SessionEnded, MonitorRecord, EventsInv,
                            sessionVars
  <2> QED BY <1>1, <2>1, <2>2
<1>2. CASE M_EndedAttempt
  <2>1. /\ mon'.pc = "readJob" /\ mon'.todo = mon.todo
        /\ mon'.out.event = mon.out.event /\ ~mon.out.event
    BY <1>t, <1>2 DEF M_EndedAttempt, MonitorRecord, Outcome, EventsInv
  <2> QED BY <1>2, <1>k, <2>1 DEF M_EndedAttempt, sessionVars
<1>3. CASE M_Gone \/ M_Overdue \/ M_Kill
  <2>1. mon'.pc \in {"final", "kill"}
    BY <1>t, <1>3 DEF M_Gone, M_Overdue, M_Kill, MonitorRecord
  <2> QED BY <1>3, <1>k, <2>1 DEF M_Gone, M_Overdue, M_Kill, sessionVars
<1>4. CASE M_FinalSession
  <2>1. mon'.pc = "attempt" /\ mon'.todo = mon.todo /\ Cur \notin emitted
    BY <1>t, <1>4 DEF M_FinalSession, MonitorRecord
  <2> QED BY <1>4, <1>k, <2>1 DEF M_FinalSession
<1>5. CASE M_FinalAttempt \/ M_ReadJob \/ M_WriteJob
  <2>1. /\ mon.pc \in {"attempt", "readJob", "writeJob"}
        /\ mon'.pc \in {"readJob", "writeJob", "emit"}
        /\ mon'.todo = mon.todo /\ mon'.out = mon.out
    BY <1>t, <1>5 DEF M_FinalAttempt, M_ReadJob, M_WriteJob, MonitorRecord
  <2> QED BY <1>5, <1>k, <2>1
          DEF M_FinalAttempt, M_ReadJob, M_WriteJob, sessionVars, EventsInv
<1>6. CASE M_Emit
  <2>1. PICK c \in Sessions : c = Cur
    BY <1>6, <1>c DEF M_Emit
  <2>2. /\ emitted' = emitted \cup {c}
        /\ events' = [events EXCEPT ![c] = @ + IF mon.out.event THEN 1 ELSE 0]
        /\ mon' = NextSession /\ mon.pc = "emit"
    BY <1>6, <2>1 DEF M_Emit
  <2>3. events'[c] + Owed(c) <= 1 + crashes + served
    <3>1. /\ events[c] + Owed(c) <= Given(c) + crashes + served
          /\ events[c] \in Nat /\ Owed(c) \in {0, 1} /\ Given(c) \in {0, 1}
      BY <1>t DEF EventsInv, Owed, Given
    <3>2. mon.out.event => Given(c) = 0
      BY <2>1, <2>2 DEF EventsInv, Given
    <3>3. events'[c] = events[c] + IF mon.out.event THEN 1 ELSE 0
      BY <1>t, <2>2
    <3> QED BY <1>t, <3>1, <3>2, <3>3
  <2>4. \A s \in Sessions : s # c => events'[s] = events[s] /\ Given(s)' = Given(s)
    BY <1>t, <2>2 DEF Given
  <2>5. Given(c)' = 1 /\ \A s \in Sessions : Owed(s)' = Owed(s)
    BY <1>m, <2>1, <2>2 DEF Given, Owed
  <2>6. \A s \in Sessions : (events[s] + Owed(s) <= Given(s) + crashes + served)'
    <3> SUFFICES ASSUME NEW s \in Sessions
                 PROVE  events'[s] + Owed(s)' <= Given(s)' + crashes' + served'
      OBVIOUS
    <3>1. CASE s = c
      BY <1>m, <2>3, <2>5, <3>1
    <3>2. CASE s # c
      BY <1>m, <2>4, <2>5, <3>2 DEF EventsInv
    <3> QED BY <3>1, <3>2
  <2>7. ~mon'.out.event /\ mon'.pc \in {"idle", "next"}
    BY <1>n, <2>2
  <2> QED BY <2>6, <2>7 DEF EventsInv
<1>7. CASE mon' = NextSession /\ events' = events /\ emitted' = emitted
  BY <1>k, <1>n, <1>7
<1>8. CASE M_Running
  <2>1. mon' = NextSession \/ mon'.pc = "observe"
    BY <1>t, <1>8 DEF M_Running, MonitorRecord
  <2> QED BY <1>8, <1>k, <1>n, <2>1 DEF M_Running, sessionVars
<1> QED BY <1>m, <1>1, <1>2, <1>3, <1>4, <1>5, <1>6, <1>7, <1>8
        DEF MonitorStep, M_SkipFinished, M_Observe, M_AlreadyEmitted,
            sessionVars

(* A request begins, and may give one event for each of its sessions; or   *)
(* it goes on, gives an event for at most the session it is at, and leaves *)
(* it behind.                                                              *)
LEMMA RequestGivesOne ==
    ASSUME TypesInv, RpcStep
    PROVE  \/ served' = served + 1 /\ events' = events
           \/ served' = served /\ events' = events /\ rpc'.todo \subseteq rpc.todo
           \/ /\ served' = served /\ Target \in rpc.todo
              /\ rpc'.todo = rpc.todo \ {Target}
              /\ events' = [events EXCEPT ![Target] = @ + IF rpc.to = "CANCELLED" THEN 1 ELSE 0]
<1>t. /\ rpc \in RpcRecord /\ RpcIdle.todo = {}
  BY DEF TypesInv, RpcOK, RpcTypeOK, RpcIdle
<1>d. rpc.pc \in ControlPCs => Target \in rpc.todo
  BY TargetBound DEF TypesInv
<1>e. Target \in rpc.todo => TargetDone.todo = rpc.todo \ {Target}
  BY <1>t DEF TargetDone, RpcRecord
<1>1. CASE R_MarkEmit
  <2>1. rpc.pc \in ControlPCs
    BY <1>1 DEF R_MarkEmit, ControlPCs, RpcPCs
  <2> QED BY <1>1, <1>d, <1>e, <2>1 DEF R_MarkEmit
<1>2. CASE R_Cancel \/ R_Inspect \/ R_Reconcile
  BY <1>2 DEF R_Cancel, R_Inspect, R_Reconcile, StartControl, sessionVars
<1>3. CASE R_ReconcileNoChange \/ R_ReconcileRetryCancel \/ R_Rediscover \/ R_ReconcileReused
  <2>1. rpc.pc \in ControlPCs
    BY <1>3 DEF R_ReconcileNoChange, R_ReconcileRetryCancel, R_Rediscover,
          R_ReconcileReused, ControlPCs, RpcPCs
  <2> QED BY <1>3, <1>d, <1>e, <2>1 DEF R_ReconcileNoChange, R_ReconcileRetryCancel,
            R_Rediscover, R_ReconcileReused, sessionVars
<1>4. CASE R_SubmitQueue \/ R_RetryRefused \/ R_RetryQueue \/ R_CancelRevert
           \/ R_InspectGone \/ R_InspectReused \/ R_InspectNoChange
  BY <1>4, <1>t DEF R_SubmitQueue, R_RetryRefused, R_RetryQueue, R_CancelRevert,
        R_InspectGone, R_InspectReused, R_InspectNoChange, sessionVars
<1>5. CASE R_Submit \/ R_SubmitAttempt \/ R_Retry \/ R_RetryAttempt \/ R_RetryJob
  BY <1>5, <1>t DEF R_Submit, R_SubmitAttempt, R_Retry, R_RetryAttempt, R_RetryJob,
        RpcRecord, sessionVars
<1>6. CASE R_CancelMark \/ R_CancelByAdapter \/ R_CancelByScope \/ R_CancelFails
           \/ R_CancelSave
  BY <1>6, <1>t DEF R_CancelMark, R_CancelByAdapter, R_CancelByScope, R_CancelFails,
        R_CancelSave, RpcRecord, sessionVars
<1>7. CASE R_MarkRead \/ R_MarkAttempt \/ R_MarkJobRead \/ R_MarkJob
           \/ R_ReconcileCancelled \/ R_ReconcileGone \/ R_ReconcileRediscover
  BY <1>7, <1>t DEF R_MarkRead, R_MarkAttempt, R_MarkJobRead, R_MarkJob,
        R_ReconcileCancelled, R_ReconcileGone, R_ReconcileRediscover, RpcRecord,
        sessionVars
<1> QED BY <1>1, <1>2, <1>3, <1>4, <1>5, <1>6, <1>7 DEF RpcStep

LEMMA EventsStep ==
    ASSUME TypesInv, EventsInv, [Next]_vars
    PROVE  EventsInv'
<1>t. crashes \in Nat /\ served \in Nat /\ events \in [Sessions -> Nat]
  BY DEF TypesInv, SessionOK, SessionTypeOK, RpcOK, RpcTypeOK
<1>n. \A s \in Sessions : /\ events[s] \in Nat
                          /\ Owed(s) \in {0, 1} /\ Given(s) \in {0, 1}
  BY <1>t DEF Owed, Given
<1>k. ASSUME events' = events, mon' = mon, emitted' = emitted, rpc' = rpc,
             served' = served, crashes' = crashes
      PROVE  EventsInv'
  BY <1>k DEF EventsInv, Cur, Owed, Given
<1>1. CASE Dispatch
  <2>1. events' = events
    BY <1>1 DEF Dispatch, DispatcherStep, sessionVars, D_Pass, D_Skip,
          D_MayStart, D_Claim, D_ClaimRefused, D_Load, D_NotClaimed, D_Hold,
          D_HoldRelease, D_RepoUnavailable, D_Worktree, D_WorktreeFails,
          D_Run, D_StartFails, D_Start, D_Register, D_Bind, D_JobRun, D_Fail,
          D_FailJob
  <2> QED BY <1>1, <1>k, <2>1 DEF Dispatch, monitorVars, rpcVars
<1>2. CASE Observe
  BY <1>2, EventsMonitor
<1>3. CASE Serve
  <2>1. RpcStep /\ mon' = mon /\ emitted' = emitted /\ crashes' = crashes
    BY <1>3 DEF Serve, monitorVars
  <2>2. SUFFICES ASSUME NEW s \in Sessions
                 PROVE  events'[s] + Owed(s)' <= Given(s)' + crashes' + served'
    BY <2>1 DEF EventsInv, Cur
  <2>3. events[s] + Owed(s) <= Given(s) + crashes + served
    BY DEF EventsInv
  <2>4. Given(s)' = Given(s) /\ Owed(s)' \in {0, 1}
    BY <2>1 DEF Given, Owed
  <2>5. CASE served' = served + 1 /\ events' = events
    BY <1>t, <1>n, <2>1, <2>3, <2>4, <2>5
  <2>6. CASE served' = served /\ events' = events /\ rpc'.todo \subseteq rpc.todo
    <3>1. Owed(s)' <= Owed(s)
      BY <2>6 DEF Owed
    <3> QED BY <1>t, <1>n, <2>1, <2>3, <2>4, <2>6, <3>1
  <2>7. CASE /\ served' = served /\ Target \in rpc.todo
             /\ rpc'.todo = rpc.todo \ {Target}
             /\ events' = [events EXCEPT ![Target] =
                              @ + IF rpc.to = "CANCELLED" THEN 1 ELSE 0]
    <3>1. PICK c \in rpc.todo : c = Target
      BY <2>7
    <3>2. CASE s = c
      <4>1. Owed(s) = 1 /\ Owed(s)' = 0
        BY <2>7, <3>1, <3>2 DEF Owed
      <4>2. events'[s] <= events[s] + 1 /\ events'[s] \in Nat
        BY <1>t, <2>7, <3>1, <3>2
      <4> QED BY <1>t, <1>n, <2>1, <2>3, <2>4, <2>7, <4>1, <4>2
    <3>3. CASE s # c
      <4>1. Owed(s)' = Owed(s) /\ events'[s] = events[s]
        BY <1>t, <2>7, <3>1, <3>3 DEF Owed
      <4> QED BY <1>t, <1>n, <2>1, <2>3, <2>4, <2>7, <4>1
    <3> QED BY <3>2, <3>3
  <2> QED BY <2>1, <2>5, <2>6, <2>7, RequestGivesOne
<1>4. CASE Environment
  BY <1>4, <1>k DEF Environment, ProcessExits, Reaped, PidTakenAgain,
        DeadlinePasses, LeaseExpires, HoldElapses, sessionVars, monitorVars, rpcVars
<1>5. CASE CrashRestart
  <2>1. /\ crashes' = crashes + 1 /\ served' = served /\ events' = events
        /\ emitted' = {} /\ mon' = MonitorIdle /\ rpc' = RpcIdle
    BY <1>5 DEF CrashRestart
  <2>2. \A s \in Sessions : Owed(s)' = 0 /\ Given(s)' = 0
    BY <2>1 DEF Owed, Given, RpcIdle
  <2>3. \A s \in Sessions : events'[s] + Owed(s)' <= Given(s)' + crashes' + served'
    BY <1>t, <1>n, <2>1, <2>2 DEF EventsInv
  <2>4. mon'.pc = "idle" /\ ~mon'.out.event
    BY <2>1 DEF MonitorIdle, NoOutcome
  <2> QED BY <2>3, <2>4 DEF EventsInv
<1>6. CASE UNCHANGED vars
  BY <1>6, <1>k DEF vars, sessionVars, monitorVars, rpcVars
<1> QED BY <1>1, <1>2, <1>3, <1>4, <1>5, <1>6 DEF Next

(* Every terminal event of a session beyond the first goes with a restart  *)
(* or a request, although the session and its attempt may be written back  *)
(* as unfinished by the dispatcher or by a reconcile after the monitor has *)
(* finished them.                                                          *)
THEOREM EventsAlwaysHaveCauses == Spec => []EventsHaveCauses
<1> DEFINE I == TypesInv /\ EventsInv
<1>1. Init => I
  <2> SUFFICES ASSUME Init PROVE I
    OBVIOUS
  <2>1. EventsInv
    BY DEF Init, SessionInit, MonitorInit, MonitorIdle, NoOutcome, RpcInit, RpcIdle,
           EventsInv, Owed, Given
  <2> QED BY <2>1, TypesInit
<1>2. I /\ [Next]_vars => I'
  BY TypesStep, EventsStep
<1>3. I => EventsHaveCauses
  <2> SUFFICES ASSUME I, NEW s \in Sessions PROVE events[s] <= 1 + crashes + served
    BY DEF EventsHaveCauses
  <2>1. /\ events[s] \in Nat /\ crashes \in Nat /\ served \in Nat
        /\ Owed(s) \in {0, 1} /\ Given(s) \in {0, 1}
    BY DEF TypesInv, SessionOK, SessionTypeOK, RpcOK, RpcTypeOK, Owed, Given
  <2> QED BY <2>1 DEF EventsInv
<1> QED BY <1>1, <1>2, <1>3, PTL DEF Spec

=============================================================================

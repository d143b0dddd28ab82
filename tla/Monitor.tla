------------------------------ MODULE Monitor ------------------------------
(***************************************************************************)
(* The monitor thread (ControlPlaneEngine._monitor_once and the handlers   *)
(* it calls).  A poll works through one snapshot of the registry: the      *)
(* session records in mon.snap and the attempt in mon.att may be stale     *)
(* when they are written back.                                             *)
(***************************************************************************)
EXTENDS SessionRegistry

VARIABLES
    mon,            \* program counter and local copies of the monitor
    emitted         \* ControlPlaneEngine._emitted_terminal (memory only)

monitorVars == <<mon, emitted>>

MonitorPCs == {"idle", "next", "ended", "observe", "kill", "final",
               "attempt", "readJob", "writeJob", "emit"}

(* What a session and its attempt are about to be recorded as; the job     *)
(* state is the namesake of the attempt state.                             *)
Outcome == [session : TerminalSessionStates,
            attempt : TerminalAttemptStates,
            event   : BOOLEAN]

NoOutcome == [session |-> "FAILED", attempt |-> "FAILED", event |-> FALSE]

MonitorRecord == [pc   : MonitorPCs,
                  todo : SUBSET Sessions,
                  snap : [Sessions -> SessionRecord],
                  att  : AttemptRecord,
                  job  : JobRecord,
                  out  : Outcome]

MonitorIdle == [pc |-> "idle", todo |-> {},
                snap |-> [s \in Sessions |-> AbsentSession],
                att |-> AbsentAttempt, job |-> AbsentJob, out |-> NoOutcome]

MonitorTypeOK ==
    /\ mon \in MonitorRecord
    /\ emitted \subseteq Sessions

MonitorInit ==
    /\ mon = MonitorIdle
    /\ emitted = {}

-----------------------------------------------------------------------------

(* The registry keeps insertion order, which is the order of the ids. *)
First(todo) == CHOOSE s \in todo : \A t \in todo : s <= t

Cur == First(mon.todo)
CurSession == mon.snap[Cur]
CurAttempt == mon.snap[Cur].attempt

(* The loop over what is left of the snapshot. *)
NextSession ==
    IF mon.todo = {Cur} THEN MonitorIdle
    ELSE [MonitorIdle EXCEPT !.pc = "next", !.todo = mon.todo \ {Cur},
                             !.snap = [mon.snap EXCEPT ![Cur] = AbsentSession]]

M_Poll ==
    /\ mon.pc = "idle"
    /\ \E s \in Sessions : sessions[s].state # "ABSENT"
    /\ mon' = [mon EXCEPT !.pc = "next", !.snap = sessions,
                          !.todo = {s \in Sessions :
                                      sessions[s].state # "ABSENT"}]
    /\ UNCHANGED <<queueVars, sessionVars, emitted>>

(* Mutant of M_SkipFinished: it asks the session instead of the attempt. *)
M_SkipEndedSession ==
    /\ mon.pc = "next"
    /\ Terminal(CurAttempt) \/ CurSession.state \in TerminalSessionStates
    /\ mon' = NextSession
    /\ UNCHANGED <<queueVars, sessionVars, emitted>>

M_SkipFinished ==
    /\ mon.pc = "next"
    /\ Terminal(CurAttempt)
    /\ mon' = NextSession
    /\ UNCHANGED <<queueVars, sessionVars, emitted>>

(* The session ended without the monitor: COMPLETED is not in the list. *)
EndedElsewhere == {"CANCELLED", "FAILED", "LOST"}

M_SessionEnded ==
    /\ mon.pc = "next"
    /\ ~Terminal(CurAttempt)
    /\ CurSession.state \in EndedElsewhere
    /\ mon' = [mon EXCEPT !.pc = "ended", !.att = attempts[CurAttempt]]
    /\ UNCHANGED <<queueVars, sessionVars, emitted>>

(* _finalize_attempt_from_session: no event, no exit code. *)
EndedAs(sessionState) ==
    IF sessionState = "CANCELLED" THEN "CANCELLED" ELSE "FAILED"

M_EndedAttempt ==
    /\ mon.pc = "ended"
    /\ LET state == EndedAs(CurSession.state) IN
       /\ SaveAttempt(CurAttempt, [mon.att EXCEPT !.state = state])
       /\ mon' = [mon EXCEPT !.pc = "readJob", !.out.attempt = state]
    /\ UNCHANGED <<jobs, clock, sessionVars, emitted>>

-----------------------------------------------------------------------------
(* A session that has not ended: the attempt is read, then /proc.  A       *)
(* process that dies between the two might as well have died before, so    *)
(* the two reads are one action.                                           *)

Examine ==
    /\ mon.pc = "next"
    /\ ~Terminal(CurAttempt)
    /\ CurSession.state \notin EndedElsewhere

(* Mutant of ExitReadings: after a restart, no news is good news. *)
ExitReadingsOptimistic(s) ==
    IF s \in adapter THEN {procs[s].code} ELSE {"0"}

(* Sources of the exit code: what the adapter's watchdog recorded (at any  *)
(* time after the exit), else the scope.  The stored attempt, asked in     *)
(* between, has a code only when it is terminal, and then it is skipped.   *)
ExitReadings(s) ==
    ScopeExitCodes(s) \cup IF s \in adapter THEN {procs[s].code} ELSE {}

(* validate_evidence: without an exit code no evidence is valid.  `intact` *)
(* is FALSE when the bundle could not be stored or carries the marker.     *)
EvidenceValid(code, intact) == code # "?" /\ intact

(* Mutant of GoneAs: no code means LOST. *)
GoneAsLost(code, intact) ==
    IF code = "?" THEN "LOST"
    ELSE IF intact /\ code = "0" THEN "COMPLETED" ELSE "FAILED"

GoneAs(code, intact) ==
    IF EvidenceValid(code, intact) /\ code = "0" THEN "COMPLETED" ELSE "FAILED"

(* _handle_process_gone *)
M_Gone ==
    /\ Examine
    /\ PidGone(Cur)
    /\ \E code \in ExitReadings(Cur), intact \in BOOLEAN :
          mon' = [mon EXCEPT !.pc = "final", !.att = attempts[CurAttempt],
                             !.out = [session |-> GoneAs(code, intact),
                                      attempt |-> GoneAs(code, intact),
                                      event   |-> TRUE]]
    /\ UNCHANGED <<queueVars, sessionVars, emitted>>

(* _live returns "reused" for a reused pid, which counts as live. *)
M_Overdue ==
    /\ Examine
    /\ ~PidGone(Cur)
    /\ Cur \in overdue
    /\ mon' = [mon EXCEPT !.pc = "kill", !.att = attempts[CurAttempt]]
    /\ UNCHANGED <<queueVars, sessionVars, emitted>>

M_Running ==
    /\ Examine
    /\ ~PidGone(Cur)
    /\ Cur \notin overdue
    /\ mon' = IF CurSession.state = "RUNNING" THEN NextSession
              ELSE [mon EXCEPT !.pc = "observe"]
    /\ UNCHANGED <<queueVars, sessionVars, emitted>>

(* The snapshot did not say RUNNING: write it back as RUNNING. *)
M_Observe ==
    /\ mon.pc = "observe"
    /\ SaveSession(Cur, [CurSession EXCEPT !.state = "RUNNING"])
    /\ mon' = NextSession
    /\ UNCHANGED <<queueVars, procs, adapter, reused, overdue, events,
                   foreignHit, emitted>>

-----------------------------------------------------------------------------
(* _handle_timeout: SIGTERM, grace period, SIGKILL.  Whether the process   *)
(* heeds SIGTERM is up to it (ProcessExits), and a cancel may come in the  *)
(* meantime; the state after SIGKILL is what counts.                       *)

(* A process group is addressed by its pid, a scope by its own name. *)
HitsForeign(s) == ~Scoped /\ s \in reused

M_Kill ==
    /\ mon.pc = "kill"
    /\ procs' \in KillOutcomes(Cur)
    /\ foreignHit' = (foreignHit \/ HitsForeign(Cur))
    /\ mon' = [mon EXCEPT !.pc = "final",
                          !.out = [session |-> "FAILED",
                                   attempt |-> "TIMED_OUT",
                                   event   |-> TRUE]]
    /\ UNCHANGED <<queueVars, sessions, adapter, reused, overdue, events,
                   emitted>>

-----------------------------------------------------------------------------
(* _finalize: session, then attempt, then job, then the event *)

M_AlreadyEmitted ==
    /\ mon.pc = "final"
    /\ Cur \in emitted
    /\ mon' = NextSession
    /\ UNCHANGED <<queueVars, sessionVars, emitted>>

(* Mutant of M_FinalSession: the set of emitted sessions is not asked. *)
M_FinalSessionAgain ==
    /\ mon.pc = "final"
    /\ SaveSession(Cur, [CurSession EXCEPT !.state = mon.out.session])
    /\ mon' = [mon EXCEPT !.pc = "attempt"]
    /\ UNCHANGED <<queueVars, procs, adapter, reused, overdue, events,
                   foreignHit, emitted>>

M_FinalSession ==
    /\ mon.pc = "final"
    /\ Cur \notin emitted
    /\ SaveSession(Cur, [CurSession EXCEPT !.state = mon.out.session])
    /\ mon' = [mon EXCEPT !.pc = "attempt"]
    /\ UNCHANGED <<queueVars, procs, adapter, reused, overdue,
                   events, foreignHit, emitted>>

M_FinalAttempt ==
    /\ mon.pc = "attempt"
    /\ SaveAttempt(CurAttempt, [mon.att EXCEPT !.state = mon.out.attempt])
    /\ mon' = [mon EXCEPT !.pc = "readJob"]
    /\ UNCHANGED <<jobs, clock, sessionVars, emitted>>

M_ReadJob ==
    /\ mon.pc = "readJob"
    /\ mon' = [mon EXCEPT !.pc = "writeJob", !.job = jobs[mon.att.job]]
    /\ UNCHANGED <<queueVars, sessionVars, emitted>>

M_WriteJob ==
    /\ mon.pc = "writeJob"
    /\ SaveJob(mon.att.job,
               [mon.job EXCEPT !.state = mon.out.attempt])
    /\ mon' = [mon EXCEPT !.pc = "emit", !.att = AbsentAttempt,
                          !.job = AbsentJob]
    /\ UNCHANGED <<attempts, clock, sessionVars, emitted>>

M_Emit ==
    /\ mon.pc = "emit"
    /\ emitted' = emitted \cup {Cur}
    /\ events' = [events EXCEPT ![Cur] = @ + IF mon.out.event THEN 1 ELSE 0]
    /\ mon' = NextSession
    /\ UNCHANGED <<queueVars, sessions, procs, adapter, reused,
                   overdue, foreignHit>>

MonitorStep ==
    \/ M_Poll \/ M_SkipFinished \/ M_SessionEnded \/ M_EndedAttempt
    \/ M_Gone \/ M_Overdue \/ M_Running \/ M_Observe \/ M_Kill
    \/ M_AlreadyEmitted \/ M_FinalSession \/ M_FinalAttempt
    \/ M_ReadJob \/ M_WriteJob \/ M_Emit

=============================================================================

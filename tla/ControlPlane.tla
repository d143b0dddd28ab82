---------------------------- MODULE ControlPlane ----------------------------
(***************************************************************************)
(* The running daemon: one request thread, the dispatcher and the monitor  *)
(* over the shared queue and registry files, the harness processes, time,  *)
(* and crashes of the daemon.                                              *)
(***************************************************************************)
EXTENDS Dispatcher, Monitor, Rpc

CONSTANTS
    MaxCrashes,     \* bound: crashes (or restarts) of the daemon
    ExitStatuses,   \* exit codes of harness processes that are not killed
    Timeouts,       \* TRUE: a session may outlive its declared timeout
    PidReuse        \* TRUE: the pid of a dead process may be taken again

ASSUME ControlPlaneAssumption ==
    /\ MaxCrashes \in Nat
    /\ ExitStatuses \subseteq {"0", "1"}
    /\ Timeouts \in BOOLEAN
    /\ PidReuse \in BOOLEAN

VARIABLES crashes

vars == <<queueVars, sessionVars, dispatchVars, monitorVars, rpcVars, crashes>>

TypeOK ==
    /\ QueueTypeOK
    /\ SessionTypeOK
    /\ DispatchTypeOK
    /\ MonitorTypeOK
    /\ RpcTypeOK
    /\ crashes \in Nat

Init ==
    /\ QueueInit
    /\ SessionInit
    /\ DispatchInit
    /\ MonitorInit
    /\ RpcInit
    /\ crashes = 0

-----------------------------------------------------------------------------

Dispatch == DispatcherStep /\ UNCHANGED <<monitorVars, rpcVars, crashes>>

Observe == MonitorStep /\ UNCHANGED <<dispatchVars, rpcVars, crashes>>

Serve == RpcStep /\ UNCHANGED <<dispatchVars, monitorVars, crashes>>

-----------------------------------------------------------------------------
(* The environment *)

ProcessExits(s) ==
    /\ Alive(s)
    /\ \E code \in ExitStatuses :
          procs' = [procs EXCEPT ![s].state = Dead, ![s].code = code]
    /\ UNCHANGED <<queueVars, sessions, adapter, reused, overdue,
                   events, foreignHit, dispatchVars, monitorVars, rpcVars,
                   crashes>>

Reaped(s) ==
    /\ procs[s].state = "zombie"
    /\ procs' = [procs EXCEPT ![s].state = "gone"]
    /\ UNCHANGED <<queueVars, sessions, adapter, reused, overdue, events,
                   foreignHit, dispatchVars, monitorVars, rpcVars, crashes>>

PidTakenAgain(s) ==
    /\ PidReuse
    /\ procs[s].state = "gone"
    /\ s \notin reused
    /\ reused' = reused \cup {s}
    /\ UNCHANGED <<queueVars, sessions, procs, adapter, overdue,
                   events, foreignHit, dispatchVars, monitorVars, rpcVars,
                   crashes>>

DeadlinePasses(s) ==
    /\ Timeouts
    /\ sessions[s].state = "RUNNING"
    /\ s \notin overdue
    /\ overdue' = overdue \cup {s}
    /\ UNCHANGED <<queueVars, sessions, procs, adapter, reused,
                   events, foreignHit, dispatchVars, monitorVars, rpcVars,
                   crashes>>

LeaseExpires(a) ==
    /\ attempts[a].state = "CLAIMED"
    /\ ~attempts[a].expired
    /\ SaveAttempt(a, [attempts[a] EXCEPT !.expired = TRUE])
    /\ UNCHANGED <<jobs, clock, sessionVars, dispatchVars, monitorVars,
                   rpcVars, crashes>>

HoldElapses(a) ==
    /\ attempts[a].held
    /\ SaveAttempt(a, [attempts[a] EXCEPT !.held = FALSE])
    /\ UNCHANGED <<jobs, clock, sessionVars, dispatchVars, monitorVars,
                   rpcVars, crashes>>

Environment ==
    \/ \E s \in Sessions :
          \/ ProcessExits(s) \/ Reaped(s)
          \/ PidTakenAgain(s) \/ DeadlinePasses(s)
    \/ \E a \in Attempts : LeaseExpires(a) \/ HoldElapses(a)

(* The daemon dies between any two steps and is started again: the files   *)
(* and the harness processes survive, everything in memory is lost.        *)
CrashRestart ==
    /\ crashes < MaxCrashes
    /\ crashes' = crashes + 1
    /\ disp' = DispatchIdle
    /\ mon' = MonitorIdle
    /\ emitted' = {}
    /\ rpc' = RpcIdle
    /\ adapter' = {}
    /\ UNCHANGED <<queueVars, sessions, procs, reused, overdue, events,
                   foreignHit, worktrees, served>>

Next == Dispatch \/ Observe \/ Serve \/ Environment \/ CrashRestart

Spec == Init /\ [][Next]_vars

(* Both loops run for ever (every exception is caught), a request that is  *)
(* being served is served to its end, and time passes: leases expire,      *)
(* holds elapse and declared timeouts run out.  Processes need not exit.   *)
Fairness ==
    /\ WF_vars(Dispatch)
    /\ WF_vars(Observe)
    /\ WF_vars(rpc.pc # "idle" /\ Serve)
    /\ \A a \in Attempts : WF_vars(LeaseExpires(a)) /\ WF_vars(HoldElapses(a))
    /\ \A s \in Sessions : WF_vars(DeadlinePasses(s))

FairSpec == Spec /\ Fairness

-----------------------------------------------------------------------------
(* Capacity *)

(* The program counters between a successful claim and the last save of a  *)
(* copy of the claimed attempt: its slot is taken whatever the store says. *)
InFlight == disp.pc \in {"load", "admit", "holdRelease", "run",
                         "start", "register", "bind", "fail"}

Holding == Active \cup IF InFlight THEN {disp.cur} ELSE {}

(* Never more claimed and running attempts than Scheduler.global_limit,    *)
(* although can_start and claim are two separate reads of the store and    *)
(* stale copies of finished attempts may be written back as RUNNING.       *)
GlobalCapacity == Cardinality(Holding) <= GlobalLimit

(* The same per harness (Scheduler.per_harness). *)
HarnessCapacity ==
    \A h \in Harnesses :
        Cardinality({a \in Holding : Harness(attempts[a]) = h})
            <= HarnessLimit[h]

(* The processes an attempt was ever given. *)
StartedFor(a) == {s \in Sessions : procs[s].attempt = a}

(* The promise of SlotPool: an attempt starts at most one process in its   *)
(* life, across failures, lost updates and restarts, only with a slot, and *)
(* the slot is given back only after the process is dead, whoever ends it: *)
(* completion, timeout, cancel, reconcile or lease recovery.               *)
Pool == INSTANCE SlotPool
    WITH Limit   <- GlobalLimit,
         holding <- Holding,
         started <- {a \in Attempts : StartedFor(a) # {}},
         live    <- {procs[s].attempt : s \in {t \in Sessions : Alive(t)}}

SlotsAreKept == Pool!PoolSpec

(* An attempt whose process was started is never offered for dispatch      *)
(* again: no lease recovery and no stale copy puts it back into the queue. *)
NeverRequeuedAfterStart ==
    \A a \in Attempts :
        StartedFor(a) # {} => attempts[a].state \notin {"QUEUED", "CLAIMED"}

(* Evidence is fail-closed: an attempt is recorded COMPLETED only when its *)
(* process really ended with exit code 0.  The monitor keeps to it; for    *)
(* reconcile, test_r2 in tests/test_persistent_multisession.py asks for it *)
(* too (416, an unknown exit is "never silently asserted as success").     *)
CompletedMeansExitZero ==
    \A a \in Attempts :
        attempts[a].state = "COMPLETED" =>
            \E s \in StartedFor(a) : ~Alive(s) /\ procs[s].code = "0"

-----------------------------------------------------------------------------
(* What becomes of attempts *)

(* The daemon brings every bound run to an end, whatever its process does  *)
(* and although the daemon may crash: the declared timeout is enforced and *)
(* the attempt gives its slot back.  Only a run that the monitor has       *)
(* finalized before it was bound is lost (DeadRunsReleaseCapacity).        *)
BoundRunsEnd ==
    \A s \in Sessions, a \in Attempts :
        (/\ sessions[s] = [state |-> "RUNNING", attempt |-> a]
         /\ attempts[a].state = "RUNNING"
         /\ attempts[a].session = s
         /\ mon.pc = "idle"
         /\ s \notin emitted)
            ~> Terminal(a)

(* A claim is temporary: after a crash, or when the pass that made it is   *)
(* abandoned, its lease brings the attempt back into the queue.            *)
ClaimsAreTemporary ==
    \A a \in Attempts :
        attempts[a].state = "CLAIMED" ~> attempts[a].state # "CLAIMED"

(* engine.py 21, "releases scheduler capacity after every terminal path":  *)
(* an attempt whose process is dead does not stay RUNNING for ever.        *)
DeadRunsReleaseCapacity ==
    \A a \in Attempts :
        (/\ attempts[a].state = "RUNNING"
         /\ StartedFor(a) # {}
         /\ \A s \in StartedFor(a) : ~Alive(s))
            ~> attempts[a].state # "RUNNING"

(* A terminal lifecycle event of a session has a cause of its own: the     *)
(* monitor emits one per run of the daemon, and a request at most one; so  *)
(* every event beyond the first goes with a restart or a request, although *)
(* a lost update of the dispatcher can leave a finished session looking    *)
(* unfinished to the monitor (_emitted_terminal, engine.py 274).           *)
EventsHaveCauses == \A s \in Sessions : events[s] <= 1 + crashes + served

(* service.py 14, "PID reuse can never control a foreign process": no      *)
(* signal of the daemon reaches a process it did not start.                *)
NoForeignSignal == ~foreignHit

(* service.py 1031, "so the concurrent monitor never re-classifies the     *)
(* dying process as FAILED": no step takes a session from CANCEL_REQUESTED *)
(* to FAILED.                                                              *)
CancelNeverReclassified ==
    [][\A s \in Sessions :
          sessions[s].state = "CANCEL_REQUESTED"
              => sessions'[s].state # "FAILED"]_vars

(* service.py 875, a retry "leaves the previous Attempt unchanged", and    *)
(* scheduler.py 153, "stable task/attempt/session binding": an attempt     *)
(* belongs to the same job for as long as it exists.                       *)
AttemptsKeepTheirJob ==
    [][\A a \in Attempts :
          attempts[a].state # "ABSENT"
              => attempts'[a].job = attempts[a].job]_vars

=============================================================================

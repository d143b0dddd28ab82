--------------------------- MODULE SessionRegistry ---------------------------
(***************************************************************************)
(* The managed session registry (managed_session.py), the harness          *)
(* processes behind the sessions, and what the adapters remember of them   *)
(* in memory (ScopedProcessAdapter._sessions).  One session is one         *)
(* started process: the session id doubles as the name of the process and  *)
(* of its systemd scope.                                                   *)
(***************************************************************************)
EXTENDS QueueStore

CONSTANTS
    Scoped,         \* TRUE: systemd scopes; FALSE: the process-group fallback
    KillMayFail,    \* TRUE: a SIGKILL may be lost (its errors are swallowed)
    Zombies         \* TRUE: a dead process waits to be reaped by the watchdog

ASSUME SessionAssumption ==
    /\ Scoped \in BOOLEAN
    /\ KillMayFail \in BOOLEAN
    /\ Zombies \in BOOLEAN

VARIABLES
    sessions,       \* the registry file
    procs,          \* the operating system's view of each started process
    adapter,        \* sessions in the adapters' in-memory maps
    reused,         \* sessions whose pid now belongs to a foreign process
    overdue,        \* sessions whose declared timeout has elapsed
    events,         \* terminal lifecycle events emitted per session
    foreignHit      \* history: a signal went to a foreign process

sessionVars == <<sessions, procs, adapter, reused, overdue, events,
                 foreignHit>>

-----------------------------------------------------------------------------

SessionStates == {"ABSENT", "RUNNING", "CANCEL_REQUESTED", "CANCELLED",
                  "COMPLETED", "FAILED", "LOST"}

TerminalSessionStates == {"CANCELLED", "COMPLETED", "FAILED", "LOST"}

SessionRecord == [state : SessionStates, attempt : Attempts \cup {NoAttempt}]

AbsentSession == [state |-> "ABSENT", attempt |-> NoAttempt]

(* "?" is an exit code nobody could read (None in the source). *)
ExitCodes == {"0", "1", "?"}

(* The attempt is known to the system by the worktree the process runs in. *)
ProcRecord == [state   : {"none", "alive", "zombie", "gone"},
               code    : ExitCodes,
               attempt : Attempts \cup {NoAttempt}]

NoProc == [state |-> "none", code |-> "?", attempt |-> NoAttempt]

SessionTypeOK ==
    /\ sessions \in [Sessions -> SessionRecord]
    /\ procs \in [Sessions -> ProcRecord]
    /\ adapter \subseteq Sessions
    /\ reused \subseteq Sessions
    /\ overdue \subseteq Sessions
    /\ events \in [Sessions -> Nat]
    /\ foreignHit \in BOOLEAN

SessionInit ==
    /\ sessions = [s \in Sessions |-> AbsentSession]
    /\ procs = [s \in Sessions |-> NoProc]
    /\ adapter = {}
    /\ reused = {}
    /\ overdue = {}
    /\ events = [s \in Sessions |-> 0]
    /\ foreignHit = FALSE

-----------------------------------------------------------------------------

(* ManagedSessionRegistry.update / register: one whole record at a time. *)
SaveSession(s, rec) == sessions' = [sessions EXCEPT ![s] = rec]

Alive(s) == procs[s].state = "alive"

(* Mutant of PidGone: a session nobody remembers in memory is dead. *)
PidUnknown(s) == (~Alive(s) /\ s \notin reused) \/ s \notin adapter

(* What a process is when it dies; a zombie still has its /proc entry. *)
Dead == IF Zombies THEN "zombie" ELSE "gone"

(* _live_fingerprint: the start time in /proc is that of the fingerprint,  *)
(* which a zombie still has, or there is no such pid.                      *)
PidMatches(s) == procs[s].state \in {"alive", "zombie"}
PidAbsent(s) == procs[s].state = "gone" /\ s \notin reused

(* ControlPlaneEngine._live, which takes a zombie for gone. *)
PidGone(s) == ~Alive(s) /\ s \notin reused

(* The process table after SIGKILL to the owned scope or group of s. *)
Killed(s) == IF Alive(s)
             THEN [procs EXCEPT ![s].state = Dead, ![s].code = "1"]
             ELSE procs

(* Mutant of KillOutcomes: the signal goes to the wrong scope. *)
KillsNothing(s) == {procs}

(* The same where nobody looks at the result of the kill. *)
KillOutcomes(s) == {Killed(s)} \cup IF KillMayFail THEN {procs} ELSE {}

(* ExecMainStatus of a scope whose process is gone: the real code, unless  *)
(* systemd has already collected the unit.                                 *)
ScopeExitCodes(s) == IF Scoped THEN {procs[s].code, "?"} ELSE {"?"}

=============================================================================

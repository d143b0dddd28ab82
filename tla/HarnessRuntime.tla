--------------------------- MODULE HarnessRuntime ---------------------------
(***************************************************************************)
(* ManagedSessionRuntime over HarnessGatewayService and the scoped process *)
(* adapter (harness/): starting, observing, cancelling and timing out the  *)
(* process of a managed session, which the operating system may end, and   *)
(* whose pid it may give to another process.  The registry of sessions is  *)
(* a file, locked for each write but not from a read to the write that     *)
(* follows it; the adapter's handles are memory of the server.             *)
(***************************************************************************)
EXTENDS Naturals, TLC

CONSTANTS
    ManagedIds,     \* sessions that may be created
    Threads,        \* callers of the runtime
    Pids,
    Scopes,         \* do processes run in systemd scopes of their own?
    MaxStarts,      \* bound: processes the operating system starts
    NoSession       \* not in the registry, not in the adapter

ASSUME HarnessAssumption == MaxStarts \in Nat \ {0} /\ Scopes \in BOOLEAN

VARIABLES
    processes,      \* the start time of the process with each pid, 0 for none
    started,        \* how many processes have been started
    managed,        \* the registry file
    handles,        \* the adapter's sessions
    thread,         \* what each caller is doing
    spawned,        \* start time of the process spawned for a session (history)
    signalled       \* start times of the processes sent a signal (history)

harnessVars == <<processes, started, managed, handles, thread, spawned, signalled>>

ManagedStates == {"CREATED", "STARTING", "RUNNING", "CANCEL_REQUESTED", "CANCELLED",
                  "COMPLETED", "FAILED", "LOST"}

OverStates == {"CANCELLED", "COMPLETED", "FAILED", "LOST"}

(* A start time of 0 in a fingerprint is the empty string that             *)
(* _process_start_time returns for a process that is not there.            *)
Fingerprint == [pid : Pids, time : 0..MaxStarts]

ManagedRecord == [state : ManagedStates, owned : BOOLEAN, handle : BOOLEAN,
                  print : Fingerprint \cup {NoSession}]

ASSUME NoSessionAssumption == NoSession \notin Fingerprint \cup ManagedRecord

HarnessInit ==
    /\ processes = [p \in Pids |-> 0]
    /\ started = 0
    /\ managed = [s \in ManagedIds |-> NoSession]
    /\ handles = [s \in ManagedIds |-> NoSession]
    /\ thread = [t \in Threads |-> NoSession]
    /\ spawned = [s \in ManagedIds |-> 0]
    /\ signalled = {}

Calls(t, call) == thread' = [thread EXCEPT ![t] = call]
Returns(t) == Calls(t, NoSession)
At(t, pc) == thread[t] # NoSession /\ thread[t].pc = pc

(* registry.update: the record as the caller has it, over whatever is there*)
Store(s, record) == managed' = [managed EXCEPT ![s] = record]

StartTime(p) == processes[p]

(***************************************************************************)
(* start: register the session, announce it, let the adapter spawn the     *)
(* process, take its fingerprint, and store the session as running.        *)
(***************************************************************************)
Create(t, s) ==
    LET record == [state |-> "CREATED", owned |-> TRUE, handle |-> FALSE,
                   print |-> NoSession] IN
    /\ thread[t] = NoSession
    /\ managed[s] = NoSession
    /\ Store(s, record)
    /\ Calls(t, [pc |-> "created", on |-> s, record |-> record])
    /\ UNCHANGED <<processes, started, handles, spawned, signalled>>

Announce(t) ==
    LET call == thread[t] record == [call.record EXCEPT !.state = "STARTING"] IN
    /\ At(t, "created")
    /\ Store(call.on, record)
    /\ Calls(t, [pc |-> "starting", on |-> call.on, record |-> record])
    /\ UNCHANGED <<processes, started, handles, spawned, signalled>>

(* The adapter is there, its binary is there, and the process starts.  The *)
(* adapter reads its start time before it begins to wait for it: even if   *)
(* the process has ended, its pid is still its own.                        *)
Spawn(t) ==
    LET call == thread[t] IN
    /\ At(t, "starting")
    /\ started < MaxStarts
    /\ \E p \in {q \in Pids : processes[q] = 0} :
           /\ processes' \in {[processes EXCEPT ![p] = started + 1], processes}
           /\ handles' = [handles EXCEPT ![call.on] = [pid |-> p, time |-> started + 1]]
           /\ Calls(t, [pc |-> "spawned", on |-> call.on, record |-> call.record, pid |-> p])
    /\ started' = started + 1
    /\ spawned' = [spawned EXCEPT ![call.on] = started + 1]
    /\ UNCHANGED <<managed, signalled>>

(* A disabled or missing adapter, a missing binary, a failing spawn.       *)
SpawnFails(t) ==
    LET call == thread[t] IN
    /\ At(t, "starting")
    /\ Store(call.on, [call.record EXCEPT !.state = "FAILED"])
    /\ Returns(t)
    /\ UNCHANGED <<processes, started, handles, spawned, signalled>>

(* The fingerprint of the registry is taken later, of whatever has the pid *)
(* by then.                                                                *)
TakePrint(t) ==
    LET call == thread[t] IN
    /\ At(t, "spawned")
    /\ Store(call.on, [call.record EXCEPT !.state = "RUNNING", !.handle = TRUE,
                           !.print = [pid |-> call.pid, time |-> StartTime(call.pid)]])
    /\ Returns(t)
    /\ UNCHANGED <<processes, started, handles, spawned, signalled>>

(* observe_external: a process that is not ours, read only.                *)
ObserveExternal(t, s) ==
    /\ thread[t] = NoSession
    /\ managed[s] = NoSession
    /\ \E p \in Pids :
           Store(s, [state |-> "RUNNING", owned |-> FALSE, handle |-> FALSE,
                     print |-> [pid |-> p, time |-> StartTime(p)]])
    /\ UNCHANGED <<processes, started, handles, thread, spawned, signalled>>

(***************************************************************************)
(* status: the session is read, then its process; a mismatch is stored     *)
(* over what may have been stored since.                                   *)
(***************************************************************************)
Mine(s) == managed[s] # NoSession /\ managed[s].owned

ReadStatus(t, s) ==
    /\ thread[t] = NoSession
    /\ Mine(s)
    /\ managed[s].print # NoSession
    /\ Calls(t, [pc |-> "looking", on |-> s, record |-> managed[s]])
    /\ UNCHANGED <<processes, started, managed, handles, spawned, signalled>>

MatchesLive(print) == StartTime(print.pid) = print.time

ReportStatus(t) ==
    LET call == thread[t] IN
    /\ At(t, "looking")
    /\ IF MatchesLive(call.record.print) THEN UNCHANGED managed
       ELSE Store(call.on, [call.record EXCEPT !.state = "LOST"])
    /\ Returns(t)
    /\ UNCHANGED <<processes, started, handles, spawned, signalled>>

(* Mutant of FingerprintOk: somebody has the pid. *)
PidAlive(s) == handles[s] # NoSession /\ StartTime(handles[s].pid) # 0

(***************************************************************************)
(* The adapter's lookup and _fingerprint_ok, at the gateway: a handle that *)
(* the server forgot, an empty start time, and a pid that is another       *)
(* process's, all end the call.                                            *)
(***************************************************************************)
FingerprintOk(s) ==
    /\ handles[s] # NoSession
    /\ handles[s].time # 0
    /\ StartTime(handles[s].pid) = handles[s].time

(* cancel: only a session that is managed and not over.                    *)
Cancel(t, s) ==
    LET record == [managed[s] EXCEPT !.state = "CANCEL_REQUESTED"] IN
    /\ thread[t] = NoSession
    /\ Mine(s)
    /\ managed[s].state \notin OverStates
    /\ Store(s, record)
    /\ Calls(t, [pc |-> "cancelling", on |-> s, record |-> record])
    /\ UNCHANGED <<processes, started, handles, spawned, signalled>>

(* Mutant of VerifyToCancel: what cannot be signalled counts as cancelled. *)
VerifyOrCancelled(t) ==
    LET call == thread[t] IN
    /\ At(t, "cancelling")
    /\ IF call.record.handle /\ FingerprintOk(call.on)
       THEN Calls(t, [call EXCEPT !.pc = "killing"]) /\ UNCHANGED managed
       ELSE Store(call.on, [call.record EXCEPT !.state = "CANCELLED"]) /\ Returns(t)
    /\ UNCHANGED <<processes, started, handles, spawned, signalled>>

VerifyToCancel(t) ==
    LET call == thread[t] IN
    /\ At(t, "cancelling")
    /\ IF call.record.handle /\ FingerprintOk(call.on)
       THEN Calls(t, [call EXCEPT !.pc = "killing"]) /\ UNCHANGED managed
       ELSE Store(call.on, [call.record EXCEPT !.state = "FAILED"]) /\ Returns(t)
    /\ UNCHANGED <<processes, started, handles, spawned, signalled>>

(* timeout_session at the gateway: SIGTERM, and later SIGKILL, or only     *)
(* SIGTERM where there are no scopes; nothing is stored.                   *)
TimeOut(t, s) ==
    /\ thread[t] = NoSession
    /\ FingerprintOk(s)
    /\ Calls(t, [pc |-> "terminating", on |-> s])
    /\ UNCHANGED <<processes, started, managed, handles, spawned, signalled>>

(* The signal: to the scope of the session, or to whatever has the pid.    *)
(* The process may survive it: systemctl may fail unnoticed, and SIGTERM   *)
(* may be ignored.                                                         *)
Target(s) == IF Scopes THEN spawned[s] ELSE StartTime(handles[s].pid)

Signal(t) ==
    LET call == thread[t] target == Target(call.on) IN
    /\ At(t, "killing") \/ At(t, "terminating")
    /\ signalled' = signalled \cup ({target} \ {0})
    /\ processes' \in
           {processes, [p \in Pids |-> IF processes[p] = target THEN 0 ELSE processes[p]]}
    /\ IF call.pc = "killing" THEN Calls(t, [call EXCEPT !.pc = "killed"]) ELSE Returns(t)
    /\ UNCHANGED <<started, managed, handles, spawned>>

StoreCancelled(t) ==
    LET call == thread[t] IN
    /\ At(t, "killed")
    /\ Store(call.on, [call.record EXCEPT !.state = "CANCELLED"])
    /\ Returns(t)
    /\ UNCHANGED <<processes, started, handles, spawned, signalled>>

(***************************************************************************)
(* await_completion: as long as the fingerprint holds, probe the pid.      *)
(***************************************************************************)
Await(t, s) ==
    /\ thread[t] = NoSession
    /\ handles[s] # NoSession
    /\ Calls(t, [pc |-> "awaiting", on |-> s])
    /\ UNCHANGED <<processes, started, managed, handles, spawned, signalled>>

CheckPrint(t) ==
    LET call == thread[t] IN
    /\ At(t, "awaiting")
    /\ IF FingerprintOk(call.on) THEN Calls(t, [call EXCEPT !.pc = "probing"])
       ELSE Returns(t)
    /\ UNCHANGED <<processes, started, managed, handles, spawned, signalled>>

(* Mutant of Probe: a probe that is refused counts as an end. *)
ProbeRefused(t) ==
    /\ At(t, "probing")
    /\ Calls(t, [thread[t] EXCEPT !.pc = "completed"])
    /\ UNCHANGED <<processes, started, managed, handles, spawned, signalled>>

Probe(t) ==
    LET call == thread[t] IN
    /\ At(t, "probing")
    /\ Calls(t, [call EXCEPT !.pc =
           IF StartTime(handles[call.on].pid) = 0 THEN "completed" ELSE "awaiting"])
    /\ UNCHANGED <<processes, started, managed, handles, spawned, signalled>>

(* The answer, or the end of the time to wait.                             *)
AwaitReturns(t) ==
    /\ At(t, "completed") \/ At(t, "awaiting")
    /\ Returns(t)
    /\ UNCHANGED <<processes, started, managed, handles, spawned, signalled>>

(***************************************************************************)
(* The operating system.  A pid is not given to a stranger's process in    *)
(* the instant between the check of a fingerprint and the signal or the    *)
(* probe; the runtime's own threads may spawn then.                        *)
(***************************************************************************)
ProcessEnds(p) ==
    /\ processes[p] # 0
    /\ processes' = [processes EXCEPT ![p] = 0]
    /\ UNCHANGED <<started, managed, handles, thread, spawned, signalled>>

AboutTo(t, p) ==
    /\ At(t, "killing") \/ At(t, "terminating") \/ At(t, "probing")
    /\ handles[thread[t].on].pid = p

OtherStarts(p) ==
    /\ processes[p] = 0
    /\ started < MaxStarts
    /\ ~\E t \in Threads : AboutTo(t, p)
    /\ processes' = [processes EXCEPT ![p] = started + 1]
    /\ started' = started + 1
    /\ UNCHANGED <<managed, handles, thread, spawned, signalled>>

(* The server dies and comes back: the file is there, the handles are not. *)
ServerRestarts ==
    /\ handles' = [s \in ManagedIds |-> NoSession]
    /\ thread' = [t \in Threads |-> NoSession]
    /\ UNCHANGED <<processes, started, managed, spawned, signalled>>

HarnessNext ==
    \/ \E t \in Threads :
           \/ Announce(t) \/ Spawn(t) \/ SpawnFails(t) \/ TakePrint(t)
           \/ ReportStatus(t) \/ VerifyToCancel(t) \/ Signal(t) \/ StoreCancelled(t)
           \/ CheckPrint(t) \/ Probe(t) \/ AwaitReturns(t)
           \/ \E s \in ManagedIds : Create(t, s) \/ ObserveExternal(t, s) \/ ReadStatus(t, s)
                                  \/ Cancel(t, s) \/ TimeOut(t, s) \/ Await(t, s)
    \/ \E p \in Pids : ProcessEnds(p) \/ OtherStarts(p)
    \/ ServerRestarts

HarnessSpec == HarnessInit /\ [][HarnessNext]_harnessVars

\* Processes, records, handles and callers have their types.
HarnessTypeOK ==
    /\ processes \in [Pids -> 0..MaxStarts]
    /\ started \in 0..MaxStarts
    /\ managed \in [ManagedIds -> ManagedRecord \cup {NoSession}]
    /\ handles \in [ManagedIds -> Fingerprint \cup {NoSession}]
    /\ spawned \in [ManagedIds -> 0..started]
    /\ signalled \subseteq 1..started
    /\ DOMAIN thread = Threads
    /\ \A t \in Threads :
           LET call == thread[t] IN
           \/ call = NoSession
           \/ call \in [pc : {"terminating", "awaiting", "probing", "completed"}, on : ManagedIds]
           \/ call \in [pc : {"created", "starting", "looking", "cancelling", "killing",
                           "killed"}, on : ManagedIds, record : ManagedRecord]
           \/ call \in [pc : {"spawned"}, on : ManagedIds, record : ManagedRecord,
                      pid : Pids]

(* Only processes that were spawned for a session are ever sent a signal,  *)
(* whatever pid they have and whoever has it afterwards ("PID reuse ->     *)
(* LOST, never controlling the new process", managed_session_runtime.py).  *)
OnlyOwnProcessesSignalled ==
    signalled \subseteq {spawned[s] : s \in ManagedIds}

(* A session is recorded as cancelled only after its own process was sent  *)
(* a signal or had ended, whatever other calls wrote about it in between.  *)
CancelledWasStopped ==
    \A s \in ManagedIds : Mine(s) /\ managed[s].state = "CANCELLED" =>
        \/ spawned[s] \in signalled
        \/ \A p \in Pids : processes[p] # spawned[s]

(* await_completion answers "completed" only for a process that is gone.   *)
CompletedIsGone ==
    \A t \in Threads : At(t, "completed") =>
        \A p \in Pids : processes[p] # spawned[thread[t].on]
=============================================================================

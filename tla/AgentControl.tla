---------------------------- MODULE AgentControl ----------------------------
(***************************************************************************)
(* The agents a captain directs from the command line (control/): the      *)
(* registry, one JSON file that every command reads and rewrites whole;    *)
(* the tmux sessions; the gates an agent passes to be declared ready; the  *)
(* launcher, which also looks at the agent's stream.  Each command is a    *)
(* process of its own: the registry's lock is one of threads, so two       *)
(* commands may overlap between any two of their reads and writes.         *)
(***************************************************************************)
EXTENDS StreamState, Sequences, Functions

CONSTANTS
    Gates,          \* the gates of the profiles
    Profiles,       \* the gates each profile of gates.yaml requires
    CoreGates,      \* what runs when the profile is not there
    ProfileOf,      \* the profile each agent is booted with
    ToolOf,         \* the tool each agent is booted with
    NoAgent         \* not in the registry

ASSUME AgentAssumption ==
    /\ \A p \in DOMAIN Profiles : Profiles[p] \subseteq Gates
    /\ CoreGates \subseteq Gates
    /\ DOMAIN ProfileOf = Agents
    /\ ToolOf \in [Agents -> {"manual", "opencode", "droid"}]

VARIABLES
    registry,       \* registry.json
    sessions,       \* agents whose tmux session is alive
    control,        \* the command each process is executing
    witnessed       \* what commands have found out about agents (history)

agentVars == <<registry, sessions, control, witnessed>>

AgentStatuses == {"booting", "active", "ready", "blocked", "stopped", "crashed"}

AgentRecord == [status : AgentStatuses, session : BOOLEAN, evidence : BOOLEAN]

Findings == Agents \X {"checked", "skipped", "dead"}

NoCommand == [pc |-> "idle"]

AgentInit ==
    /\ StreamInit
    /\ registry = [a \in Agents |-> NoAgent]
    /\ sessions = {}
    /\ control = [o \in Operators |-> NoCommand]
    /\ witnessed = {}

Registered(a) == registry[a] # NoAgent
Go(o, op) == control' = [control EXCEPT ![o] = op]
Learn(a, what) == witnessed' = witnessed \cup {<<a, what>>}

(* A command that has decided: the updates of agent a it will make, in     *)
(* order.  An update is the fields it sets.                                *)
Decided(a, todo) ==
    IF todo = <<>> THEN NoCommand ELSE [pc |-> "update", agent |-> a, todo |-> todo]

Stands(status) == [status |-> status]

Updated(record, update) ==
    [f \in DOMAIN record |-> IF f \in DOMAIN update THEN update[f] ELSE record[f]]

(***************************************************************************)
(* AgentRegistry.update and register: read the file, then write it.  An    *)
(* agent that is not there is a KeyError, and one to register that is      *)
(* there already a ValueError: the command ends.                           *)
(***************************************************************************)
LoadRegistry(o) ==
    LET op == control[o] IN
    /\ op.pc = "update"
    /\ Go(o, IF Registered(op.agent)
             THEN [pc |-> "save", agent |-> op.agent, todo |-> op.todo, file |-> registry]
             ELSE NoCommand)
    /\ UNCHANGED <<registry, sessions, witnessed>>

SaveRegistry(o) ==
    LET op == control[o] IN
    /\ op.pc = "save"
    /\ registry' = [op.file EXCEPT ![op.agent] = Updated(@, Head(op.todo))]
    /\ Go(o, Decided(op.agent, Tail(op.todo)))
    /\ UNCHANGED <<sessions, witnessed>>

(* start_session of the adapters: what it leaves of the sessions, and       *)
(* whether it names one.  Only opencode starts one, if tmux does; droid     *)
(* names a session nobody started, and an agent by hand has none.           *)
Starts(a) ==
    CASE ToolOf[a] = "opencode" -> {<<sessions \cup {a}, TRUE>>, <<sessions, FALSE>>}
      [] ToolOf[a] = "droid"    -> {<<sessions, TRUE>>}
      [] ToolOf[a] = "manual"   -> {<<sessions, FALSE>>}

(* stop_session. *)
WithoutSession(a) == IF ToolOf[a] = "opencode" THEN sessions \ {a} ELSE sessions

(* agent boot: register, write the boot pack, start a session, and call     *)
(* the agent active whether or not that succeeded.                          *)
Boot(o, a) ==
    /\ control[o] = NoCommand
    /\ ~Registered(a)
    /\ Go(o, [pc |-> "register", agent |-> a, file |-> registry])
    /\ UNCHANGED <<registry, sessions, witnessed>>

Register(o) ==
    LET op == control[o] IN
    /\ op.pc = "register"
    /\ registry' = [op.file EXCEPT ![op.agent] =
           [status |-> "booting", session |-> FALSE, evidence |-> FALSE]]
    /\ Go(o, [pc |-> "start", agent |-> op.agent])
    /\ UNCHANGED <<sessions, witnessed>>

StartSession(o) ==
    LET op == control[o] a == op.agent IN
    /\ op.pc = "start"
    /\ \E start \in Starts(a) :
          /\ sessions' = start[1]
          /\ Go(o, Decided(a, IF start[2] THEN <<[session |-> TRUE], Stands("active")>>
                              ELSE <<Stands("active")>>))
    /\ UNCHANGED <<registry, witnessed>>

(***************************************************************************)
(* agent ready: the readiness script, then the gates of the profile the    *)
(* record named when it was read.  SKIPPED or ERROR is not a pass.         *)
(***************************************************************************)
GateStatuses == {"pass", "fail", "skipped", "error"}

RequiredGates(a) ==
    IF ProfileOf[a] \in DOMAIN Profiles THEN Profiles[ProfileOf[a]] ELSE CoreGates

(* Only the script of the finish gate and the type checker may be absent.   *)
Verdicts(gate) ==
    IF gate \in {"finish_gate", "typecheck"} THEN GateStatuses
    ELSE GateStatuses \ {"skipped"}

GateResults(a) ==
    {r \in [RequiredGates(a) -> GateStatuses] : \A g \in RequiredGates(a) : r[g] \in Verdicts(g)}

(* Mutant of OverallPass: what was skipped did not fail. *)
NothingFailed(results) == \A g \in DOMAIN results : results[g] \in {"pass", "skipped"}

OverallPass(results) == \A g \in DOMAIN results : results[g] = "pass"

DeclareReady(o, a) ==
    /\ control[o] = NoCommand
    /\ Registered(a)
    /\ registry[a].status \in {"active", "blocked"}
    /\ \/ /\ Go(o, Decided(a, <<Stands("ready")>>))             \* --skip-gates
          /\ Learn(a, "skipped")
       \/ /\ Go(o, [pc |-> "readiness", agent |-> a])
          /\ UNCHANGED witnessed
    /\ UNCHANGED <<registry, sessions>>

ReadyUpdate == [status |-> "ready", evidence |-> TRUE]

(* The script may time out with partial output, which the parser raises on.*)
Readiness(o) ==
    LET op == control[o] a == op.agent IN
    /\ op.pc = "readiness"
    /\ \/ /\ Go(o, Decided(a, <<Stands("blocked")>>))           \* not GO
          /\ UNCHANGED witnessed
       \/ /\ Go(o, Decided(a, <<ReadyUpdate>>))                 \* --legacy-only
          /\ Learn(a, "checked")
       \/ /\ Go(o, [pc |-> "gates", agent |-> a])
          /\ UNCHANGED witnessed
       \/ /\ Go(o, NoCommand)
          /\ UNCHANGED witnessed
    /\ UNCHANGED <<registry, sessions>>

RunGates(o) ==
    LET op == control[o] a == op.agent IN
    /\ op.pc = "gates"
    /\ \E results \in GateResults(a) :
           /\ Go(o, Decided(a, IF OverallPass(results) THEN <<ReadyUpdate>>
                               ELSE <<Stands("blocked")>>))
           /\ IF \E g \in RequiredGates(a) : results[g] # "pass" THEN UNCHANGED witnessed
              ELSE Learn(a, "checked")
    /\ UNCHANGED <<registry, sessions>>

(* agent blocked, and captain dispatch, which names the new task first.    *)
Block(o, a) ==
    /\ control[o] = NoCommand
    /\ Go(o, Decided(a, <<Stands("blocked")>>))
    /\ UNCHANGED <<registry, sessions, witnessed>>

Dispatch(o, a) ==
    /\ control[o] = NoCommand
    /\ Registered(a)
    /\ Go(o, Decided(a, <<<<>>, Stands("active")>>))
    /\ UNCHANGED <<registry, sessions, witnessed>>

(* An agent driven by hand, or by a tool without an adapter, never looks   *)
(* dead.  Only one whose record says it is at work is called crashed.      *)
LooksDead(a) == ToolOf[a] = "opencode" /\ a \notin sessions

Verdict(a, record) ==
    IF LooksDead(a) /\ record.status \in {"active", "booting"} THEN <<Stands("crashed")>>
    ELSE <<>>

(* agent sync reads the record and then looks at the session.              *)
Sync(o, a) ==
    /\ control[o] = NoCommand
    /\ Registered(a)
    /\ Go(o, [pc |-> "tick", file |-> registry, rest |-> {a}])
    /\ UNCHANGED <<registry, sessions, witnessed>>

(* captain tick does so for every agent of one reading that is neither     *)
(* stopped nor crashed, one after the other.                               *)
Tick(o) ==
    LET rest == {a \in Agents : Registered(a) /\ registry[a].status \notin {"stopped", "crashed"}}
    IN
    /\ control[o] = NoCommand
    /\ rest # {}
    /\ Go(o, [pc |-> "tick", file |-> registry, rest |-> rest])
    /\ UNCHANGED <<registry, sessions, witnessed>>

LookAtSession(o) ==
    LET op == control[o] IN
    /\ op.pc = "tick"
    /\ \E a \in op.rest :
           /\ IF Verdict(a, op.file[a]) = <<>>
              THEN Go(o, IF op.rest = {a} THEN NoCommand
                         ELSE [pc |-> "tick", file |-> op.file, rest |-> op.rest \ {a}])
              ELSE Go(o, [pc |-> "crash", agent |-> a,
                          file |-> op.file, rest |-> op.rest \ {a}])
           /\ IF LooksDead(a) THEN Learn(a, "dead") ELSE UNCHANGED witnessed
    /\ UNCHANGED <<registry, sessions>>

(* set_crashed, in the middle of a tick: the same reading and writing.     *)
LoadToCrash(o) ==
    LET op == control[o] IN
    /\ op.pc = "crash"
    /\ Go(o, IF Registered(op.agent)
             THEN [pc |-> "bury", agent |-> op.agent, file |-> op.file, rest |-> op.rest,
                   now |-> registry]
             ELSE NoCommand)
    /\ UNCHANGED <<registry, sessions, witnessed>>

SaveCrashed(o) ==
    LET op == control[o] IN
    /\ op.pc = "bury"
    /\ registry' = [op.now EXCEPT ![op.agent] = Updated(@, Stands("crashed"))]
    /\ Go(o, IF op.rest = {} THEN NoCommand
             ELSE [pc |-> "tick", file |-> op.file, rest |-> op.rest])
    /\ UNCHANGED <<sessions, witnessed>>

(* agent stop kills the session, whatever the record says.                 *)
Stop(o, a) ==
    /\ control[o] = NoCommand
    /\ Registered(a)
    /\ sessions' = WithoutSession(a)
    /\ Go(o, Decided(a, <<Stands("stopped")>>))
    /\ UNCHANGED <<registry, witnessed>>

(***************************************************************************)
(* agent launch: not an active agent, not a blocked stream, and the        *)
(* sentinel must let the worktree be changed.                              *)
(***************************************************************************)
CanMutate(a) == Registered(a) => registry[a].status \notin {"active", "booting", "ready"}

Launchable(a) == Registered(a) /\ registry[a].status # "active"

Launch(o, a) ==
    /\ control[o] = NoCommand
    /\ Launchable(a)
    /\ Go(o, [pc |-> "stream", agent |-> a])
    /\ UNCHANGED <<registry, sessions, witnessed>>

ConsultStream(o) ==
    LET op == control[o] IN
    /\ op.pc = "stream"
    /\ Go(o, IF streams[op.agent].state \in Blocks THEN NoCommand
             ELSE [pc |-> "sentinel", agent |-> op.agent])
    /\ UNCHANGED <<registry, sessions, witnessed>>

LaunchedUpdate == [status |-> "active", session |-> TRUE]

(* has-session answers whether or not there is one, and its answer is not  *)
(* looked at: a session is started only when tmux does not answer in time. *)
LaunchSession(o) ==
    LET op == control[o] a == op.agent IN
    /\ op.pc = "sentinel"
    /\ \/ /\ CanMutate(a)
          /\ Go(o, Decided(a, <<LaunchedUpdate>>))
          /\ sessions' \in {sessions} \cup
                 (IF ToolOf[a] = "manual" THEN {} ELSE {sessions \cup {a}})
       \/ /\ Go(o, NoCommand)
          /\ UNCHANGED sessions
    /\ UNCHANGED <<registry, witnessed>>

(* The agent's tool ends by itself; a command is interrupted.              *)
SessionDies(a) ==
    /\ a \in sessions
    /\ sessions' = sessions \ {a}
    /\ UNCHANGED <<registry, control, witnessed>>

CommandDies(o) ==
    /\ control[o] # NoCommand
    /\ Go(o, NoCommand)
    /\ UNCHANGED <<registry, sessions, witnessed>>

AgentNext ==
    \/ /\ \/ \E o \in Operators :
              \/ LoadRegistry(o) \/ SaveRegistry(o) \/ Register(o) \/ StartSession(o)
              \/ Readiness(o) \/ RunGates(o) \/ Tick(o) \/ LookAtSession(o)
              \/ LoadToCrash(o) \/ SaveCrashed(o) \/ ConsultStream(o)
              \/ LaunchSession(o) \/ CommandDies(o)
              \/ \E a \in Agents : Boot(o, a) \/ DeclareReady(o, a) \/ Block(o, a) \/ Sync(o, a)
                                  \/ Dispatch(o, a) \/ Stop(o, a) \/ Launch(o, a)
          \/ \E a \in Agents : SessionDies(a)
       /\ UNCHANGED streamVars
    \/ StreamNext /\ UNCHANGED agentVars

AgentSpec == AgentInit /\ [][AgentNext]_<<agentVars, streamVars>>

RegistryFiles == [Agents -> AgentRecord \cup {NoAgent}]
Updates == {<<>>, [session |-> TRUE], ReadyUpdate, LaunchedUpdate}
               \cup {Stands(s) : s \in AgentStatuses}

\* The registry, the sessions and the commands have their types.
AgentTypeOK ==
    /\ StreamTypeOK
    /\ registry \in RegistryFiles
    /\ sessions \subseteq Agents
    /\ witnessed \subseteq Findings
    /\ DOMAIN control = Operators
    /\ \A o \in Operators :
           LET op == control[o] IN
           \/ op = NoCommand
           \/ op \in [pc : {"start", "readiness", "gates", "stream", "sentinel"},
                      agent : Agents]
           \/ op \in [pc : {"register"}, agent : Agents, file : RegistryFiles]
           \/ op.pc = "update" /\ op.agent \in Agents /\ Range(op.todo) \subseteq Updates
           \/ op.pc = "save" /\ op.file \in RegistryFiles /\ op.file[op.agent] # NoAgent
           \/ op.pc = "tick" /\ op.file \in RegistryFiles /\ op.rest \subseteq Agents
           \/ op.pc \in {"crash", "bury"} /\ op.agent \in Agents /\ op.rest \subseteq Agents

(* However commands overlap and overwrite each other's registry: an agent  *)
(* is READY only if the gates its profile requires all passed, none of     *)
(* them merely skipped, or the captain chose to skip them; ready evidence  *)
(* is there only if they passed; and CRASHED only if its session was found *)
(* dead ("SKIPPED is never treated as PASS", gates.py).                    *)
StandingIsEarned ==
    \A a \in Agents : Registered(a) =>
        /\ registry[a].status = "ready" =>
               <<a, "checked">> \in witnessed \/ <<a, "skipped">> \in witnessed
        /\ registry[a].evidence => <<a, "checked">> \in witnessed
        /\ registry[a].status = "crashed" => <<a, "dead">> \in witnessed
=============================================================================

---------------------------- MODULE MCWorkbench ----------------------------
(***************************************************************************)
(* Small instances, for TLC, of the components around the control plane.   *)
(* They share no state, so a behaviour exercises one of them: the initial  *)
(* state picks the part, only the variables of that part change, and the   *)
(* run explores every part.  A part may also bound its component further.  *)
(***************************************************************************)
EXTENDS CheckPolicy, MultiAgentLock, EventOutbox, EventStream,
        LocalAdmission, PayloadStore, AccountableChange, AgentControl,
        GatewayRouter, HarnessRuntime, AiBudget, EvidenceLog,
        TraceLinks

CONSTANTS op1, op2, cr1, cr2, g1, cloud,
          Parts         \* the parts the run explores

VARIABLE part

workbenchVars ==
    <<part, checkVars, lockVars, outboxVars, eventStreamVars,
      admissionVars, payloadVars, crVars, acVars, streamVars, agentVars,
      gatewayVars, harnessVars, budgetVars, evidenceVars, linkVars>>

(* Values of the components' constants. *)
LockPaths == {"d", "d/a", "b"}
LockInside == {<<"d/a", "d">>}
LockPatterns == {"d/*"}
LockMatches == {<<"d/a", "d/*">>}
Fields == {{"identity", "content", "swReq", "linkage", "incident"},
           {"identity", "content", "sysReq"}}
AllStrict == [a \in Agents |-> "strict"]
AllOpencode == [a \in Agents |-> "opencode"]
StrictOnly == [strict |-> {"dirty_worktree", "typecheck"}]
ResultOf(tool, id, says, recommends) ==
    [tool |-> tool, id |-> id, whole |-> TRUE, says |-> says, recommends |-> recommends]
ResultFiles ==
    {<<ResultOf("safety_guard", "r1", "blocked", "nothing")>>,
     <<ResultOf("failure_loop", "r2", "ci_failure", "rule_proposal")>>,
     <<ResultOf("agent_plane", "r3", "agent.run.failed", "nothing")>>,
     <<ResultOf("safety_guard", "r1", "blocked", "nothing"),
       ResultOf("safety_guard", "r4", "unsure", "nothing")>>}
Links(in, from, tests) ==
    [refinedIn |-> in, refinedFrom |-> from, validatedBy |-> tests, validates |-> {}]
LibraryOf(r1, r2, t) == ("r1" :> r1) @@ ("r2" :> r2) @@ ("t" :> t)
SmallLibraries ==
    {LibraryOf(Links({"r2", "t"}, {}, {"t"}), Links({}, {}, {"t"}), Links({}, {}, {})),
     LibraryOf(Links({"r2"}, {}, {"t"}), Links({"t"}, {"r1"}, {}), Links({}, {"r1"}, {})),
     LibraryOf(Links({}, {"t"}, {"r2"}), Links({}, {"r1"}, {"t"}), NoFrontmatter)}

-----------------------------------------------------------------------------
(* Bounds of the single parts. *)

(* The second client only closes the work on an ordinary bugfix, and no    *)
(* text takes anything from it.                                            *)
TwoOnABugfix ==
    \A c \in CrClients : LET v == crClient'[c].view IN
        v # NoRequest =>
            /\ v.bugfix /\ ~v.emergency /\ ~v.lost
            /\ crClient'[c].delimiter = "none"
            /\ v.fields \cap {"sysReq", "rejection"} = {}
            /\ v.status # "rejected"
            /\ c = cr2 => v.status \in {"implemented", "verified"}

OneCrClient == crClient'[cr2] = IdleClient

(* A request that lost something is not cut again.                         *)
OneCut ==
    LET cl == crClient'[cr1] IN
    cl.view # NoRequest => (cl.view.lost => cl.delimiter = "none")

(* An ordinary request, cited by one change; its approval may be erased. *)
OrdinaryRequest ==
    /\ OneCrClient
    /\ LET v == crClient'[cr1].view IN
         v # NoRequest =>
            /\ ~v.bugfix /\ ~v.emergency
            /\ crClient'[cr1].delimiter = "none" /\ (v.lost => v.status = "approved")
            /\ v.status \notin {"implemented", "verified", "closed"}
            /\ v.fields \cap {"sysReq", "files", "rootCause", "postMortem"} = {}

(* A pull request is reviewed while it has fewer rows than it may have.    *)
ReviewsOfFewRows == reviews' # {} => Cardinality(rows') < MaxRows

NoStreams == UNCHANGED streamVars

(* The second operator stops and blocks agents.                            *)
SecondOperator ==
    LET op == control'[op2] IN
    \/ op = NoCommand
    \/ op.pc \in {"update", "save"} /\ op.todo \in {<<Stands("stopped")>>, <<Stands("blocked")>>}

(* The second month is there for the change of months, and is a cheap one. *)
CheapSecondMonth == outlay'[2] < MonthlyBudget

-----------------------------------------------------------------------------

WorkbenchInit ==
    /\ part \in Parts
    /\ CheckInit /\ LockInit /\ OutboxInit /\ EventStreamInit
    /\ AdmissionInit /\ PayloadInit /\ AcInit /\ AgentInit /\ GatewayInit
    /\ HarnessInit /\ BudgetInit /\ EvidenceInit /\ LinksInit
    /\ part # "outbox" => ~webhook /\ emitting = Emitters
    /\ part # "links" => authored = CHOOSE library \in Libraries : TRUE
    /\ part # "gateway" =>
          /\ gateway.profiles = [p \in ProfileNames |-> NoProfile]
          /\ gateway.allowed = [k \in DataClasses |-> NoClass]

(* The components other than the one at work. *)
OthersStay(own) ==
    /\ UNCHANGED part
    /\ IF own = "checks"   THEN TRUE ELSE UNCHANGED checkVars
    /\ IF own = "locks"    THEN TRUE ELSE UNCHANGED lockVars
    /\ IF own = "outbox"   THEN TRUE ELSE UNCHANGED outboxVars
    /\ IF own = "stream"   THEN TRUE ELSE UNCHANGED eventStreamVars
    /\ IF own = "lane"     THEN TRUE ELSE UNCHANGED admissionVars
    /\ IF own = "payload"  THEN TRUE ELSE UNCHANGED payloadVars
    /\ IF own \in {"request", "account"} THEN TRUE ELSE UNCHANGED crVars
    /\ IF own = "account"  THEN TRUE ELSE UNCHANGED acVars
    /\ IF own = "agents"   THEN TRUE ELSE UNCHANGED <<streamVars, agentVars>>
    /\ IF own = "gateway"  THEN TRUE ELSE UNCHANGED gatewayVars
    /\ IF own = "harness"  THEN TRUE ELSE UNCHANGED harnessVars
    /\ IF own = "budget"   THEN TRUE ELSE UNCHANGED budgetVars
    /\ IF own = "evidence" THEN TRUE ELSE UNCHANGED evidenceVars
    /\ IF own = "links"    THEN TRUE ELSE UNCHANGED linkVars

WorkbenchNext ==
    \/ part = "checks"   /\ CheckNext /\ ReviewsOfFewRows /\ OthersStay("checks")
    \/ part = "locks"    /\ LockNext /\ OthersStay("locks")
    \/ part = "outbox"   /\ OutboxNext /\ OthersStay("outbox")
    \/ part = "stream"   /\ EventStreamNext /\ OthersStay("stream")
    \/ part = "lane"     /\ AdmissionNext /\ OthersStay("lane")
    \/ part = "payload"  /\ PayloadNext /\ OthersStay("payload")
    \/ part = "request"  /\ CrNext /\ OneCrClient /\ OneCut /\ OthersStay("request")
    \/ part = "bugfix"   /\ CrNext /\ TwoOnABugfix /\ OthersStay("request")
    \/ part = "account"  /\ AcNext /\ OrdinaryRequest /\ OthersStay("account")
    \/ part = "board"    /\ StreamNext /\ UNCHANGED agentVars /\ OthersStay("agents")
    \/ part = "agents"   /\ AgentNext /\ NoStreams /\ SecondOperator /\ OthersStay("agents")
    \/ part = "gateway"  /\ GatewayNext /\ OthersStay("gateway")
    \/ part = "harness"  /\ HarnessNext /\ OthersStay("harness")
    \/ part = "budget"   /\ BudgetNext /\ CheapSecondMonth /\ OthersStay("budget")
    \/ part = "evidence" /\ EvidenceNext /\ OthersStay("evidence")
    \/ part = "links"    /\ LinksNext /\ OthersStay("links")

WorkbenchSpec == WorkbenchInit /\ [][WorkbenchNext]_workbenchVars

(* The state of the component at work has its shape. *)
WorkbenchTypeOK ==
    /\ part = "checks"  => CheckTypeOK
    /\ part = "locks"   => LockTypeOK
    /\ part = "outbox"  => OutboxTypeOK
    /\ part = "stream"  => EventStreamTypeOK
    /\ part = "lane"    => AdmissionTypeOK
    /\ part = "payload" => PayloadTypeOK
    /\ part \in {"request", "bugfix", "account"} => CrTypeOK /\ AcTypeOK
    /\ part \in {"board", "agents"} => AgentTypeOK
    /\ part = "gateway" => GatewayTypeOK
    /\ part = "harness" => HarnessTypeOK
    /\ part = "budget"  => BudgetTypeOK
    /\ part = "evidence" => EvidenceTypeOK
    /\ part = "links"   => LinksTypeOK

=============================================================================

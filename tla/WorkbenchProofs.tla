-------------------------- MODULE WorkbenchProofs --------------------------
(***************************************************************************)
(* The components around the control plane keep the shape of their state,  *)
(* each by its own invariant: what a component reads back from a file, a   *)
(* row or another thread's copy is always something it can have written.   *)
(* A behaviour of the workbench is one of a single component, so the       *)
(* invariants of the components are combined part by part.                 *)
(***************************************************************************)
EXTENDS MCWorkbench, DaemonProofs, AgentToolsProofs, RecordsProofs

(* What the component at work relies on.                                   *)
WorkbenchInv ==
    /\ part = "checks" => CheckInv /\ CheckTyped
    /\ part = "locks" => LockInv
    /\ part = "outbox" => OutboxInv /\ OutboxTyped
    /\ part = "stream" => StreamShape
    /\ part = "lane" => AdmissionTyped
    /\ part = "payload" => StoreInv /\ FilesTyped
    /\ part \in {"request", "bugfix", "account"} => ChangeInv
    /\ part \in {"board", "agents"} => StreamInv /\ AgentsInv /\ AgentsTyped
    /\ part = "gateway" => GatewayInv
    /\ part = "harness" => HarnessInv
    /\ part = "budget" => BudgetInv
    /\ part = "evidence" => EvidenceInv
    /\ part = "links" => LinksInv /\ UpdateInv /\ LinksTyped

(* What the components assume of their constants.                          *)
Assumptions ==
    /\ CheckAssumption /\ LockAssumption /\ OutboxAssumption /\ EventStreamAssumption
    /\ PayloadAssumption /\ RequestAssumption /\ ChangeAssumption
    /\ StreamAssumption /\ AgentAssumption /\ GatewayAssumption
    /\ HarnessAssumption /\ NoSessionAssumption
    /\ BudgetAssumption /\ EvidenceAssumption /\ LinkAssumption

LEMMA WorkbenchInitially ==
    ASSUME Assumptions, WorkbenchInit
    PROVE  WorkbenchInv
<1>1. CheckInv /\ CheckTyped
  BY CheckInitially, CheckTypedInitially DEF WorkbenchInit, Assumptions
<1>2. LockInv
  BY LocksInitially DEF WorkbenchInit, Assumptions
<1>3. OutboxInv /\ OutboxTyped
  BY OutboxInitially, OutboxTypedInitially DEF WorkbenchInit, Assumptions
<1>4. StreamShape
  BY StreamShapeInitially DEF WorkbenchInit, Assumptions
<1>5. AdmissionTyped
  BY AdmissionTypesInitially DEF WorkbenchInit
<1>6. StoreInv /\ FilesTyped
  BY StoreInitially, FilesInitially DEF WorkbenchInit, Assumptions
<1>7. GatewayInv
  BY GatewayInitially DEF WorkbenchInit, Assumptions
<1>8. HarnessInv
  BY HarnessInitially DEF WorkbenchInit, Assumptions
<1>9. BudgetInv
  BY BudgetInitially DEF WorkbenchInit, Assumptions
<1>10. EvidenceInv
  BY EvidenceStarts DEF WorkbenchInit, Assumptions
<1>11. LinksInv /\ UpdateInv /\ LinksTyped
  BY LinksInitially, LinksTypedInitially DEF WorkbenchInit, Assumptions
<1>12. ChangeInv
  BY ChangesInitially DEF WorkbenchInit, Assumptions
<1>13. StreamInv /\ AgentsInv /\ AgentsTyped
  BY StreamInitially, AgentsInitially, AgentsTypedInitially DEF WorkbenchInit, AgentInit
<1> QED BY <1>1, <1>2, <1>3, <1>4, <1>5, <1>6, <1>7, <1>8, <1>9, <1>10, <1>11, <1>12, <1>13
   DEF WorkbenchInv

(* A step is one of the component at work, and leaves it at work.          *)
LEMMA WorkbenchStep ==
    ASSUME Assumptions, WorkbenchInv, [WorkbenchNext]_workbenchVars
    PROVE  WorkbenchInv'
<1>1. CASE part = "checks" /\ CheckNext /\ OthersStay("checks")
  <2>1. CheckInv /\ CheckTyped
    BY <1>1 DEF WorkbenchInv
  <2>2. (CheckInv /\ CheckTyped)'
    BY <1>1, <2>1, CheckStep, CheckTypedStep DEF Assumptions
  <2> QED BY <1>1, <2>2 DEF OthersStay, WorkbenchInv
<1>2. CASE part = "locks" /\ LockNext /\ OthersStay("locks")
  <2>1. LockInv
    BY <1>2 DEF WorkbenchInv
  <2>2. LockInv'
    BY <1>2, <2>1, LockStep DEF Assumptions
  <2> QED BY <1>2, <2>2 DEF OthersStay, WorkbenchInv
<1>3. CASE part = "outbox" /\ OutboxNext /\ OthersStay("outbox")
  <2>1. OutboxInv /\ OutboxTyped
    BY <1>3 DEF WorkbenchInv
  <2>2. (OutboxInv /\ OutboxTyped)'
    BY <1>3, <2>1, OutboxStep, OutboxTypedStep DEF Assumptions
  <2> QED BY <1>3, <2>2 DEF OthersStay, WorkbenchInv
<1>4. CASE part = "stream" /\ EventStreamNext /\ OthersStay("stream")
  <2>1. StreamShape
    BY <1>4 DEF WorkbenchInv
  <2>2. StreamShape'
    BY <1>4, <2>1, StreamShapeStep DEF Assumptions
  <2> QED BY <1>4, <2>2 DEF OthersStay, WorkbenchInv
<1>5. CASE part = "lane" /\ AdmissionNext /\ OthersStay("lane")
  <2>1. AdmissionTyped
    BY <1>5 DEF WorkbenchInv
  <2>2. AdmissionTyped'
    BY <1>5, <2>1, AdmissionTypesStep
  <2> QED BY <1>5, <2>2 DEF OthersStay, WorkbenchInv
<1>6. CASE part = "payload" /\ PayloadNext /\ OthersStay("payload")
  <2>1. StoreInv /\ FilesTyped
    BY <1>6 DEF WorkbenchInv
  <2>2. (StoreInv /\ FilesTyped)'
    BY <1>6, <2>1, StoreStep, FilesStep DEF Assumptions
  <2> QED BY <1>6, <2>2 DEF OthersStay, WorkbenchInv
<1>7. CASE part = "gateway" /\ GatewayNext /\ OthersStay("gateway")
  <2>1. GatewayInv
    BY <1>7 DEF WorkbenchInv
  <2>2. GatewayInv'
    BY <1>7, <2>1, GatewayStep DEF Assumptions
  <2> QED BY <1>7, <2>2 DEF OthersStay, WorkbenchInv
<1>8. CASE part = "harness" /\ HarnessNext /\ OthersStay("harness")
  <2>1. HarnessInv
    BY <1>8 DEF WorkbenchInv
  <2>2. HarnessInv'
    BY <1>8, <2>1, HarnessStep DEF Assumptions
  <2> QED BY <1>8, <2>2 DEF OthersStay, WorkbenchInv
<1>9. CASE part = "budget" /\ BudgetNext /\ OthersStay("budget")
  <2>1. BudgetInv
    BY <1>9 DEF WorkbenchInv
  <2>2. BudgetInv'
    BY <1>9, <2>1, BudgetStep DEF Assumptions
  <2> QED BY <1>9, <2>2 DEF OthersStay, WorkbenchInv
<1>10. CASE part = "evidence" /\ EvidenceNext /\ OthersStay("evidence")
  <2>1. EvidenceInv
    BY <1>10 DEF WorkbenchInv
  <2>2. EvidenceInv'
    BY <1>10, <2>1, EvidenceKeeps DEF Assumptions
  <2> QED BY <1>10, <2>2 DEF OthersStay, WorkbenchInv
<1>11. CASE part = "links" /\ LinksNext /\ OthersStay("links")
  <2>1. LinksInv /\ UpdateInv /\ LinksTyped
    BY <1>11 DEF WorkbenchInv
  <2>2. (LinksInv /\ UpdateInv /\ LinksTyped)'
    BY <1>11, <2>1, LinksStep, LinksTypedStep DEF Assumptions
  <2> QED BY <1>11, <2>2 DEF OthersStay, WorkbenchInv
<1>12. ASSUME part \in {"request", "bugfix", "account"}, part' = part,
             AcNext \/ (CrNext /\ UNCHANGED acVars)
      PROVE  WorkbenchInv'
  <2>1. ChangeInv
    BY <1>12 DEF WorkbenchInv
  <2>2. ChangeInv'
    BY <1>12, <2>1, ChangeStep DEF Assumptions, AcNext
  <2> QED BY <1>12, <2>2 DEF WorkbenchInv
<1>13. ASSUME part \in {"board", "agents"}, part' = part,
             \/ StreamNext /\ UNCHANGED agentVars
             \/ AgentNext /\ UNCHANGED streamVars
      PROVE  WorkbenchInv'
  <2>1. StreamInv /\ AgentsInv /\ AgentsTyped
    BY <1>13 DEF WorkbenchInv
  <2>2. [StreamNext]_streamVars /\ AgentNext
    BY <1>13 DEF AgentNext
  <2>3. (StreamInv /\ AgentsInv /\ AgentsTyped)'
    BY <2>1, <2>2, StreamStep, AgentsStep, AgentsTypedStep DEF Assumptions
  <2> QED BY <1>13, <2>3 DEF WorkbenchInv
<1>14. ASSUME UNCHANGED workbenchVars
      PROVE  WorkbenchInv'
  <2>1. part' = part
    BY <1>14 DEF workbenchVars
  <2>2. ASSUME part = "checks"
        PROVE  (CheckInv /\ CheckTyped)'
    BY <1>14, <2>2, CheckStep, CheckTypedStep DEF WorkbenchInv, workbenchVars, Assumptions
  <2>3. ASSUME part = "locks"
        PROVE  LockInv'
    BY <1>14, <2>3, LockStep DEF WorkbenchInv, workbenchVars, Assumptions
  <2>4. ASSUME part = "outbox"
        PROVE  (OutboxInv /\ OutboxTyped)'
    BY <1>14, <2>4, OutboxStep, OutboxTypedStep DEF WorkbenchInv, workbenchVars, Assumptions
  <2>5. ASSUME part = "stream"
        PROVE  StreamShape'
    BY <1>14, <2>5, StreamShapeStep DEF WorkbenchInv, workbenchVars, Assumptions
  <2>6. ASSUME part = "lane"
        PROVE  AdmissionTyped'
    BY <1>14, <2>6, AdmissionTypesStep DEF WorkbenchInv, workbenchVars
  <2>7. ASSUME part = "payload"
        PROVE  (StoreInv /\ FilesTyped)'
    BY <1>14, <2>7, StoreStep, FilesStep DEF WorkbenchInv, workbenchVars, Assumptions
  <2>8. ASSUME part = "gateway"
        PROVE  GatewayInv'
    BY <1>14, <2>8, GatewayStep DEF WorkbenchInv, workbenchVars, Assumptions
  <2>9. ASSUME part = "harness"
        PROVE  HarnessInv'
    BY <1>14, <2>9, HarnessStep DEF WorkbenchInv, workbenchVars, Assumptions
  <2>10. ASSUME part = "budget"
        PROVE  BudgetInv'
    BY <1>14, <2>10, BudgetStep DEF WorkbenchInv, workbenchVars, Assumptions
  <2>11. ASSUME part = "evidence"
        PROVE  EvidenceInv'
    BY <1>14, <2>11, EvidenceKeeps DEF WorkbenchInv, workbenchVars, Assumptions
  <2>12. ASSUME part = "links"
        PROVE  (LinksInv /\ UpdateInv /\ LinksTyped)'
    BY <1>14, <2>12, LinksStep, LinksTypedStep DEF WorkbenchInv, workbenchVars, Assumptions
  <2>13. ASSUME part \in {"request", "bugfix", "account"}
        PROVE  ChangeInv'
    BY <1>14, <2>13, ChangeStep DEF WorkbenchInv, workbenchVars, Assumptions
  <2>14. ASSUME part \in {"board", "agents"}
        PROVE  (StreamInv /\ AgentsInv /\ AgentsTyped)'
    BY <1>14, <2>14, StreamStep, AgentsStep, AgentsTypedStep
       DEF WorkbenchInv, workbenchVars, Assumptions
  <2> QED BY <2>1, <2>2, <2>3, <2>4, <2>5, <2>6, <2>7, <2>8, <2>9, <2>10, <2>11, <2>12,
     <2>13, <2>14 DEF WorkbenchInv
<1> QED BY <1>1, <1>2, <1>3, <1>4, <1>5, <1>6, <1>7, <1>8, <1>9, <1>10, <1>11, <1>12,
   <1>13, <1>14
       DEF WorkbenchNext, OthersStay, NoStreams

LEMMA WorkbenchTypes ==
    ASSUME Assumptions, WorkbenchInv
    PROVE  WorkbenchTypeOK
<1>1. part = "checks" => CheckTypeOK
  BY CheckTypes DEF WorkbenchInv
<1>2. part = "locks" => LockTypeOK
  BY LockTypes DEF WorkbenchInv
<1>3. part = "outbox" => OutboxTypeOK
  BY OutboxTypes DEF WorkbenchInv, Assumptions
<1>4. part = "stream" => EventStreamTypeOK
  BY StreamShapeTypes DEF WorkbenchInv
<1>5. part = "lane" => AdmissionTypeOK
  BY DEF WorkbenchInv, AdmissionTyped
<1>6. part = "payload" => PayloadTypeOK
  BY PayloadTypes DEF WorkbenchInv
<1>7. part = "gateway" => GatewayTypeOK
  BY GatewayTypes DEF WorkbenchInv
<1>8. part = "harness" => HarnessTypeOK
  BY HarnessTypes DEF WorkbenchInv
<1>9. part = "budget" => BudgetTypeOK
  BY BudgetTypes DEF WorkbenchInv, Assumptions
<1>10. part = "evidence" => EvidenceTypeOK
  BY EvidenceTypes DEF WorkbenchInv
<1>11. part = "links" => LinksTypeOK
  BY LinksTypes DEF WorkbenchInv
<1>12. part \in {"request", "bugfix", "account"} => CrTypeOK /\ AcTypeOK
  BY DEF WorkbenchInv, ChangeInv, RequestInv, CrTypeOK, CrClientRecord
<1>13. part \in {"board", "agents"} => AgentTypeOK
  BY AgentTypes DEF WorkbenchInv
<1> QED BY <1>1, <1>2, <1>3, <1>4, <1>5, <1>6, <1>7, <1>8, <1>9, <1>10, <1>11, <1>12, <1>13
   DEF WorkbenchTypeOK

(* In every component, whatever its threads, files and crashes do, the     *)
(* state has the shape its code relies on: what is read back from a row, a *)
(* registry or a request is a record the readers know how to use, a thread *)
(* that has an operation has something left to do in it, and what is under *)
(* way refers to rows, agents and documents that are there.                *)
THEOREM WorkbenchTypesHold ==
    ASSUME Assumptions
    PROVE  WorkbenchSpec => []WorkbenchTypeOK
<1>1. WorkbenchInit => WorkbenchInv
  BY WorkbenchInitially
<1>2. WorkbenchInv /\ [WorkbenchNext]_workbenchVars => WorkbenchInv'
  BY WorkbenchStep
<1>3. WorkbenchInv => WorkbenchTypeOK
  BY WorkbenchTypes
<1> QED BY <1>1, <1>2, <1>3, PTL DEF WorkbenchSpec

=============================================================================

--------------------------- MODULE DeliveryProofs ---------------------------
(***************************************************************************)
(* What is proved of the delivery domain: the types of its records, that a *)
(* delivery is merged or ready only when GitHub says so, that an attempt   *)
(* has one open pull request, and that it implements Publication.          *)
(***************************************************************************)
EXTENDS Delivery, TLAPS

-----------------------------------------------------------------------------
(* Types, and what a copy of a record knows of its pull request: it was    *)
(* opened, and it is merged if the record says so.                         *)

ViewRecord == [state : {"lost", "OPEN", "MERGED", "CLOSED"},
               merge : {"CLEAN", "DIRTY", "BEHIND", "UNKNOWN"}]

Works == [id : DeliveryIds, rec : DeliveryRecord]

DeliveryOps ==
    [pc : OpSteps, id : DeliveryIds \cup {NoId}, rec : DeliveryRecord \cup {NoRecord},
     ok : BOOLEAN, commit : Commits \cup {NoRecord}, outer : Works \cup {NoRecord},
     view : ViewRecord]

Publishing == {"look", "check", "commit", "push", "create", "record"}

RecordOK(shown, r) ==
    /\ r.pull # NoId => shown[r.pull] # NoRecord
    /\ r.state = "MERGED" => r.pull # NoId /\ shown[r.pull].state = "MERGED"

OpOK(shown, o) ==
    /\ o \in DeliveryOps
    /\ o.pc # "idle" => o.id \in DeliveryIds /\ o.rec \in DeliveryRecord
                        /\ RecordOK(shown, o.rec)
    /\ o.outer # NoRecord => RecordOK(shown, o.outer.rec)
    /\ o.pc \in Publishing =>
          o.rec.state = "PUBLISHING" /\ o.rec.branch \in BranchNames
    /\ o.pc = "push" => o.commit \in Commits
    /\ o.pc \in {"sync", "details"} =>
          /\ o.rec.pull # NoId
          /\ o.view.state = "MERGED" => shown[o.rec.pull].state = "MERGED"
          /\ o.view.state = "lost" => o.view = NoView

StoresOK(recs, cands, sel, shown) ==
    /\ recs \in [DeliveryIds -> DeliveryRecord \cup {NoRecord}]
    /\ cands \in [CandidateIds -> CandidateRecord \cup {NoRecord}]
    /\ sel \in DeliverableAttempts \cup {NoRecord}
    /\ \A d \in DeliveryIds : recs[d] # NoRecord => RecordOK(shown, recs[d])

WorldOK ==
    /\ completed \subseteq DeliverableAttempts
    /\ jobDone \in BOOLEAN
    /\ worktrees \in [DeliverableAttempts -> WorktreeRecord]
    /\ base \in 0..MaxBase
    /\ remote \in [BranchNames -> Commits \cup {NoRecord}]
    /\ pulls \in [PullNumbers -> PullRecord \cup {NoRecord}]
    /\ disturbances \in 0..MaxDisturbances

DeliveryInv ==
    /\ StoresOK(records, candidates, selection, pulls)
    /\ OpOK(pulls, op)
    /\ WorldOK

(* A publish works on an approved candidate of its attempt.                *)
Ordered(cands, r) ==
    /\ r.candidate \in CandidateIds
    /\ cands[r.candidate] # NoRecord /\ cands[r.candidate].approved
    /\ r.attempt = cands[r.candidate].attempt

OrderInv ==
    /\ op.pc \in {"rebase", "start"} \cup Publishing => Ordered(candidates, op.rec)
    /\ op.outer # NoRecord => Ordered(candidates, op.outer.rec)

(* Pull requests are not forgotten, and a merged one stays merged. *)
Stays(shown, later) ==
    \A n \in PullNumbers : shown[n] # NoRecord =>
        /\ later[n] # NoRecord
        /\ shown[n].state = "MERGED" => later[n].state = "MERGED"

LEMMA RecordStays ==
    ASSUME NEW shown, NEW later, Stays(shown, later),
           NEW r \in DeliveryRecord, RecordOK(shown, r)
    PROVE  RecordOK(later, r)
BY DEF Stays, RecordOK, DeliveryRecord, NoId

LEMMA OpStays ==
    ASSUME NEW shown, NEW later, Stays(shown, later), NEW o, OpOK(shown, o)
    PROVE  OpOK(later, o)
<1>1. /\ o \in DeliveryOps
      /\ o.pc # "idle" => o.id \in DeliveryIds /\ o.rec \in DeliveryRecord
                          /\ RecordOK(shown, o.rec)
      /\ o.outer # NoRecord => RecordOK(shown, o.outer.rec)
      /\ o.pc \in {"sync", "details"} =>
            /\ o.rec.pull # NoId
            /\ o.view.state = "MERGED" => shown[o.rec.pull].state = "MERGED"
  BY DEF OpOK
<1>2. o.pc # "idle" => RecordOK(later, o.rec)
  BY <1>1, RecordStays
<1>3. o.outer # NoRecord => RecordOK(later, o.outer.rec)
  <2>1. o.outer # NoRecord => o.outer.rec \in DeliveryRecord
    BY <1>1 DEF DeliveryOps, Works
  <2> QED BY <1>1, <2>1, RecordStays
<1>4. o.pc \in {"sync", "details"} =>
         (o.view.state = "MERGED" => later[o.rec.pull].state = "MERGED")
  <2> SUFFICES ASSUME o.pc \in {"sync", "details"}, o.view.state = "MERGED"
               PROVE  later[o.rec.pull].state = "MERGED"
    OBVIOUS
  <2>1. o.rec.pull \in PullNumbers /\ shown[o.rec.pull] # NoRecord
    BY <1>1 DEF RecordOK, DeliveryRecord, NoId
  <2> QED BY <1>1, <2>1 DEF Stays
<1> QED BY <1>2, <1>3, <1>4 DEF OpOK

LEMMA StoresStay ==
    ASSUME NEW recs, NEW cands, NEW sel, NEW shown, NEW later,
           StoresOK(recs, cands, sel, shown), Stays(shown, later)
    PROVE  StoresOK(recs, cands, sel, later)
BY RecordStays DEF StoresOK

LEMMA Unpulled == Stays(pulls, pulls)
BY DEF Stays

LEMMA SavedOK ==
    ASSUME NEW cands, NEW sel, NEW shown, NEW recs, StoresOK(recs, cands, sel, shown),
           NEW d \in DeliveryIds, NEW r \in DeliveryRecord, RecordOK(shown, r)
    PROVE  StoresOK([recs EXCEPT ![d] = r], cands, sel, shown)
BY DEF StoresOK

LEMMA IdleIsOK == ASSUME NEW shown PROVE OpOK(shown, IdleOp)
BY DEF OpOK, IdleOp, DeliveryOps, OpSteps, ViewRecord, NoView, Publishing, NoId

(* A request finds the record it names, or begins one for an attempt that  *)
(* has none.                                                               *)
LEMMA TargetsAre ==
    ASSUME DeliveryInv, NEW t \in Known \cup ByJob \cup ByAttempt
    PROVE  /\ t \in Works /\ RecordOK(pulls, t.rec)
           /\ \/ records[t.id] # NoRecord /\ t.rec = records[t.id]
              \/ /\ records[t.id] = NoRecord /\ t.id \in FreshDeliveryIds
                 /\ t.rec = NewDelivery(t.rec.attempt) /\ RecordsOf(t.rec.attempt) = {}
<1>k. /\ records \in [DeliveryIds -> DeliveryRecord \cup {NoRecord}]
      /\ \A d \in DeliveryIds : records[d] # NoRecord => RecordOK(pulls, records[d])
      /\ completed \subseteq DeliverableAttempts
  BY DEF DeliveryInv, StoresOK, WorldOK
<1>1. CASE \E d \in DeliveryIds :
              records[d] # NoRecord /\ t = [id |-> d, rec |-> records[d]]
  BY <1>k, <1>1 DEF Works
<1>2. CASE \E a \in completed : t \in ForAttempt(a)
  <2>1. PICK a \in completed : t \in ForAttempt(a)
    BY <1>2
  <2>2. CASE RecordsOf(a) # {}
    <3>1. PICK d \in RecordsOf(a) : t = [id |-> d, rec |-> records[d]]
      BY <2>1, <2>2 DEF ForAttempt
    <3>2. d \in DeliveryIds /\ records[d] # NoRecord
      BY DEF RecordsOf
    <3> QED BY <1>1, <3>1, <3>2
  <2>3. CASE RecordsOf(a) = {}
    <3>1. PICK d \in FreshDeliveryIds : t = [id |-> d, rec |-> NewDelivery(a)]
      BY <2>1, <2>3 DEF ForAttempt
    <3>2. d \in DeliveryIds /\ records[d] = NoRecord
      BY DEF FreshDeliveryIds
    <3>3. NewDelivery(a) \in DeliveryRecord /\ NewDelivery(a).attempt = a
      BY <1>k, <2>1, DeliveryAssumption
      DEF NewDelivery, DeliveryRecord, DeliveryStates, NoId
    <3>4. RecordOK(pulls, NewDelivery(a))
      BY DEF RecordOK, NewDelivery
    <3> QED BY <2>3, <3>1, <3>2, <3>3, <3>4 DEF Works
  <2> QED BY <2>2, <2>3
<1>3. t \in Known => \E d \in DeliveryIds :
              records[d] # NoRecord /\ t = [id |-> d, rec |-> records[d]]
  BY DEF Known
<1>4. t \in ByJob \cup ByAttempt => \E a \in completed : t \in ForAttempt(a)
  BY DEF ByJob, ByAttempt, Deliverable
<1> QED BY <1>1, <1>2, <1>3, <1>4

(* A publish finds a record of the candidate's attempt.                    *)
LEMMA PublishTargetsAre ==
    ASSUME DeliveryInv, NEW c \in CandidateIds, Publishable(c),
           NEW t \in PublishTargets(c)
    PROVE  /\ t \in Works /\ RecordOK(pulls, t.rec)
           /\ t.id = candidates[c].delivery /\ t.rec.candidate = c
           /\ t.rec.attempt = candidates[c].attempt
           /\ t.rec.branch = NoRecord \/
              \E d \in RecordsOf(t.rec.attempt) : t.rec.branch = records[d].branch
<1>k. /\ records \in [DeliveryIds -> DeliveryRecord \cup {NoRecord}]
      /\ \A d \in DeliveryIds : records[d] # NoRecord => RecordOK(pulls, records[d])
      /\ candidates[c] \in CandidateRecord
  BY DEF DeliveryInv, StoresOK, Publishable
<1>1. PICK a : a = candidates[c].attempt /\ a \in DeliverableAttempts
  BY <1>k DEF CandidateRecord
<1>2. PICK r : /\ t = [id |-> candidates[c].delivery,
                       rec |-> [r EXCEPT !.candidate = c, !.bound = TRUE]]
               /\ r \in IF RecordsOf(a) # {} THEN {records[d] : d \in RecordsOf(a)}
                        ELSE {NewDelivery(a)}
  BY <1>1 DEF PublishTargets
<1>3. /\ r \in DeliveryRecord /\ RecordOK(pulls, r) /\ r.attempt = a
      /\ r.branch = NoRecord \/ \E d \in RecordsOf(a) : r.branch = records[d].branch
  <2>1. CASE RecordsOf(a) # {}
    BY <1>k, <1>2, <2>1 DEF RecordsOf
  <2>2. CASE RecordsOf(a) = {}
    <3>1. r = NewDelivery(a)
      BY <1>2, <2>2
    <3> QED BY <1>1, <3>1, DeliveryAssumption
            DEF NewDelivery, DeliveryRecord, DeliveryStates, NoId, RecordOK
  <2> QED BY <2>1, <2>2
<1>4. PICK new : new = [r EXCEPT !.candidate = c, !.bound = TRUE]
  OBVIOUS
<1>5. /\ new \in DeliveryRecord /\ new.candidate = c /\ new.attempt = a
      /\ new.branch = r.branch /\ new.pull = r.pull /\ new.state = r.state
  BY <1>3, <1>4 DEF DeliveryRecord
<1>6. t.id = candidates[c].delivery /\ t.rec = new /\ t \in Works
  BY <1>k, <1>2, <1>4, <1>5 DEF Works, CandidateRecord
<1>7. RecordOK(pulls, new)
  BY <1>3, <1>5 DEF RecordOK
<1> QED BY <1>1, <1>3, <1>5, <1>6, <1>7

LEMMA DeliveryInitially ==
    ASSUME DeliveryInit
    PROVE  DeliveryInv
<1>1. Unchanged \in Manifests
  BY DEF Unchanged, Manifests
<1>2. worktrees \in [DeliverableAttempts -> WorktreeRecord]
  BY <1>1, DeliveryAssumption DEF DeliveryInit, WorktreeRecord
<1>3. WorldOK
  <2>1. 0 \in 0..MaxBase /\ 0 \in 0..MaxDisturbances
    BY DeliveryAssumption
  <2>2. /\ remote \in [BranchNames -> Commits \cup {NoRecord}]
        /\ pulls \in [PullNumbers -> PullRecord \cup {NoRecord}]
    BY DEF DeliveryInit
  <2> QED BY <1>2, <2>1, <2>2 DEF DeliveryInit, WorldOK
<1>4. StoresOK(records, candidates, selection, pulls)
  BY DEF DeliveryInit, StoresOK
<1>5. OpOK(pulls, op)
  BY IdleIsOK DEF DeliveryInit
<1> QED BY <1>3, <1>4, <1>5 DEF DeliveryInv

(* What an operation is at, and what it leaves alone. *)
LEMMA InFlight ==
    ASSUME DeliveryInv, op.pc # "idle"
    PROVE  /\ op \in DeliveryOps /\ op.id \in DeliveryIds /\ op.rec \in DeliveryRecord
           /\ RecordOK(pulls, op.rec)
           /\ op.outer # NoRecord => op.outer \in Works /\ RecordOK(pulls, op.outer.rec)
BY DEF DeliveryInv, OpOK, DeliveryOps

Begun(pc, t, outer) ==
    [pc |-> pc, id |-> t.id, rec |-> t.rec, ok |-> FALSE, commit |-> NoRecord,
     outer |-> outer, view |-> NoView]

LEMMA BegunIs ==
    ASSUME NEW t \in Works, NEW pc \in OpSteps, NEW outer
    PROVE  /\ [IdleOp EXCEPT !.pc = pc, !.id = t.id, !.rec = t.rec, !.outer = outer]
                 = Begun(pc, t, outer)
           /\ [IdleOp EXCEPT !.pc = pc, !.id = t.id, !.rec = t.rec]
                 = Begun(pc, t, NoRecord)
<1>1. PICK o : o = [IdleOp EXCEPT !.pc = pc, !.id = t.id, !.rec = t.rec, !.outer = outer]
  OBVIOUS
<1>2. o = Begun(pc, t, outer)
  BY <1>1 DEF IdleOp, Begun
<1>3. PICK p : p = [IdleOp EXCEPT !.pc = pc, !.id = t.id, !.rec = t.rec]
  OBVIOUS
<1>4. p = Begun(pc, t, NoRecord)
  BY <1>3 DEF IdleOp, Begun
<1> QED BY <1>1, <1>2, <1>3, <1>4

LEMMA BegunIsOK ==
    ASSUME NEW shown, NEW t \in Works, RecordOK(shown, t.rec),
           NEW pc \in {"gate", "rebase", "start"}, NEW outer \in Works \cup {NoRecord},
           outer # NoRecord => RecordOK(shown, outer.rec)
    PROVE  OpOK(shown, Begun(pc, t, outer))
<1>1. PICK o : o = Begun(pc, t, outer)
  OBVIOUS
<1>2. o.pc = pc /\ o.id = t.id /\ o.rec = t.rec /\ o.outer = outer
  BY <1>1 DEF Begun
<1>3. o \in DeliveryOps
  BY <1>1 DEF Begun, DeliveryOps, Works, OpSteps, ViewRecord, NoView
<1> QED BY <1>1, <1>2, <1>3 DEF OpOK, Publishing, Works

(* An operation that ends, and saves at most.                              *)
LEMMA SaveAndGo ==
    ASSUME DeliveryInv, NEW d \in DeliveryIds, NEW r \in DeliveryRecord,
           RecordOK(pulls, r), Save(d, r), OpOK(pulls, op'),
           UNCHANGED <<candidates, selection, jobVars, worktrees, github>>,
           disturbances' \in 0..MaxDisturbances
    PROVE  DeliveryInv'
<1>1. StoresOK(records', candidates', selection', pulls')
  BY SavedOK DEF DeliveryInv, Save, github
<1>2. OpOK(pulls', op')
  BY DEF github
<1>3. WorldOK'
  BY DEF DeliveryInv, WorldOK, jobVars, github
<1> QED BY <1>1, <1>2, <1>3 DEF DeliveryInv

LEMMA GoOn ==
    ASSUME DeliveryInv, OpOK(pulls, op'),
           UNCHANGED <<stores, jobVars, github>>,
           worktrees' \in [DeliverableAttempts -> WorktreeRecord],
           disturbances' \in 0..MaxDisturbances
    PROVE  DeliveryInv'
<1>1. StoresOK(records', candidates', selection', pulls')
  BY DEF DeliveryInv, stores, github
<1>2. OpOK(pulls', op')
  BY DEF github
<1>3. WorldOK'
  BY DEF DeliveryInv, WorldOK, jobVars, github
<1> QED BY <1>1, <1>2, <1>3 DEF DeliveryInv

LEMMA Disturbed ==
    ASSUME DeliveryInv
    PROVE  /\ NoFault \/ Fault \/ Disturb("edit") \/ Disturb("crash")
                => disturbances' \in 0..MaxDisturbances
           /\ disturbances \in 0..MaxDisturbances
           /\ worktrees \in [DeliverableAttempts -> WorktreeRecord]
           /\ disturbances' # 0 \/ disturbances' = disturbances \/ ~(NoFault \/ Fault)
BY DeliveryAssumption DEF DeliveryInv, WorldOK, NoFault, Fault, Disturb

(* Preflight. *)
LEMMA PreflightTypes ==
    ASSUME DeliveryInv,
           \/ PreflightBegin \/ Gate \/ BuildCandidate \/ BuildRefused
           \/ PreflightPersist \/ PreflightResult
    PROVE  DeliveryInv'
<1>d. /\ disturbances \in 0..MaxDisturbances
      /\ worktrees \in [DeliverableAttempts -> WorktreeRecord]
  BY Disturbed
<1>1. CASE PreflightBegin
  <2>1. PICK t \in Known \cup ByJob \cup ByAttempt :
            op' = [IdleOp EXCEPT !.pc = "gate", !.id = t.id, !.rec = t.rec]
    BY <1>1 DEF PreflightBegin
  <2>2. t \in Works /\ RecordOK(pulls, t.rec)
    BY <2>1, TargetsAre
  <2>3. OpOK(pulls, op')
    <3>1. op' = Begun("gate", t, NoRecord)
      BY <2>1, <2>2, BegunIs DEF OpSteps
    <3> QED BY <2>2, <3>1, BegunIsOK
  <2> QED BY <1>1, <1>d, <2>3, GoOn DEF PreflightBegin
<1>2. CASE Gate
  <2>1. PICK ok \in BOOLEAN :
            op' = [op EXCEPT !.ok = ok, !.pc = IF ok THEN "candidate" ELSE "save"]
    BY <1>2 DEF Gate
  <2>2. op.pc = "gate"
    BY <1>2 DEF Gate, Step
  <2>3. /\ op \in DeliveryOps /\ op.id \in DeliveryIds /\ op.rec \in DeliveryRecord
        /\ RecordOK(pulls, op.rec)
        /\ op.outer # NoRecord => RecordOK(pulls, op.outer.rec)
    BY <2>2, InFlight
  <2>4. OpOK(pulls, op')
    BY <2>1, <2>3 DEF OpOK, DeliveryOps, OpSteps, Publishing
  <2> QED BY <1>2, <1>d, <2>4, GoOn DEF Gate
<1>3. CASE BuildCandidate
  <2>1. op.pc = "candidate"
    BY <1>3 DEF BuildCandidate, Step
  <2>2. /\ op \in DeliveryOps /\ op.id \in DeliveryIds /\ op.rec \in DeliveryRecord
        /\ RecordOK(pulls, op.rec)
        /\ op.outer # NoRecord => RecordOK(pulls, op.outer.rec)
    BY <2>1, InFlight
  <2>3. PICK a, files : a = op.rec.attempt /\ files = Inventory(a, op.rec.bound)
    OBVIOUS
  <2>4. a \in DeliverableAttempts /\ worktrees[a] \in WorktreeRecord
    BY <1>d, <2>2, <2>3 DEF DeliveryRecord
  <2>5. files \in Manifests
    BY <2>3, <2>4 DEF Inventory, Content, WorktreeRecord, Manifests
  <2>6. PICK c \in FreshCandidateIds :
           /\ candidates' = [candidates EXCEPT
                 ![c] = [attempt |-> a, delivery |-> op.id, files |-> files,
                         head |-> worktrees[a].head, based |-> op.rec.bound,
                         approved |-> FALSE]]
           /\ op' = [op EXCEPT !.rec.candidate = c, !.pc = "save"]
    BY <1>3, <2>3 DEF BuildCandidate
  <2>7. c \in CandidateIds
    BY DEF FreshCandidateIds
  <2>8. [attempt |-> a, delivery |-> op.id, files |-> files, head |-> worktrees[a].head,
         based |-> op.rec.bound, approved |-> FALSE] \in CandidateRecord
    BY <2>2, <2>4, <2>5 DEF CandidateRecord, WorktreeRecord, DeliveryRecord
  <2>9. candidates' \in [CandidateIds -> CandidateRecord \cup {NoRecord}]
    BY <2>6, <2>7, <2>8 DEF DeliveryInv, StoresOK
  <2>10. PICK r : r = [op.rec EXCEPT !.candidate = c]
    OBVIOUS
  <2>11. /\ r \in DeliveryRecord /\ r.pull = op.rec.pull /\ r.state = op.rec.state
         /\ op' = [op EXCEPT !.rec = r, !.pc = "save"]
    BY <2>2, <2>6, <2>7, <2>10 DEF DeliveryRecord, DeliveryOps
  <2>12. OpOK(pulls, op')
    BY <2>2, <2>11 DEF OpOK, DeliveryOps, OpSteps, Publishing, RecordOK
  <2>13. UNCHANGED <<records, selection, jobVars, worktrees, github, disturbances>>
    BY <1>3 DEF BuildCandidate
  <2>14. StoresOK(records', candidates', selection', pulls') /\ WorldOK' /\ OpOK(pulls', op')
    BY <2>9, <2>12, <2>13 DEF DeliveryInv, StoresOK, WorldOK, jobVars, github
  <2> QED BY <2>14 DEF DeliveryInv
<1>4. CASE BuildRefused
  BY <1>4, <1>d, IdleIsOK, GoOn DEF BuildRefused, Finish
<1>5. CASE PreflightPersist
  <2>1. op.pc = "save" /\ op' = [op EXCEPT !.pc = "save2"] /\ Save(op.id, op.rec)
    BY <1>5 DEF PreflightPersist, Step
  <2>2. /\ op \in DeliveryOps /\ op.id \in DeliveryIds /\ op.rec \in DeliveryRecord
        /\ RecordOK(pulls, op.rec)
        /\ op.outer # NoRecord => RecordOK(pulls, op.outer.rec)
    BY <2>1, InFlight
  <2>3. OpOK(pulls, op')
    BY <2>1, <2>2 DEF OpOK, DeliveryOps, OpSteps, Publishing
  <2> QED BY <1>5, <1>d, <2>1, <2>2, <2>3, SaveAndGo DEF PreflightPersist
<1>6. CASE PreflightResult
  <2>1. PICK r : r = [op.rec EXCEPT
                        !.state = IF op.ok THEN "READY_TO_PUBLISH" ELSE "NOT_READY"]
    OBVIOUS
  <2>2. op.pc = "save2" /\ Save(op.id, r)
    BY <1>6, <2>1 DEF PreflightResult, Step
  <2>3. /\ op \in DeliveryOps /\ op.id \in DeliveryIds /\ op.rec \in DeliveryRecord
        /\ RecordOK(pulls, op.rec)
        /\ op.outer # NoRecord => op.outer \in Works /\ RecordOK(pulls, op.outer.rec)
    BY <2>2, InFlight
  <2>4. r \in DeliveryRecord /\ r.pull = op.rec.pull
        /\ r.state \in {"READY_TO_PUBLISH", "NOT_READY"}
    BY <2>1, <2>3 DEF DeliveryRecord, DeliveryStates
  <2>5. RecordOK(pulls, r)
    BY <2>3, <2>4 DEF RecordOK
  <2>6. CASE op' = IdleOp
    BY <1>6, <1>d, <2>2, <2>3, <2>4, <2>5, <2>6, IdleIsOK, SaveAndGo DEF PreflightResult
  <2>7. CASE /\ op.outer # NoRecord
             /\ op' = [IdleOp EXCEPT !.pc = "start", !.id = op.outer.id,
                                     !.rec = op.outer.rec]
    <3>1. OpOK(pulls, op')
      <4>1. op' = Begun("start", op.outer, NoRecord)
        BY <2>3, <2>7, BegunIs DEF OpSteps
      <4> QED BY <2>3, <2>7, <4>1, BegunIsOK
    <3> QED BY <1>6, <1>d, <2>2, <2>3, <2>4, <2>5, <3>1, SaveAndGo DEF PreflightResult
  <2> QED BY <1>6, <2>6, <2>7 DEF PreflightResult
<1> QED BY <1>1, <1>2, <1>3, <1>4, <1>5, <1>6

(* Selection, approval, and a publish up to the look at GitHub. *)
LEMMA ApprovalTypes ==
    ASSUME DeliveryInv, SelectAttempt \/ ApproveCandidate
    PROVE  DeliveryInv'
<1>1. CASE SelectAttempt
  <2>1. /\ selection' \in DeliverableAttempts
        /\ UNCHANGED <<records, candidates, jobVars, worktrees, github, op, disturbances>>
    BY <1>1 DEF SelectAttempt, DeliveryInv, WorldOK
  <2> QED BY <2>1 DEF DeliveryInv, StoresOK, WorldOK, jobVars, github
<1>2. CASE ApproveCandidate
  <2>1. PICK c \in CandidateIds : /\ candidates[c] # NoRecord
                                  /\ candidates' = [candidates EXCEPT ![c].approved = TRUE]
    BY <1>2 DEF ApproveCandidate
  <2>2. candidates[c] \in CandidateRecord
    BY <2>1 DEF DeliveryInv, StoresOK
  <2>3. [candidates[c] EXCEPT !.approved = TRUE] \in CandidateRecord
    BY <2>2 DEF CandidateRecord
  <2>4. candidates' \in [CandidateIds -> CandidateRecord \cup {NoRecord}]
    BY <2>1, <2>3 DEF DeliveryInv, StoresOK
  <2>5. UNCHANGED <<records, selection, jobVars, worktrees, github, op, disturbances>>
    BY <1>2 DEF ApproveCandidate
  <2> QED BY <2>4, <2>5 DEF DeliveryInv, StoresOK, WorldOK, jobVars, github
<1> QED BY <1>1, <1>2

LEMMA OrderTypes ==
    ASSUME DeliveryInv,
           PublishBlocked \/ PublishBegin \/ PublishBehind \/ SafeRebase \/ RebaseFails
           \/ PublishStart
    PROVE  DeliveryInv'
<1>d. /\ disturbances \in 0..MaxDisturbances
      /\ worktrees \in [DeliverableAttempts -> WorktreeRecord]
  BY Disturbed
<1>1. CASE PublishBlocked
  <2>c. PICK c \in CandidateIds : Publishable(c) /\
            \E t \in PublishTargets(c) :
               /\ Fault \/ NoFault
               /\ Save(t.id, [t.rec EXCEPT !.state = "DELIVERY_FAILED",
                                           !.branch = NoRecord])
    BY <1>1 DEF PublishBlocked
  <2>1. PICK t \in PublishTargets(c) :
               /\ Fault \/ NoFault
               /\ Save(t.id, [t.rec EXCEPT !.state = "DELIVERY_FAILED",
                                           !.branch = NoRecord])
    BY <2>c
  <2>2. t \in Works /\ RecordOK(pulls, t.rec)
    BY <2>c, PublishTargetsAre
  <2>3. PICK r : r = [t.rec EXCEPT !.state = "DELIVERY_FAILED", !.branch = NoRecord]
    OBVIOUS
  <2>4. r \in DeliveryRecord /\ r.pull = t.rec.pull /\ r.state = "DELIVERY_FAILED"
    BY <2>2, <2>3 DEF Works, DeliveryRecord, DeliveryStates
  <2>5. RecordOK(pulls, r) /\ t.id \in DeliveryIds
    BY <2>2, <2>4 DEF RecordOK, Works
  <2>6. /\ UNCHANGED <<candidates, selection, jobVars, worktrees, github, op>>
        /\ OpOK(pulls, op')
    BY <1>1 DEF PublishBlocked, DeliveryInv
  <2>7. disturbances' \in 0..MaxDisturbances
    BY <2>1, Disturbed
  <2> QED BY <2>1, <2>3, <2>4, <2>5, <2>6, <2>7, SaveAndGo
<1>2. CASE PublishBegin \/ PublishBehind
  <2>c. PICK c \in CandidateIds, pc \in {"start", "rebase"} :
            Publishable(c) /\ \E t \in PublishTargets(c) :
               op' = [IdleOp EXCEPT !.pc = pc, !.id = t.id, !.rec = t.rec]
    BY <1>2 DEF PublishBegin, PublishBehind
  <2>1. PICK t \in PublishTargets(c) :
            op' = [IdleOp EXCEPT !.pc = pc, !.id = t.id, !.rec = t.rec]
    BY <2>c
  <2>2. t \in Works /\ RecordOK(pulls, t.rec)
    BY <2>c, PublishTargetsAre
  <2>3. op' = Begun(pc, t, NoRecord)
    BY <2>1, <2>2, BegunIs DEF OpSteps
  <2>4. OpOK(pulls, op')
    BY <2>2, <2>3, BegunIsOK
  <2> QED BY <1>2, <1>d, <2>4, GoOn DEF PublishBegin, PublishBehind
<1>3. CASE SafeRebase
  <2>1. /\ op.pc = "rebase" /\ UNCHANGED <<stores, jobVars, github, disturbances>>
        /\ worktrees' = [worktrees EXCEPT ![op.rec.attempt].head = base]
    BY <1>3 DEF SafeRebase, Step
  <2>2. /\ op \in DeliveryOps /\ op.id \in DeliveryIds /\ op.rec \in DeliveryRecord
        /\ RecordOK(pulls, op.rec)
    BY <2>1, InFlight
  <2>3. worktrees' \in [DeliverableAttempts -> WorktreeRecord]
    BY <1>d, <2>1 DEF WorktreeRecord, DeliveryInv, WorldOK
  <2>4. CASE op' = IdleOp
    BY <1>d, <2>1, <2>3, <2>4, IdleIsOK, GoOn
  <2>5. ASSUME NEW t \in Known \cup ByJob, NEW outer,
               outer = [id |-> op.id, rec |-> op.rec],
               op' = [IdleOp EXCEPT !.pc = "gate", !.id = t.id, !.rec = t.rec,
                                    !.outer = outer]
        PROVE  DeliveryInv'
    <3>1. t \in Works /\ RecordOK(pulls, t.rec)
      BY <2>5, TargetsAre
    <3>2. outer \in Works /\ RecordOK(pulls, outer.rec)
      BY <2>2, <2>5 DEF Works
    <3>3. op' = Begun("gate", t, outer)
      BY <2>5 DEF IdleOp, Begun
    <3>4. OpOK(pulls, op')
      BY <3>1, <3>2, <3>3, BegunIsOK
    <3> QED BY <1>d, <2>1, <2>3, <3>4, GoOn
  <2> QED BY <1>3, <2>4, <2>5 DEF SafeRebase, Finish
<1>4. CASE RebaseFails
  BY <1>4, <1>d, IdleIsOK, GoOn DEF RebaseFails, Finish
<1>5. CASE PublishStart
  <2>1. PICK r, s : /\ r = [op.rec EXCEPT !.state = "PUBLISHING"]
                    /\ s = [r EXCEPT !.branch = BranchName(op.id, r.attempt)]
    OBVIOUS
  <2>2. op.pc = "start" /\ Save(op.id, r) /\ op' = [op EXCEPT !.pc = "look", !.rec = s]
    BY <1>5, <2>1 DEF PublishStart, Step
  <2>3. /\ op \in DeliveryOps /\ op.id \in DeliveryIds /\ op.rec \in DeliveryRecord
        /\ RecordOK(pulls, op.rec)
        /\ op.outer # NoRecord => RecordOK(pulls, op.outer.rec)
    BY <2>2, InFlight
  <2>4. /\ r \in DeliveryRecord /\ r.pull = op.rec.pull /\ r.state = "PUBLISHING"
    BY <2>1, <2>3 DEF DeliveryRecord, DeliveryStates
  <2>5. BranchName(op.id, r.attempt) \in BranchNames
    BY <2>3, <2>4 DEF BranchName, BranchNames, DeliveryRecord
  <2>6. /\ s \in DeliveryRecord /\ s.pull = r.pull /\ s.state = "PUBLISHING"
        /\ s.branch \in BranchNames
    BY <2>1, <2>4, <2>5 DEF DeliveryRecord
  <2>7. RecordOK(pulls, r) /\ RecordOK(pulls, s)
    BY <2>3, <2>4, <2>6 DEF RecordOK
  <2>8. OpOK(pulls, op')
    BY <2>2, <2>3, <2>6, <2>7 DEF OpOK, DeliveryOps, OpSteps, Publishing
  <2> QED BY <1>5, <1>d, <2>2, <2>3, <2>4, <2>7, <2>8, SaveAndGo DEF PublishStart
<1> QED BY <1>1, <1>2, <1>3, <1>4, <1>5

(* A publish from the look at GitHub to the end.  Its copy is PUBLISHING   *)
(* and has a branch. *)
LEMMA UnderWay ==
    ASSUME DeliveryInv, op.pc \in Publishing
    PROVE  /\ op \in DeliveryOps /\ op.id \in DeliveryIds /\ op.rec \in DeliveryRecord
           /\ RecordOK(pulls, op.rec)
           /\ op.outer # NoRecord => RecordOK(pulls, op.outer.rec)
           /\ op.rec.state = "PUBLISHING" /\ op.rec.branch \in BranchNames
BY DEF DeliveryInv, OpOK, Publishing

LEMMA FailedIsOK ==
    ASSUME DeliveryInv, op.pc \in Publishing, PublishFails,
           UNCHANGED <<jobVars, worktrees, github>>,
           disturbances' \in 0..MaxDisturbances
    PROVE  DeliveryInv'
<1>1. PICK r : r = [op.rec EXCEPT !.state = "DELIVERY_FAILED"]
  OBVIOUS
<1>2. /\ r \in DeliveryRecord /\ r.pull = op.rec.pull /\ r.state = "DELIVERY_FAILED"
      /\ op.id \in DeliveryIds
  BY <1>1, UnderWay DEF DeliveryRecord, DeliveryStates
<1>3. RecordOK(pulls, r)
  BY <1>2, UnderWay DEF RecordOK
<1> QED BY <1>1, <1>2, <1>3, IdleIsOK, SaveAndGo DEF PublishFails, Finish

LEMMA PublishTypes ==
    ASSUME DeliveryInv, OrderInv,
           \/ AdoptPull \/ UnexpectedBranch \/ NothingRemote
           \/ CandidateStale \/ CandidateFresh \/ CommitCandidate
           \/ PushBranch \/ PushFails \/ CreateFails
    PROVE  DeliveryInv'
<1>d. /\ disturbances \in 0..MaxDisturbances
      /\ worktrees \in [DeliverableAttempts -> WorktreeRecord]
      /\ NoFault \/ Fault => disturbances' \in 0..MaxDisturbances
  BY Disturbed
<1>p. /\ pulls \in [PullNumbers -> PullRecord \cup {NoRecord}]
      /\ candidates \in [CandidateIds -> CandidateRecord \cup {NoRecord}]
  BY DEF DeliveryInv, WorldOK, StoresOK
<1>1. CASE AdoptPull
  <2>1. PICK n \in OpenPulls(op.rec.branch) :
            op' = [op EXCEPT !.pc = "record", !.rec.pull = n,
                             !.rec.pullBase = pulls[n].base]
    BY <1>1 DEF AdoptPull
  <2>2. op.pc \in Publishing /\ UNCHANGED <<stores, jobVars, worktrees, github, disturbances>>
    BY <1>1 DEF AdoptPull, Step, Publishing
  <2>3. n \in PullNumbers /\ pulls[n] \in PullRecord /\ pulls[n] # NoRecord
    BY <1>p DEF OpenPulls
  <2>4. PICK r : r = [op.rec EXCEPT !.pull = n, !.pullBase = pulls[n].base]
    OBVIOUS
  <2>5. /\ r \in DeliveryRecord /\ r.pull = n /\ r.state = "PUBLISHING"
        /\ r.branch \in BranchNames
    BY <2>2, <2>3, <2>4, UnderWay DEF DeliveryRecord, PullRecord
  <2>6. op' = [op EXCEPT !.pc = "record", !.rec = r]
    BY <2>1, <2>2, <2>4, UnderWay DEF DeliveryOps
  <2>7. OpOK(pulls, op')
    BY <2>2, <2>3, <2>5, <2>6, UnderWay DEF OpOK, DeliveryOps, OpSteps, RecordOK
  <2> QED BY <1>d, <2>2, <2>7, GoOn
<1>2. CASE UnexpectedBranch
  <2>1. op.pc \in Publishing /\ disturbances' \in 0..MaxDisturbances
    BY <1>2, <1>d DEF UnexpectedBranch, Step, Publishing
  <2> QED BY <1>2, <2>1, FailedIsOK DEF UnexpectedBranch
<1>3. CASE NothingRemote
  <2>1. /\ op.pc \in Publishing /\ disturbances' \in 0..MaxDisturbances
        /\ op' = [op EXCEPT !.pc = "check"]
    BY <1>3, <1>d DEF NothingRemote, Step, Publishing
  <2>2. OpOK(pulls, op')
    BY <2>1, UnderWay DEF OpOK, DeliveryOps, OpSteps
  <2> QED BY <1>3, <1>d, <2>1, <2>2, GoOn DEF NothingRemote
<1>4. CASE CandidateStale
  <2>1. op.pc \in Publishing /\ disturbances' \in 0..MaxDisturbances
    BY <1>4, <1>d DEF CandidateStale, Step, Publishing
  <2> QED BY <1>4, <2>1, FailedIsOK DEF CandidateStale
<1>5. CASE CandidateFresh
  <2>1. op.pc \in Publishing /\ op' = [op EXCEPT !.pc = "commit"]
    BY <1>5 DEF CandidateFresh, Step, Publishing
  <2>2. OpOK(pulls, op')
    BY <2>1, UnderWay DEF OpOK, DeliveryOps, OpSteps
  <2> QED BY <1>5, <1>d, <2>1, <2>2, GoOn DEF CandidateFresh
<1>6. CASE CommitCandidate
  <2>1. PICK commit : /\ commit = [attempt |-> op.rec.attempt,
                                   tree |-> CommitTree(op.rec.candidate)]
                      /\ op' = [op EXCEPT !.pc = "push", !.commit = commit]
    BY <1>6 DEF CommitCandidate
  <2>2. op.pc \in Publishing
    BY <1>6 DEF CommitCandidate, Step, Publishing
  <2>3. PICK c : c = op.rec.candidate /\ c \in CandidateIds /\ candidates[c] \in CandidateRecord
    BY <1>p, <2>2 DEF OrderInv, Ordered
  <2>4. CommitTree(c) \in Manifests
    <3>1. PICK a : a = candidates[c].attempt /\ worktrees[a] \in WorktreeRecord
      BY <1>d, <2>3 DEF CandidateRecord
    <3>2. Content(a) \in Manifests
      BY <3>1 DEF Content, WorktreeRecord, Manifests
    <3>3. worktrees[a].committed \in Manifests /\ Unchanged \in Manifests
      BY <3>1 DEF WorktreeRecord, Unchanged, Manifests
    <3> QED BY <3>1, <3>2, <3>3 DEF CommitTree, Manifests
  <2>5. commit \in Commits
    BY <2>1, <2>2, <2>3, <2>4, UnderWay DEF Commits, DeliveryRecord
  <2>6. OpOK(pulls, op')
    BY <2>1, <2>2, <2>5, UnderWay DEF OpOK, DeliveryOps, OpSteps
  <2> QED BY <1>6, <1>d, <2>6, GoOn DEF CommitCandidate
<1>7. CASE PushBranch
  <2>1. op.pc = "push" /\ op.pc \in Publishing
    BY <1>7 DEF PushBranch, Step, Publishing
  <2>2. op.commit \in Commits
    BY <2>1 DEF DeliveryInv, OpOK
  <2>3. /\ remote' = [remote EXCEPT ![op.rec.branch] = op.commit]
        /\ UNCHANGED <<stores, jobVars, worktrees, base, pulls>>
        /\ disturbances' \in 0..MaxDisturbances
        /\ op' = IdleOp \/ op' = [op EXCEPT !.pc = "create"]
    BY <1>7, <1>d DEF PushBranch, Finish
  <2>4. OpOK(pulls, op')
    <3>1. CASE op' = [op EXCEPT !.pc = "create"]
      BY <2>1, <3>1, UnderWay DEF OpOK, DeliveryOps, OpSteps
    <3> QED BY <2>3, <3>1, IdleIsOK
  <2>5. WorldOK'
    BY <2>2, <2>3 DEF DeliveryInv, WorldOK, jobVars
  <2> QED BY <2>3, <2>4, <2>5 DEF DeliveryInv, stores
<1>8. CASE PushFails
  <2>1. op.pc \in Publishing /\ disturbances' \in 0..MaxDisturbances
    BY <1>8, <1>d DEF PushFails, Step, Publishing
  <2> QED BY <1>8, <1>d, <2>1, IdleIsOK, GoOn DEF PushFails, Finish
<1>9. CASE CreateFails
  <2>1. op.pc \in Publishing /\ disturbances' \in 0..MaxDisturbances
    BY <1>9, <1>d DEF CreateFails, Step, Publishing
  <2> QED BY <1>9, <1>d, <2>1, IdleIsOK, GoOn DEF CreateFails, Finish
<1> QED BY <1>1, <1>2, <1>3, <1>4, <1>5, <1>6, <1>7, <1>8, <1>9

(* A pull request is opened: its number was free.                          *)
LEMMA CreatePullTypes ==
    ASSUME DeliveryInv, CreatePull
    PROVE  DeliveryInv' /\ Stays(pulls, pulls')
<1>1. PICK b, n, new :
         /\ b = op.rec.branch /\ n \in NextPull
         /\ new = [branch |-> b, commit |-> remote[b], state |-> "OPEN", base |-> base]
         /\ pulls' = [pulls EXCEPT ![n] = new]
         /\ op' = IdleOp
            \/ op' = [op EXCEPT !.pc = "record", !.rec.pull = n, !.rec.pullBase = base]
  BY DEF CreatePull, Finish
<1>2. /\ op.pc \in Publishing /\ remote[b] # NoRecord
      /\ UNCHANGED <<stores, jobVars, worktrees, base, remote>>
      /\ NoFault \/ Fault
  BY <1>1 DEF CreatePull, Step, Publishing
<1>3. disturbances' \in 0..MaxDisturbances
  BY <1>2, Disturbed
<1>4. n \in PullNumbers /\ pulls[n] = NoRecord
  BY <1>1 DEF NextPull
<1>5. /\ pulls \in [PullNumbers -> PullRecord \cup {NoRecord}]
      /\ base \in 0..MaxBase /\ b \in BranchNames /\ remote[b] \in Commits
  BY <1>1, <1>2, UnderWay DEF DeliveryInv, WorldOK
<1>6. new \in PullRecord /\ new # NoRecord
  BY <1>1, <1>5, NoRecordAssumption DEF PullRecord
<1>7. /\ pulls' \in [PullNumbers -> PullRecord \cup {NoRecord}]
      /\ Stays(pulls, pulls') /\ pulls'[n] # NoRecord
  BY <1>1, <1>4, <1>5, <1>6 DEF Stays
<1>8. OpOK(pulls', op')
  <2>1. CASE op' = [op EXCEPT !.pc = "record", !.rec.pull = n, !.rec.pullBase = base]
    <3>1. PICK r : r = [op.rec EXCEPT !.pull = n, !.pullBase = base]
      OBVIOUS
    <3>2. /\ r \in DeliveryRecord /\ r.pull = n /\ r.state = "PUBLISHING"
          /\ r.branch \in BranchNames
      BY <1>2, <1>4, <1>5, <3>1, UnderWay DEF DeliveryRecord
    <3>3. op' = [op EXCEPT !.pc = "record", !.rec = r]
      BY <1>2, <2>1, <3>1, UnderWay DEF DeliveryOps
    <3>4. op.outer # NoRecord => op.outer.rec \in DeliveryRecord
      BY <1>2, UnderWay DEF DeliveryOps, Works
    <3>5. op.outer # NoRecord => RecordOK(pulls', op.outer.rec)
      BY <1>2, <1>7, <3>4, UnderWay, RecordStays
    <3> QED BY <1>2, <1>7, <3>2, <3>3, <3>5, UnderWay
            DEF OpOK, DeliveryOps, OpSteps, RecordOK
  <2> QED BY <1>1, <2>1, IdleIsOK
<1>9. StoresOK(records', candidates', selection', pulls')
  BY <1>2, <1>7, StoresStay DEF DeliveryInv, stores
<1>10. WorldOK'
  BY <1>2, <1>3, <1>7 DEF DeliveryInv, WorldOK, jobVars
<1> QED BY <1>7, <1>8, <1>9, <1>10 DEF DeliveryInv

LEMMA SummariesAre ==
    ASSUME NEW r \in DeliveryRecord, NEW o, NEW s \in SyncRecords(r, o)
    PROVE  /\ s \in DeliveryRecord /\ s.pull = r.pull /\ s.state = r.state
           /\ s.attempt = r.attempt /\ s.branch = r.branch
           /\ s.candidate = r.candidate /\ s.bound = r.bound
<1> DEFINE C == IF o.viewed /\ o.checks THEN Verdicts ELSE {r.checks}
           V == IF o.viewed /\ o.reviews THEN Opinions ELSE {r.reviews}
<1>1. PICK c \in C, v \in V : s = Summarized(r, c, v)
  BY DEF SyncRecords
<1>2. C \subseteq {"none", "pending", "failed", "green"} /\ V \subseteq {"none", "changes"}
  BY DeliveryAssumption DEF DeliveryRecord
<1>3. c \in {"none", "pending", "failed", "green"} /\ v \in {"none", "changes"}
  BY <1>2
<1> QED BY <1>1, <1>3 DEF Summarized, DeliveryRecord

(* The last save of a publish. *)
LEMMA RecordPullTypes ==
    ASSUME DeliveryInv, RecordPull
    PROVE  DeliveryInv'
<1>1. op.pc \in Publishing
  BY DEF RecordPull, Step, Publishing
<1>2. PICK o, r : /\ r \in SyncRecords(op.rec, o)
                  /\ Save(op.id, [r EXCEPT !.state = IF o.viewed /\ ~o.checks
                                                     THEN "CI_PENDING" ELSE "PR_OPEN"])
  BY DEF RecordPull
<1>3. PICK s : s = [r EXCEPT !.state = IF o.viewed /\ ~o.checks
                                       THEN "CI_PENDING" ELSE "PR_OPEN"]
  OBVIOUS
<1>4. r \in DeliveryRecord /\ r.pull = op.rec.pull
  BY <1>1, <1>2, UnderWay, SummariesAre
<1>5. s \in DeliveryRecord /\ s.pull = op.rec.pull /\ s.state \in {"CI_PENDING", "PR_OPEN"}
  BY <1>3, <1>4 DEF DeliveryRecord, DeliveryStates
<1>6. RecordOK(pulls, s)
  BY <1>1, <1>5, UnderWay DEF RecordOK
<1>7. disturbances' \in 0..MaxDisturbances
  BY Disturbed DEF RecordPull, Suffered
<1> QED BY <1>1, <1>2, <1>3, <1>5, <1>6, <1>7, UnderWay, IdleIsOK, SaveAndGo
        DEF RecordPull, Finish

LEMMA SyncBeginTypes ==
    ASSUME DeliveryInv, SyncBegin
    PROVE  DeliveryInv'
<1>1. PICK t \in Known \cup ByJob, pc \in {"sync", "details"} :
        /\ t.rec.pull # NoId
        /\ \/ \E m \in MergeStates :
                 op' = [IdleOp EXCEPT
                          !.pc = pc, !.id = t.id, !.rec = t.rec,
                          !.view = [state |-> pulls[t.rec.pull].state, merge |-> m]]
           \/ op' = [IdleOp EXCEPT !.pc = pc, !.id = t.id, !.rec = t.rec]
  BY DEF SyncBegin
<1>2. t \in Works /\ RecordOK(pulls, t.rec) /\ t.rec \in DeliveryRecord
  BY TargetsAre DEF Works
<1>3. t.rec.pull \in PullNumbers /\ pulls[t.rec.pull] \in PullRecord
  BY <1>1, <1>2 DEF DeliveryRecord, DeliveryInv, WorldOK, RecordOK
<1>4. PICK view \in ViewRecord :
        /\ view.state = "MERGED" => pulls[t.rec.pull].state = "MERGED"
        /\ view.state = "lost" => view = NoView
        /\ op' = [pc |-> pc, id |-> t.id, rec |-> t.rec, ok |-> FALSE,
                  commit |-> NoRecord, outer |-> NoRecord, view |-> view]
  <2>1. CASE op' = [IdleOp EXCEPT !.pc = pc, !.id = t.id, !.rec = t.rec]
    <3>1. op' = Begun(pc, t, NoRecord)
      BY <1>2, <2>1, BegunIs DEF OpSteps
    <3>2. NoView \in ViewRecord /\ NoView.state # "MERGED"
      BY DEF NoView, ViewRecord
    <3> QED BY <3>1, <3>2 DEF Begun
  <2>2. ASSUME NEW m \in MergeStates, NEW view,
               view = [state |-> pulls[t.rec.pull].state, merge |-> m],
               op' = [IdleOp EXCEPT !.pc = pc, !.id = t.id, !.rec = t.rec, !.view = view]
        PROVE  \E v \in ViewRecord :
                  /\ v.state = "MERGED" => pulls[t.rec.pull].state = "MERGED"
                  /\ v.state = "lost" => v = NoView
                  /\ op' = [pc |-> pc, id |-> t.id, rec |-> t.rec, ok |-> FALSE,
                            commit |-> NoRecord, outer |-> NoRecord, view |-> v]
    <3>1. /\ view \in ViewRecord /\ view.state = pulls[t.rec.pull].state
          /\ view.state # "lost"
      BY <1>3, <2>2, DeliveryAssumption DEF ViewRecord, PullRecord
    <3>2. op' = [pc |-> pc, id |-> t.id, rec |-> t.rec, ok |-> FALSE,
                 commit |-> NoRecord, outer |-> NoRecord, view |-> view]
      BY <2>2 DEF IdleOp
    <3> QED BY <3>1, <3>2
  <2> QED BY <1>1, <2>1, <2>2
<1>5. op' \in DeliveryOps
  BY <1>2, <1>4 DEF Works, DeliveryOps, OpSteps
<1>6. OpOK(pulls, op')
  BY <1>1, <1>2, <1>4, <1>5 DEF OpOK, Works, Publishing
<1>7. disturbances' \in 0..MaxDisturbances
  BY Disturbed DEF SyncBegin
<1> QED BY <1>6, <1>7, Disturbed, GoOn DEF SyncBegin

LEMMA StatesFromSync ==
    ASSUME NEW view, NEW r, NEW available
    PROVE  /\ StateFromSync(view, r, available) \in DeliveryStates
           /\ StateFromSync(view, r, available) = "MERGED" => view.state = "MERGED"
           /\ StateFromSync(view, r, available) = "MERGE_READY" =>
                 /\ available /\ view.merge = "CLEAN"
                 /\ view.state \notin {"MERGED", "CLOSED"}
                 /\ r.checks \notin {"failed", "pending", "none"}
                 /\ r.reviews # "changes"
BY DEF StateFromSync, DeliveryStates

LEMMA StatesAfterOutage ==
    ASSUME NEW r \in DeliveryRecord
    PROVE  /\ StateAfterOutage(r) \in DeliveryStates
           /\ StateAfterOutage(r) = "MERGED" => r.state = "MERGED"
           /\ StateAfterOutage(r) # "MERGE_READY"
<1>1. NoView.state = "lost" /\ NoView.merge = "UNKNOWN"
  BY DEF NoView
<1>2. /\ StateFromSync(NoView, r, FALSE) \in DeliveryStates
      /\ StateFromSync(NoView, r, FALSE) # "MERGED"
      /\ StateFromSync(NoView, r, FALSE) # "MERGE_READY"
  BY <1>1, StatesFromSync
<1>3. r.state \in DeliveryStates
  BY DEF DeliveryRecord
<1> QED BY <1>2, <1>3 DEF StateAfterOutage

(* What a sync or a look at the details saves is its copy with a state and *)
(* summaries, and it is merged or ready for good reasons.                  *)
LEMMA SyncedIs ==
    ASSUME DeliveryInv, op.pc \in {"sync", "details"}, NEW o \in SyncOutages,
           NEW s \in Synced(o)
    PROVE  /\ s \in DeliveryRecord /\ s.pull = op.rec.pull /\ s.attempt = op.rec.attempt
           /\ s.branch = op.rec.branch
           /\ s.state = "MERGED" => pulls[s.pull].state = "MERGED"
           /\ s.state = "MERGE_READY" =>
                 /\ o = NoOutage
                 /\ op.view = [state |-> "OPEN", merge |-> "CLEAN"]
                 /\ s.checks = "green" /\ s.reviews = "none"
<1>1. /\ op.rec \in DeliveryRecord /\ op.view \in ViewRecord
      /\ op.rec.state = "MERGED" => pulls[op.rec.pull].state = "MERGED"
      /\ op.view.state = "MERGED" => pulls[op.rec.pull].state = "MERGED"
      /\ op.view.state = "lost" => op.view = NoView
  BY DEF DeliveryInv, OpOK, DeliveryOps, RecordOK
<1>2. PICK r \in SyncRecords(op.rec, o) :
         s = [r EXCEPT !.state =
                IF o.viewed THEN StateFromSync(op.view, r, o.checks /\ o.reviews)
                ELSE StateAfterOutage(op.rec)]
  BY DEF Synced
<1>3. PICK st : st = IF o.viewed THEN StateFromSync(op.view, r, o.checks /\ o.reviews)
                     ELSE StateAfterOutage(op.rec)
  OBVIOUS
<1>4. /\ r \in DeliveryRecord /\ r.pull = op.rec.pull /\ r.attempt = op.rec.attempt
      /\ r.branch = op.rec.branch
  BY <1>1, SummariesAre
<1>5. st \in DeliveryStates
  BY <1>1, <1>3, StatesFromSync, StatesAfterOutage
<1>6. /\ s \in DeliveryRecord /\ s.pull = r.pull /\ s.attempt = r.attempt
      /\ s.branch = r.branch /\ s.state = st /\ s.checks = r.checks
      /\ s.reviews = r.reviews
  BY <1>2, <1>3, <1>4, <1>5 DEF DeliveryRecord
<1>7. st = "MERGED" => op.rec.state = "MERGED" \/ op.view.state = "MERGED"
  BY <1>1, <1>3, StatesFromSync, StatesAfterOutage
<1>8. ASSUME st = "MERGE_READY"
      PROVE  /\ o = NoOutage
             /\ op.view = [state |-> "OPEN", merge |-> "CLEAN"]
             /\ r.checks = "green" /\ r.reviews = "none"
  <2>1. o \in Outages /\ o.viewed \in BOOLEAN
    BY DEF SyncOutages, Outages
  <2>2. o.viewed /\ st = StateFromSync(op.view, r, o.checks /\ o.reviews)
    BY <1>1, <1>3, <1>8, <2>1, StatesAfterOutage
  <2>3. /\ o.checks /\ o.reviews /\ op.view.merge = "CLEAN"
        /\ op.view.state \notin {"MERGED", "CLOSED"}
        /\ r.checks \notin {"failed", "pending", "none"} /\ r.reviews # "changes"
    BY <1>8, <2>2, StatesFromSync
  <2>4. o = NoOutage
    BY <2>1, <2>2, <2>3 DEF Outages, NoOutage
  <2>5. op.view.state = "OPEN"
    BY <1>1, <2>3 DEF ViewRecord, NoView
  <2>6. op.view = [state |-> "OPEN", merge |-> "CLEAN"]
    BY <1>1, <2>3, <2>5 DEF ViewRecord
  <2> QED BY <1>4, <2>3, <2>4, <2>6 DEF DeliveryRecord
<1> QED BY <1>1, <1>4, <1>6, <1>7, <1>8

LEMMA SyncTypes ==
    ASSUME DeliveryInv, SyncEnd \/ DetailsEnd
    PROVE  DeliveryInv'
<1>1. op.pc \in {"sync", "details"} /\ op.pc # "idle"
  BY DEF SyncEnd, DetailsEnd, Step
<1>2. /\ op.id \in DeliveryIds /\ op.rec \in DeliveryRecord /\ RecordOK(pulls, op.rec)
      /\ op.rec.pull # NoId
  BY <1>1 DEF DeliveryInv, OpOK
<1>3. /\ UNCHANGED <<candidates, selection, jobVars, worktrees, github>>
      /\ op' = IdleOp
      /\ disturbances' \in 0..MaxDisturbances
  BY Disturbed DEF SyncEnd, DetailsEnd, Finish, Suffered
<1>4. ASSUME NEW s \in DeliveryRecord, Save(op.id, s), s.pull = op.rec.pull,
             s.state = "MERGED" => pulls[s.pull].state = "MERGED"
      PROVE  DeliveryInv'
  <2>1. RecordOK(pulls, s)
    BY <1>2, <1>4 DEF RecordOK
  <2> QED BY <1>2, <1>3, <1>4, <2>1, IdleIsOK, SaveAndGo
<1>5. CASE DetailsEnd
  <2>1. PICK o \in SyncOutages : \E r \in Synced(o) : Save(op.id, r)
    BY <1>5 DEF DetailsEnd
  <2>2. PICK r \in Synced(o) : Save(op.id, r)
    BY <2>1
  <2> QED BY <1>1, <1>4, <2>2, SyncedIs
<1>6. CASE SyncEnd
  <2>1. PICK o \in SyncOutages :
          \E r \in Synced(o) : Save(op.id, [r EXCEPT !.pullBase =
                                IF o.viewed THEN pulls[r.pull].base ELSE @])
    BY <1>6 DEF SyncEnd
  <2>2. PICK r \in Synced(o) : Save(op.id, [r EXCEPT !.pullBase =
                                IF o.viewed THEN pulls[r.pull].base ELSE @])
    BY <2>1
  <2>3. /\ r \in DeliveryRecord /\ r.pull = op.rec.pull
        /\ r.state = "MERGED" => pulls[r.pull].state = "MERGED"
    BY <1>1, SyncedIs
  <2>4. pulls[r.pull] \in PullRecord
    BY <1>2, <2>3 DEF DeliveryInv, WorldOK, RecordOK, DeliveryRecord
  <2>5. PICK s : s = [r EXCEPT !.pullBase = IF o.viewed THEN pulls[r.pull].base ELSE @]
    OBVIOUS
  <2>6. s \in DeliveryRecord /\ s.pull = r.pull /\ s.state = r.state
    BY <2>3, <2>4, <2>5 DEF DeliveryRecord, PullRecord
  <2> QED BY <1>4, <2>2, <2>3, <2>5, <2>6
<1> QED BY <1>5, <1>6

LEMMA CleanupTypes ==
    ASSUME DeliveryInv, SafeCleanup \/ UnsafeCleanup
    PROVE  DeliveryInv'
<1>1. PICK t \in Known \cup ByJob : CleanupOf(t)
  BY DEF SafeCleanup, UnsafeCleanup
<1>2. t \in Works /\ RecordOK(pulls, t.rec)
  BY TargetsAre
<1>3. worktrees' \in [DeliverableAttempts -> WorktreeRecord]
  BY <1>1, Disturbed DEF CleanupOf, WorktreeRecord
<1>4. StoresOK(records', candidates', selection', pulls')
  BY <1>1, <1>2, SavedOK DEF CleanupOf, Save, DeliveryInv, github, Works
<1> QED BY <1>1, <1>3, <1>4 DEF CleanupOf, DeliveryInv, WorldOK, jobVars, github

(* The world outside. *)
LEMMA WorldTypes ==
    ASSUME DeliveryInv,
           \/ MergePull \/ ClosePull \/ DeleteTaskBranch \/ MoveBase \/ EditWorktree
           \/ RunCompletes \/ RetryReopens \/ DeliveryCrash
    PROVE  DeliveryInv' /\ Stays(pulls, pulls')
<1>k. WorldOK /\ StoresOK(records, candidates, selection, pulls) /\ OpOK(pulls, op)
  BY DEF DeliveryInv
<1>1. CASE MergePull \/ ClosePull
  <2>1. PICK n \in PullNumbers, st \in {"MERGED", "CLOSED"} :
            /\ pulls[n] # NoRecord /\ pulls[n].state = "OPEN"
            /\ pulls' = [pulls EXCEPT ![n].state = st]
    BY <1>1 DEF MergePull, ClosePull
  <2>2. PICK new : new = [pulls[n] EXCEPT !.state = st]
    OBVIOUS
  <2>3. new \in PullRecord /\ new # NoRecord /\ pulls' = [pulls EXCEPT ![n] = new]
    BY <1>k, <2>1, <2>2, NoRecordAssumption DEF WorldOK, PullRecord
  <2>4. /\ pulls' \in [PullNumbers -> PullRecord \cup {NoRecord}]
        /\ Stays(pulls, pulls')
    BY <1>k, <2>1, <2>3 DEF WorldOK, Stays
  <2>5. /\ base' \in 0..MaxBase
        /\ UNCHANGED <<stores, jobVars, worktrees, remote, op, disturbances>>
    BY <1>1, <1>k, DeliveryAssumption DEF MergePull, ClosePull, WorldOK
  <2>6. StoresOK(records', candidates', selection', pulls') /\ OpOK(pulls', op')
    BY <1>k, <2>4, <2>5, StoresStay, OpStays DEF stores
  <2> QED BY <1>k, <2>4, <2>5, <2>6 DEF DeliveryInv, WorldOK, jobVars
<1>2. CASE DeleteTaskBranch
  <2>1. /\ UNCHANGED <<stores, jobVars, worktrees, base, pulls, op, disturbances>>
        /\ \E b \in BranchNames : remote' = [remote EXCEPT ![b] = NoRecord]
    BY <1>2 DEF DeleteTaskBranch
  <2> QED BY <1>k, <2>1, Unpulled DEF DeliveryInv, WorldOK, stores, jobVars
<1>3. CASE MoveBase
  <2>1. /\ UNCHANGED <<stores, jobVars, worktrees, remote, pulls, op, disturbances>>
        /\ base' \in 0..MaxBase
    BY <1>3, <1>k, DeliveryAssumption DEF MoveBase, WorldOK
  <2> QED BY <1>k, <2>1, Unpulled DEF DeliveryInv, WorldOK, stores, jobVars
<1>4. CASE EditWorktree
  <2>1. PICK a \in DeliverableAttempts, f \in Files :
            worktrees' = [worktrees EXCEPT ![a].dirty[f] = 2]
    BY <1>4 DEF EditWorktree
  <2>2. worktrees[a] \in WorktreeRecord
    BY <1>k DEF WorldOK
  <2>3. PICK files : files = [worktrees[a].dirty EXCEPT ![f] = 2]
    OBVIOUS
  <2>4. files \in Manifests
    BY <2>2, <2>3 DEF WorktreeRecord, Manifests
  <2>5. PICK new : new = [worktrees[a] EXCEPT !.dirty = files]
    OBVIOUS
  <2>6. new \in WorktreeRecord /\ worktrees' = [worktrees EXCEPT ![a] = new]
    BY <2>1, <2>2, <2>3, <2>4, <2>5 DEF WorktreeRecord
  <2>7. worktrees' \in [DeliverableAttempts -> WorktreeRecord]
    BY <1>k, <2>6 DEF WorldOK
  <2>8. /\ UNCHANGED <<stores, jobVars, github, op>>
        /\ disturbances' \in 0..MaxDisturbances
    BY <1>4, Disturbed DEF EditWorktree
  <2> QED BY <1>k, <2>7, <2>8, Unpulled DEF DeliveryInv, WorldOK, stores, jobVars, github
<1>5. CASE RunCompletes
  <2>1. PICK a \in DeliverableAttempts,
             committed \in IF HarnessCommits THEN [Files -> 0..1] ELSE {Unchanged},
             dirty \in [Files -> 0..1] :
          /\ completed' = completed \cup {a}
          /\ worktrees' = [worktrees EXCEPT
                ![a] = [exists |-> TRUE, head |-> base,
                        committed |-> committed, dirty |-> dirty]]
    BY <1>5 DEF RunCompletes
  <2>2. committed \in Manifests /\ dirty \in Manifests
    BY DEF Manifests, Unchanged
  <2>3. [exists |-> TRUE, head |-> base, committed |-> committed, dirty |-> dirty]
           \in WorktreeRecord
    BY <1>k, <2>2 DEF WorktreeRecord, WorldOK
  <2>4. worktrees' \in [DeliverableAttempts -> WorktreeRecord]
    BY <1>k, <2>1, <2>3 DEF WorldOK
  <2>5. jobDone' = TRUE /\ UNCHANGED <<stores, github, op, disturbances>>
    BY <1>5 DEF RunCompletes
  <2> QED BY <1>k, <2>1, <2>4, <2>5, Unpulled DEF DeliveryInv, WorldOK, stores, github
<1>6. CASE RetryReopens
  BY <1>6, <1>k, Unpulled DEF RetryReopens, DeliveryInv, WorldOK, stores, github
<1>7. CASE DeliveryCrash
  <2>1. disturbances' \in 0..MaxDisturbances
    BY <1>7, Disturbed DEF DeliveryCrash
  <2> QED BY <1>7, <1>k, <2>1, Unpulled, IdleIsOK
          DEF DeliveryCrash, Finish, DeliveryInv, WorldOK, stores, github, jobVars
<1> QED BY <1>1, <1>2, <1>3, <1>4, <1>5, <1>6, <1>7

(* Orders.  Candidates stay, approved ones stay approved, so that what a   *)
(* publish was ordered to do is not taken back.                            *)
CandidatesStay ==
    \A c \in CandidateIds : candidates[c] # NoRecord =>
        /\ candidates'[c] # NoRecord
        /\ candidates'[c].attempt = candidates[c].attempt
        /\ candidates'[c].delivery = candidates[c].delivery
        /\ candidates'[c].files = candidates[c].files
        /\ candidates'[c].based = candidates[c].based
        /\ candidates'[c].head = candidates[c].head
        /\ candidates[c].approved => candidates'[c].approved

LEMMA CandidatesAreKept ==
    ASSUME DeliveryInv, [DeliveryNext]_deliveryVars
    PROVE  CandidatesStay
<1>k. candidates \in [CandidateIds -> CandidateRecord \cup {NoRecord}]
  BY DEF DeliveryInv, StoresOK
<1>1. CASE BuildCandidate
  <2>1. PICK c \in FreshCandidateIds :
           \E r : candidates' = [candidates EXCEPT ![c] = r]
    BY <1>1 DEF BuildCandidate
  <2>2. c \in CandidateIds /\ candidates[c] = NoRecord
    BY DEF FreshCandidateIds
  <2> QED BY <1>k, <2>1, <2>2 DEF CandidatesStay
<1>2. CASE ApproveCandidate
  <2>1. PICK c \in CandidateIds : /\ candidates[c] # NoRecord
                                  /\ candidates' = [candidates EXCEPT ![c].approved = TRUE]
    BY <1>2 DEF ApproveCandidate
  <2>2. PICK new : new = [candidates[c] EXCEPT !.approved = TRUE]
    OBVIOUS
  <2>3. /\ new # NoRecord /\ new.attempt = candidates[c].attempt
        /\ new.delivery = candidates[c].delivery /\ new.files = candidates[c].files
        /\ new.based = candidates[c].based /\ new.head = candidates[c].head
        /\ new.approved /\ candidates' = [candidates EXCEPT ![c] = new]
    <3>1. new \in CandidateRecord
      BY <1>k, <2>1, <2>2 DEF CandidateRecord
    <3> QED BY <1>k, <2>1, <2>2, <3>1, NoRecordAssumption DEF CandidateRecord
  <2> QED BY <1>k, <2>1, <2>3 DEF CandidatesStay
<1>3. candidates' = candidates => CandidatesStay
  BY DEF CandidatesStay
<1> QED BY <1>1, <1>2, <1>3
        DEF DeliveryNext, deliveryVars, stores, PublishFails, CleanupOf,
            PreflightBegin, Gate, BuildRefused, PreflightPersist, PreflightResult,
            SelectAttempt, PublishBlocked, PublishBegin, PublishBehind, SafeRebase,
            RebaseFails, PublishStart, AdoptPull, UnexpectedBranch, NothingRemote,
            CandidateStale, CandidateFresh, CommitCandidate, PushBranch, PushFails,
            CreatePull, CreateFails, RecordPull, SyncBegin, SyncEnd, DetailsEnd,
            SafeCleanup, UnsafeCleanup, MergePull, ClosePull, DeleteTaskBranch,
            MoveBase, EditWorktree, RunCompletes, RetryReopens, DeliveryCrash

LEMMA OrderStays ==
    ASSUME CandidatesStay, NEW r, Ordered(candidates, r)
    PROVE  Ordered(candidates', r)
BY DEF CandidatesStay, Ordered

LEMMA OrderGoesOn ==
    ASSUME CandidatesStay, OrderInv,
           op'.pc \in {"rebase", "start"} \cup Publishing => Ordered(candidates, op'.rec),
           op'.outer # NoRecord =>
              op'.outer = op.outer \/ Ordered(candidates, op'.outer.rec)
    PROVE  OrderInv'
BY OrderStays DEF OrderInv

(* Only the candidate and the attempt of a copy say what was ordered. *)
LEMMA SameOrder ==
    ASSUME NEW r, NEW s, Ordered(candidates, r),
           s.candidate = r.candidate, s.attempt = r.attempt
    PROVE  Ordered(candidates, s)
BY DEF Ordered

LEMMA OrderStep ==
    ASSUME DeliveryInv, OrderInv, [DeliveryNext]_deliveryVars
    PROVE  OrderInv'
<1>s. CandidatesStay
  BY CandidatesAreKept
<1>k. /\ op.pc # "idle" => op \in DeliveryOps /\ op.rec \in DeliveryRecord
      /\ op.outer # NoRecord => Ordered(candidates, op.outer.rec)
      /\ op.pc \in {"rebase", "start"} \cup Publishing => Ordered(candidates, op.rec)
  BY InFlight DEF OrderInv
<1>1. CASE op' = op
  BY <1>1, <1>s, <1>k, OrderGoesOn
<1>2. CASE op' = IdleOp
  BY <1>2 DEF OrderInv, IdleOp, Publishing
<1>3. CASE PreflightBegin
  <2>1. PICK t : op' = [IdleOp EXCEPT !.pc = "gate", !.id = t.id, !.rec = t.rec]
    BY <1>3 DEF PreflightBegin
  <2>2. op'.pc = "gate" /\ op'.outer = NoRecord
    BY <2>1 DEF IdleOp
  <2> QED BY <2>2 DEF OrderInv, Publishing
<1>4. CASE SyncBegin
  <2>1. PICK t \in Known \cup ByJob, pc \in {"sync", "details"} :
          \/ \E view : op' = [IdleOp EXCEPT !.pc = pc, !.id = t.id, !.rec = t.rec,
                                            !.view = view]
          \/ op' = [IdleOp EXCEPT !.pc = pc, !.id = t.id, !.rec = t.rec]
    BY <1>4 DEF SyncBegin
  <2>2. op'.pc = pc /\ op'.outer = NoRecord
    BY <2>1 DEF IdleOp
  <2> QED BY <2>2 DEF OrderInv, Publishing
<1>5. CASE Gate \/ PreflightPersist \/ BuildCandidate
  <2>1. /\ op.pc # "idle"
        /\ \/ \E ok \in BOOLEAN :
                 op' = [op EXCEPT !.ok = ok, !.pc = IF ok THEN "candidate" ELSE "save"]
           \/ op' = [op EXCEPT !.pc = "save2"]
           \/ \E c : op' = [op EXCEPT !.rec.candidate = c, !.pc = "save"]
    BY <1>5 DEF Gate, PreflightPersist, BuildCandidate, Step
  <2>2. op'.pc \in {"candidate", "save", "save2"} /\ op'.outer = op.outer
    BY <1>k, <2>1 DEF DeliveryOps
  <2> QED BY <1>s, <2>2, OrderGoesOn DEF Publishing
<1>6. CASE PreflightResult
  <2>1. CASE op.outer # NoRecord
             /\ op' = [IdleOp EXCEPT !.pc = "start", !.id = op.outer.id,
                                     !.rec = op.outer.rec]
    <3>1. op'.rec = op.outer.rec /\ op'.outer = NoRecord
      BY <2>1 DEF IdleOp
    <3> QED BY <1>s, <1>k, <2>1, <3>1, OrderGoesOn
  <2> QED BY <1>2, <1>6, <2>1 DEF PreflightResult
<1>7. CASE PublishBegin \/ PublishBehind
  <2>c. PICK c \in CandidateIds, pc \in {"start", "rebase"} :
            Publishable(c) /\ \E t \in PublishTargets(c) :
               op' = [IdleOp EXCEPT !.pc = pc, !.id = t.id, !.rec = t.rec]
    BY <1>7 DEF PublishBegin, PublishBehind
  <2>1. PICK t \in PublishTargets(c) :
            op' = [IdleOp EXCEPT !.pc = pc, !.id = t.id, !.rec = t.rec]
    BY <2>c
  <2>2. op'.rec = t.rec /\ op'.outer = NoRecord
    BY <2>1 DEF IdleOp
  <2>3. Ordered(candidates, t.rec)
    BY <2>c, PublishTargetsAre DEF Ordered, Publishable
  <2> QED BY <1>s, <2>2, <2>3, OrderGoesOn
<1>8. CASE SafeRebase
  <2>1. ASSUME NEW t \in Known \cup ByJob, NEW outer,
               outer = [id |-> op.id, rec |-> op.rec],
               op' = [IdleOp EXCEPT !.pc = "gate", !.id = t.id, !.rec = t.rec,
                                    !.outer = outer]
        PROVE  OrderInv'
    <3>1. op'.pc = "gate" /\ op'.outer = outer /\ outer.rec = op.rec
      BY <2>1 DEF IdleOp
    <3>2. Ordered(candidates, op.rec)
      BY <1>8, <1>k DEF SafeRebase, Step
    <3> QED BY <1>s, <3>1, <3>2, OrderGoesOn DEF Publishing
  <2> QED BY <1>2, <1>8, <2>1 DEF SafeRebase, Finish
<1>9. CASE PublishStart \/ AdoptPull \/ CreatePull
  <2>1. CASE op' = IdleOp
    BY <1>2, <2>1
  <2>2. CASE /\ op.pc \in {"start"} \cup Publishing
             /\ \/ \E b : op' = [op EXCEPT !.pc = "look",
                                    !.rec = [[op.rec EXCEPT !.state = "PUBLISHING"]
                                               EXCEPT !.branch = b]]
                \/ \E n, b : op' = [op EXCEPT !.pc = "record", !.rec.pull = n,
                                              !.rec.pullBase = b]
    <3>1. op \in DeliveryOps /\ op.rec \in DeliveryRecord
      BY <1>k, <2>2 DEF Publishing
    <3>2. /\ op'.rec.candidate = op.rec.candidate /\ op'.rec.attempt = op.rec.attempt
          /\ op'.outer = op.outer
      <4>1. ASSUME NEW b, op' = [op EXCEPT !.pc = "look",
                                   !.rec = [[op.rec EXCEPT !.state = "PUBLISHING"]
                                              EXCEPT !.branch = b]]
            PROVE  <3>2
        <5>1. PICK r : r = [op.rec EXCEPT !.state = "PUBLISHING"]
          OBVIOUS
        <5>2. PICK s : s = [r EXCEPT !.branch = b]
          OBVIOUS
        <5>3. s.candidate = op.rec.candidate /\ s.attempt = op.rec.attempt
          BY <3>1, <5>1, <5>2 DEF DeliveryRecord
        <5>4. op' = [op EXCEPT !.pc = "look", !.rec = s]
          BY <4>1, <5>1, <5>2
        <5> QED BY <3>1, <5>3, <5>4 DEF DeliveryOps
      <4>2. ASSUME NEW n, NEW b,
                   op' = [op EXCEPT !.pc = "record", !.rec.pull = n, !.rec.pullBase = b]
            PROVE  <3>2
        BY <3>1, <4>2 DEF DeliveryOps, DeliveryRecord
      <4> QED BY <2>2, <4>1, <4>2
    <3> QED BY <1>s, <1>k, <2>2, <3>2, SameOrder, OrderGoesOn
  <2> QED BY <1>9, <2>1, <2>2
          DEF PublishStart, AdoptPull, CreatePull, Step, Finish, Publishing
<1>10. CASE \/ NothingRemote \/ CandidateFresh \/ CommitCandidate
            \/ PushBranch /\ op' # IdleOp
  <2>1. /\ op.pc \in Publishing
        /\ \/ \E pc \in Publishing : op' = [op EXCEPT !.pc = pc]
           \/ \E commit : op' = [op EXCEPT !.pc = "push", !.commit = commit]
    BY <1>10 DEF NothingRemote, CandidateFresh, CommitCandidate, PushBranch, Step,
                 Finish, Publishing
  <2>2. op'.rec = op.rec /\ op'.outer = op.outer
    <3>1. op \in DeliveryOps
      BY <1>k, <2>1 DEF Publishing
    <3> QED BY <2>1, <3>1 DEF DeliveryOps
  <2> QED BY <1>s, <1>k, <2>1, <2>2, OrderGoesOn
<1> QED BY <1>1, <1>2, <1>3, <1>4, <1>5, <1>6, <1>7, <1>8, <1>9, <1>10
        DEF DeliveryNext, deliveryVars, Finish, PublishFails, CleanupOf, BuildRefused,
            SelectAttempt, ApproveCandidate, PublishBlocked, RebaseFails,
            UnexpectedBranch, CandidateStale, PushFails, CreateFails, RecordPull,
            SyncEnd, DetailsEnd, SafeCleanup, UnsafeCleanup, MergePull, ClosePull,
            DeleteTaskBranch, MoveBase, EditWorktree, RunCompletes, RetryReopens,
            DeliveryCrash

(* Everything that is proved below rests on these two together. *)
KnownInv == DeliveryInv /\ OrderInv

LEMMA KnownInitially ==
    ASSUME DeliveryInit
    PROVE  KnownInv
BY DeliveryInitially DEF DeliveryInit, KnownInv, OrderInv, IdleOp, Publishing

LEMMA KnownStep ==
    ASSUME KnownInv, [DeliveryNext]_deliveryVars
    PROVE  KnownInv'
<1>1. DeliveryInv /\ OrderInv
  BY DEF KnownInv
<1>2. OrderInv'
  BY <1>1, OrderStep
<1>3. CASE UNCHANGED deliveryVars
  BY <1>1, <1>3 DEF deliveryVars, DeliveryInv, WorldOK, KnownInv, OrderInv
<1>4. CASE DeliveryNext
  <2>1. DeliveryInv'
    BY <1>1, <1>4, PreflightTypes, ApprovalTypes, OrderTypes, PublishTypes,
       CreatePullTypes, RecordPullTypes, SyncBeginTypes, SyncTypes, CleanupTypes,
       WorldTypes DEF DeliveryNext
  <2> QED BY <1>2, <2>1 DEF KnownInv
<1> QED BY <1>3, <1>4

-----------------------------------------------------------------------------
(* The shapes, and merged deliveries.                                      *)

LEMMA KnownTypes ==
    ASSUME KnownInv
    PROVE  DeliveryTypeOK /\ MergedIsTrue
<1>1. StoresOK(records, candidates, selection, pulls) /\ OpOK(pulls, op) /\ WorldOK
  BY DEF KnownInv, DeliveryInv
<1>2. DeliveryTypeOK
  BY <1>1 DEF DeliveryTypeOK, StoresOK, OpOK, DeliveryOps, WorldOK
<1>3. MergedIsTrue
  BY <1>1 DEF MergedIsTrue, StoresOK, RecordOK
<1> QED BY <1>2, <1>3

(* Every record, candidate, branch and pull request keeps its shape, and   *)
(* an operation in flight works on a record, for any number of attempts,   *)
(* files, requests, faults and crashes.                                    *)
THEOREM DeliveryTypesHold == DeliverySpec => []DeliveryTypeOK
<1>1. DeliveryInit => KnownInv
  BY KnownInitially
<1>2. KnownInv /\ [DeliveryNext]_deliveryVars => KnownInv'
  BY KnownStep
<1>3. KnownInv => DeliveryTypeOK
  BY KnownTypes
<1> QED BY <1>1, <1>2, <1>3, PTL DEF DeliverySpec

(* A delivery is MERGED only when its pull request is: every copy of a     *)
(* record that is still to be saved is right about it too.                 *)
THEOREM MergedIsAlwaysTrue == DeliverySpec => []MergedIsTrue
<1>1. DeliveryInit => KnownInv
  BY KnownInitially
<1>2. KnownInv /\ [DeliveryNext]_deliveryVars => KnownInv'
  BY KnownStep
<1>3. KnownInv => MergedIsTrue
  BY KnownTypes
<1> QED BY <1>1, <1>2, <1>3, PTL DEF DeliverySpec

-----------------------------------------------------------------------------
(* Ready deliveries.  A copy that a preflight saves back is ready only if  *)
(* its record still is, so nothing but a synchronization makes one ready.  *)

Preflighting == {"gate", "candidate", "save"}

SavedAsFound ==
    op.pc \in Preflighting /\ op.rec.state = "MERGE_READY" => Ready(op.id)

LEMMA FoundReady ==
    ASSUME KnownInv, NEW t \in Known \cup ByJob \cup ByAttempt,
           t.rec.state = "MERGE_READY"
    PROVE  Ready(t.id)
<1>1. \/ records[t.id] # NoRecord /\ t.rec = records[t.id]
      \/ t.rec = NewDelivery(t.rec.attempt)
  BY TargetsAre DEF KnownInv
<1>2. \A a : NewDelivery(a).state # "MERGE_READY"
  BY DEF NewDelivery
<1>3. t.rec # NewDelivery(t.rec.attempt)
  BY <1>2
<1> QED BY <1>1, <1>3 DEF Ready

LEMMA SavedAsFoundStep ==
    ASSUME KnownInv, SavedAsFound, [DeliveryNext]_deliveryVars
    PROVE  SavedAsFound'
<1>k. op.pc # "idle" => op \in DeliveryOps /\ op.rec \in DeliveryRecord
  BY InFlight DEF KnownInv
<1>1. CASE op' = op /\ (records' = records \/ op.pc = "idle")
  BY <1>1 DEF SavedAsFound, Ready, Preflighting
<1>2. CASE op'.pc \notin Preflighting
  BY <1>2 DEF SavedAsFound
<1>3. CASE op' = IdleOp
  BY <1>2, <1>3 DEF IdleOp, Preflighting
<1>4. CASE PreflightBegin \/ SafeRebase
  <2>1. CASE op' # IdleOp
    <3>1. PICK t \in Known \cup ByJob \cup ByAttempt :
             \/ op' = [IdleOp EXCEPT !.pc = "gate", !.id = t.id, !.rec = t.rec]
             \/ \E outer : op' = [IdleOp EXCEPT !.pc = "gate", !.id = t.id,
                                               !.rec = t.rec, !.outer = outer]
      BY <1>4, <2>1 DEF PreflightBegin, SafeRebase, Finish
    <3>2. op'.id = t.id /\ op'.rec = t.rec
      BY <3>1 DEF IdleOp
    <3>3. records' = records
      BY <1>4 DEF PreflightBegin, SafeRebase, stores
    <3> QED BY <3>2, <3>3, FoundReady DEF SavedAsFound, Ready
  <2> QED BY <1>3, <2>1
<1>5. CASE Gate \/ BuildCandidate
  <2>1. /\ op.pc \in Preflighting /\ records' = records
        /\ \/ \E ok \in BOOLEAN :
                 op' = [op EXCEPT !.ok = ok, !.pc = IF ok THEN "candidate" ELSE "save"]
           \/ \E c : op' = [op EXCEPT !.rec.candidate = c, !.pc = "save"]
    BY <1>5 DEF Gate, BuildCandidate, Step, Preflighting, stores
  <2>2. op \in DeliveryOps /\ op.rec \in DeliveryRecord
    BY <1>k, <2>1 DEF Preflighting
  <2>3. op'.id = op.id /\ op'.rec.state = op.rec.state
    <3>1. ASSUME NEW c, op' = [op EXCEPT !.rec.candidate = c, !.pc = "save"]
          PROVE  <2>3
      BY <2>2, <3>1 DEF DeliveryOps, DeliveryRecord
    <3>2. ASSUME NEW pc, NEW ok, op' = [op EXCEPT !.ok = ok, !.pc = pc]
          PROVE  <2>3
      BY <2>2, <3>2 DEF DeliveryOps
    <3> QED BY <2>1, <3>1, <3>2
  <2> QED BY <2>1, <2>3 DEF SavedAsFound, Ready
<1>6. CASE PreflightResult
  <2>1. CASE op' = [IdleOp EXCEPT !.pc = "start", !.id = op.outer.id,
                                  !.rec = op.outer.rec]
    <3>1. op'.pc = "start"
      BY <2>1 DEF IdleOp
    <3> QED BY <1>2, <3>1 DEF Preflighting
  <2> QED BY <1>3, <1>6, <2>1 DEF PreflightResult
<1>7. CASE PublishBegin \/ PublishBehind \/ SyncBegin
  <2>1. op'.pc \in {"start", "rebase", "sync", "details"}
    BY <1>7 DEF PublishBegin, PublishBehind, SyncBegin, IdleOp
  <2> QED BY <1>2, <2>1 DEF Preflighting
<1>8. CASE \/ PreflightPersist \/ PublishStart \/ AdoptPull \/ NothingRemote
           \/ CandidateFresh \/ CommitCandidate \/ PushBranch \/ CreatePull
  <2>1. op.pc # "idle"
    BY <1>8 DEF PreflightPersist, PublishStart, AdoptPull, NothingRemote, CandidateFresh,
                CommitCandidate, PushBranch, CreatePull, Step
  <2>2. op \in DeliveryOps
    BY <1>k, <2>1
  <2>3. op' = IdleOp \/ op'.pc \in {"save2", "look", "record", "check", "commit",
                                     "push", "create"}
    BY <1>8, <2>2 DEF PreflightPersist, PublishStart, AdoptPull, NothingRemote,
         CandidateFresh, CommitCandidate, PushBranch, CreatePull, Finish, DeliveryOps
  <2> QED BY <1>2, <1>3, <2>3 DEF Preflighting
<1> QED BY <1>1, <1>3, <1>4, <1>5, <1>6, <1>7, <1>8
        DEF DeliveryNext, deliveryVars, stores, Finish, Step, PublishFails, CleanupOf,
            BuildRefused, SelectAttempt, ApproveCandidate, PublishBlocked, RebaseFails,
            UnexpectedBranch, CandidateStale, PushFails, CreateFails, RecordPull,
            SyncEnd, DetailsEnd, SafeCleanup, UnsafeCleanup, MergePull, ClosePull,
            DeleteTaskBranch, MoveBase, EditWorktree, RunCompletes, RetryReopens,
            DeliveryCrash

(* Whatever a step saves that is no synchronization, it does not make a    *)
(* delivery ready.                                                         *)
LEMMA OnlySyncsMakeReady ==
    ASSUME KnownInv, SavedAsFound, [DeliveryNext]_deliveryVars,
           ~(SyncEnd \/ DetailsEnd), NEW d \in DeliveryIds, Ready(d)'
    PROVE  Ready(d)
<1>k. /\ records \in [DeliveryIds -> DeliveryRecord \cup {NoRecord}]
      /\ op.pc # "idle" => /\ op.id \in DeliveryIds /\ op.rec \in DeliveryRecord
                           /\ op.outer # NoRecord => op.outer \in Works
  BY InFlight DEF KnownInv, DeliveryInv, StoresOK
<1>1. CASE records' = records
  BY <1>1 DEF Ready
<1>s. ASSUME NEW e \in DeliveryIds, NEW r, Save(e, r),
             r.state = "MERGE_READY" => Ready(e)
      PROVE  Ready(d)
  BY <1>k, <1>s DEF Save, Ready
<1>r. ASSUME NEW r \in DeliveryRecord, NEW st, NEW s, s = [r EXCEPT !.state = st]
      PROVE  s.state = st
  BY <1>r DEF DeliveryRecord
<1>2. CASE PreflightPersist
  <2>1. op.pc = "save" /\ Save(op.id, op.rec)
    BY <1>2 DEF PreflightPersist, Step
  <2> QED BY <1>k, <1>s, <2>1 DEF SavedAsFound, Preflighting
<1>3. CASE PreflightResult \/ PublishStart \/ UnexpectedBranch \/ CandidateStale
  <2>1. /\ op.pc # "idle"
        /\ \E st \in {"READY_TO_PUBLISH", "NOT_READY", "PUBLISHING", "DELIVERY_FAILED"} :
              Save(op.id, [op.rec EXCEPT !.state = st])
    BY <1>3 DEF PreflightResult, PublishStart, UnexpectedBranch, CandidateStale,
                PublishFails, Step
  <2>2. PICK st \in {"READY_TO_PUBLISH", "NOT_READY", "PUBLISHING", "DELIVERY_FAILED"} :
              Save(op.id, [op.rec EXCEPT !.state = st])
    BY <2>1
  <2> QED BY <1>k, <1>s, <1>r, <2>1, <2>2
<1>4. CASE PublishBlocked
  <2>1. PICK c \in CandidateIds : Publishable(c) /\
           \E t \in PublishTargets(c) :
              Save(t.id, [t.rec EXCEPT !.state = "DELIVERY_FAILED", !.branch = NoRecord])
    BY <1>4 DEF PublishBlocked
  <2>2. PICK t \in PublishTargets(c) :
              Save(t.id, [t.rec EXCEPT !.state = "DELIVERY_FAILED", !.branch = NoRecord])
    BY <2>1
  <2>3. t \in Works
    BY <2>1, PublishTargetsAre DEF KnownInv
  <2>4. PICK r : r = [t.rec EXCEPT !.state = "DELIVERY_FAILED", !.branch = NoRecord]
    OBVIOUS
  <2>5. r.state = "DELIVERY_FAILED"
    BY <2>3, <2>4 DEF Works, DeliveryRecord
  <2> QED BY <1>s, <2>2, <2>3, <2>4, <2>5 DEF Works
<1>5. CASE RecordPull
  <2>1. /\ op.pc = "record"
        /\ \E o \in Outages : \E r \in SyncRecords(op.rec, o) :
              Save(op.id, [r EXCEPT !.state = IF o.viewed /\ ~o.checks
                                              THEN "CI_PENDING" ELSE "PR_OPEN"])
    BY <1>5 DEF RecordPull, Step
  <2>2. PICK o \in Outages, st \in {"CI_PENDING", "PR_OPEN"} :
           \E r \in SyncRecords(op.rec, o) : Save(op.id, [r EXCEPT !.state = st])
    BY <2>1
  <2>3. PICK r \in SyncRecords(op.rec, o) : Save(op.id, [r EXCEPT !.state = st])
    BY <2>2
  <2>4. r \in DeliveryRecord
    BY <1>k, <2>1, SummariesAre
  <2> QED BY <1>k, <1>s, <1>r, <2>1, <2>3, <2>4
<1>6. CASE SafeCleanup \/ UnsafeCleanup
  <2>1. PICK t \in Known \cup ByJob : CleanupOf(t)
    BY <1>6 DEF SafeCleanup, UnsafeCleanup
  <2>2. t \in Works
    BY TargetsAre DEF KnownInv
  <2> QED BY <1>s, <2>1, <2>2, FoundReady DEF CleanupOf, Works
<1> QED BY <1>1, <1>2, <1>3, <1>4, <1>5, <1>6
        DEF DeliveryNext, deliveryVars, stores, PreflightBegin, Gate, BuildCandidate,
            BuildRefused, SelectAttempt, ApproveCandidate, PublishBegin, PublishBehind,
            SafeRebase, RebaseFails, AdoptPull, NothingRemote, CandidateFresh,
            CommitCandidate, PushBranch, PushFails, CreatePull, CreateFails, SyncBegin,
            MergePull, ClosePull, DeleteTaskBranch, MoveBase, EditWorktree,
            RunCompletes, RetryReopens, DeliveryCrash

LEMMA SyncsAreFresh ==
    ASSUME KnownInv, SyncEnd \/ DetailsEnd, NEW d \in DeliveryIds, Ready(d)',
           op.id = d
    PROVE  /\ disturbances' = disturbances
           /\ op.view = [state |-> "OPEN", merge |-> "CLEAN"]
           /\ records'[d].checks = "green"
           /\ records'[d].reviews = "none"
<1>k. /\ records \in [DeliveryIds -> DeliveryRecord \cup {NoRecord}]
      /\ op.pc \in {"sync", "details"}
  BY DEF KnownInv, DeliveryInv, StoresOK, SyncEnd, DetailsEnd, Step
<1>1. PICK o \in SyncOutages :
         /\ o.viewed => Suffered(o)
         /\ \E r \in Synced(o) :
              \/ Save(op.id, r)
              \/ \E b : Save(op.id, [r EXCEPT !.pullBase = b])
  BY DEF SyncEnd, DetailsEnd
<1>2. PICK r \in Synced(o) : \/ Save(op.id, r)
                             \/ \E b : Save(op.id, [r EXCEPT !.pullBase = b])
  BY <1>1
<1>3. /\ r \in DeliveryRecord
      /\ r.state = "MERGE_READY" =>
            /\ o = NoOutage
            /\ op.view = [state |-> "OPEN", merge |-> "CLEAN"]
            /\ r.checks = "green" /\ r.reviews = "none"
  BY <1>k, SyncedIs DEF KnownInv
<1>4. /\ records'[d].state = r.state /\ records'[d].checks = r.checks
      /\ records'[d].reviews = r.reviews
  <2>1. CASE Save(op.id, r)
    BY <1>k, <2>1 DEF Save
  <2>2. ASSUME NEW b, Save(op.id, [r EXCEPT !.pullBase = b])
        PROVE  <1>4
    <3>1. PICK s : s = [r EXCEPT !.pullBase = b]
      OBVIOUS
    <3>2. s.state = r.state /\ s.checks = r.checks /\ s.reviews = r.reviews
      BY <1>3, <3>1 DEF DeliveryRecord
    <3> QED BY <1>k, <2>2, <3>1, <3>2 DEF Save
  <2> QED BY <1>2, <2>1, <2>2
<1>5. o = NoOutage
  BY <1>3, <1>4 DEF Ready
<1>6. disturbances' = disturbances
  BY <1>1, <1>5 DEF NoOutage, Suffered, NoFault
<1> QED BY <1>3, <1>4, <1>6 DEF Ready

(* MERGE_READY is never guessed, for any verdicts, faults and crashes: only *)
(* a synchronization makes or leaves a delivery ready, and then all its    *)
(* answers are of GitHub.                                                  *)
THEOREM MergeReadyIsAlwaysFresh == DeliverySpec => MergeReadyIsFresh
<1>1. DeliveryInit => KnownInv /\ SavedAsFound
  <2>1. DeliveryInit => op.pc = "idle"
    BY DEF DeliveryInit, IdleOp
  <2> QED BY <2>1, KnownInitially DEF SavedAsFound, Preflighting
<1>2. KnownInv /\ SavedAsFound /\ [DeliveryNext]_deliveryVars
        => (KnownInv /\ SavedAsFound)'
  BY KnownStep, SavedAsFoundStep
<1>3. KnownInv /\ SavedAsFound /\ [DeliveryNext]_deliveryVars =>
        [\A d \in DeliveryIds :
          (Ready(d)' /\ ~(Ready(d) /\ ~Synchronizes(d))) =>
             /\ Synchronizes(d)
             /\ disturbances' = disturbances
             /\ op.view = [state |-> "OPEN", merge |-> "CLEAN"]
             /\ records'[d].checks = "green"
             /\ records'[d].reviews = "none"]_deliveryVars
  <2> SUFFICES ASSUME KnownInv, SavedAsFound, [DeliveryNext]_deliveryVars,
                      NEW d \in DeliveryIds, Ready(d)',
                      ~(Ready(d) /\ ~Synchronizes(d))
               PROVE  /\ Synchronizes(d)
                      /\ disturbances' = disturbances
                      /\ op.view = [state |-> "OPEN", merge |-> "CLEAN"]
                      /\ records'[d].checks = "green"
                      /\ records'[d].reviews = "none"
    OBVIOUS
  <2>1. SyncEnd \/ DetailsEnd
    BY OnlySyncsMakeReady DEF Synchronizes
  <2>2. CASE op.id = d
    BY <2>1, <2>2, SyncsAreFresh DEF Synchronizes
  <2>3. CASE op.id # d
    <3>1. \E r : Save(op.id, r)
      BY <2>1 DEF SyncEnd, DetailsEnd
    <3>2. records'[d] = records[d]
      BY <2>3, <3>1 DEF Save, KnownInv, DeliveryInv, StoresOK
    <3> QED BY <2>3, <3>2 DEF Ready, Synchronizes
  <2> QED BY <2>2, <2>3
<1> QED BY <1>1, <1>2, <1>3, PTL DEF DeliverySpec, MergeReadyIsFresh

-----------------------------------------------------------------------------
(* Which step takes an operation where.                                    *)

LEMMA Arrives ==
    ASSUME KnownInv, [DeliveryNext]_deliveryVars
    PROVE  \/ op'.pc = "idle"
           \/ /\ op' = op /\ UNCHANGED <<records, candidates>>
              /\ worktrees' = worktrees \/ RunCompletes \/ (EditWorktree /\ LateEdits)
           \/ (PreflightBegin \/ SafeRebase) /\ op'.pc = "gate"
           \/ Gate /\ op'.pc \in {"candidate", "save"}
           \/ BuildCandidate /\ op'.pc = "save"
           \/ PreflightPersist /\ op'.pc = "save2"
           \/ (PreflightResult \/ PublishBegin) /\ op'.pc = "start"
           \/ PublishBehind /\ op'.pc = "rebase"
           \/ PublishStart /\ op'.pc = "look"
           \/ NothingRemote /\ op'.pc = "check"
           \/ CandidateFresh /\ op'.pc = "commit"
           \/ CommitCandidate /\ op'.pc = "push"
           \/ PushBranch /\ op'.pc = "create"
           \/ (AdoptPull \/ CreatePull) /\ op'.pc = "record"
           \/ SyncBegin /\ op'.pc \in {"sync", "details"}
<1>k. op.pc # "idle" => op \in DeliveryOps
  BY InFlight DEF KnownInv
<1>i. op' = IdleOp => op'.pc = "idle"
  BY DEF IdleOp
<1>1. CASE PreflightBegin \/ PublishBegin \/ PublishBehind \/ SyncBegin
  BY <1>1 DEF PreflightBegin, PublishBegin, PublishBehind, SyncBegin, IdleOp
<1>2. CASE SafeRebase
  <2>1. op' = IdleOp \/ op'.pc = "gate"
    BY <1>2 DEF SafeRebase, Finish, IdleOp
  <2> QED BY <1>2, <1>i, <2>1
<1>3. CASE PreflightResult
  <2>1. op' = IdleOp \/ op'.pc = "start"
    BY <1>3 DEF PreflightResult, IdleOp
  <2> QED BY <1>3, <1>i, <2>1
<1>4. CASE Gate \/ BuildCandidate \/ PreflightPersist
  <2>1. op \in DeliveryOps
    BY <1>4, <1>k DEF Gate, BuildCandidate, PreflightPersist, Step
  <2>2. Gate => op'.pc \in {"candidate", "save"}
    BY <2>1 DEF Gate, DeliveryOps
  <2>3. BuildCandidate => op'.pc = "save"
    BY <2>1 DEF BuildCandidate, DeliveryOps
  <2>4. PreflightPersist => op'.pc = "save2"
    BY <2>1 DEF PreflightPersist, DeliveryOps
  <2> QED BY <1>4, <2>2, <2>3, <2>4
<1>5. CASE PublishStart \/ NothingRemote \/ CandidateFresh \/ CommitCandidate
  <2>1. op \in DeliveryOps
    BY <1>5, <1>k DEF PublishStart, NothingRemote, CandidateFresh, CommitCandidate, Step
  <2>2. PublishStart => op'.pc = "look"
    BY <2>1 DEF PublishStart, DeliveryOps
  <2>3. NothingRemote => op'.pc = "check"
    BY <2>1 DEF NothingRemote, DeliveryOps
  <2>4. CandidateFresh => op'.pc = "commit"
    BY <2>1 DEF CandidateFresh, DeliveryOps
  <2>5. CommitCandidate => op'.pc = "push"
    BY <2>1 DEF CommitCandidate, DeliveryOps
  <2> QED BY <1>5, <2>2, <2>3, <2>4, <2>5
<1>6. CASE PushBranch \/ AdoptPull \/ CreatePull
  <2>1. op \in DeliveryOps
    BY <1>6, <1>k DEF PushBranch, AdoptPull, CreatePull, Step
  <2>2. PushBranch => op' = IdleOp \/ op'.pc = "create"
    BY <2>1 DEF PushBranch, Finish, DeliveryOps
  <2>3. AdoptPull => op'.pc = "record"
    BY <2>1 DEF AdoptPull, DeliveryOps
  <2>4. CreatePull => op' = IdleOp \/ op'.pc = "record"
    BY <2>1 DEF CreatePull, Finish, DeliveryOps
  <2> QED BY <1>6, <1>i, <2>2, <2>3, <2>4
<1>7. CASE \/ SelectAttempt \/ ApproveCandidate \/ PublishBlocked
           \/ SafeCleanup \/ UnsafeCleanup
  BY <1>7 DEF SelectAttempt, ApproveCandidate, PublishBlocked, SafeCleanup,
              UnsafeCleanup, CleanupOf, Step
<1>8. CASE \/ BuildRefused \/ RebaseFails \/ UnexpectedBranch \/ CandidateStale
           \/ PushFails \/ CreateFails \/ RecordPull \/ SyncEnd \/ DetailsEnd
           \/ DeliveryCrash
  BY <1>8, <1>i DEF BuildRefused, RebaseFails, UnexpectedBranch, CandidateStale,
              PushFails, CreateFails, RecordPull, SyncEnd, DetailsEnd,
              DeliveryCrash, PublishFails, Finish
<1>9. CASE EditWorktree
  BY <1>9 DEF EditWorktree, Step, stores
<1>10. CASE \/ MergePull \/ ClosePull \/ DeleteTaskBranch \/ MoveBase
            \/ RunCompletes \/ RetryReopens \/ UNCHANGED deliveryVars
  <2>1. op' = op /\ UNCHANGED <<records, candidates>>
    BY <1>10 DEF MergePull, ClosePull, DeleteTaskBranch, MoveBase, RunCompletes,
                 RetryReopens, deliveryVars, stores
  <2>2. worktrees' = worktrees \/ RunCompletes
    BY <1>10 DEF MergePull, ClosePull, DeleteTaskBranch, MoveBase, RetryReopens,
                 deliveryVars
  <2> QED BY <2>1, <2>2
<1> QED BY <1>1, <1>2, <1>3, <1>4, <1>5, <1>6, <1>7, <1>8, <1>9, <1>10
        DEF DeliveryNext

-----------------------------------------------------------------------------
(* Publication.  What is pushed is the manifest of the approved candidate: *)
(* the check before the commit compared the worktree with it, no request   *)
(* and no run changes the worktree of a completed attempt in between, and  *)
(* a run leaves no commits that the manifest does not list.                *)

Approved(cands) ==
    {[attempt |-> cands[c].attempt, tree |-> cands[c].files] :
        c \in {x \in CandidateIds : cands[x] # NoRecord /\ cands[x].approved}}

CandidatesCompleted ==
    /\ \A c \in CandidateIds :
          candidates[c] # NoRecord => candidates[c].attempt \in completed
    /\ op.pc = "candidate" => op.rec.attempt \in completed

NothingCommitted ==
    \A a \in DeliverableAttempts : worktrees[a].committed = Unchanged

PublishInv ==
    /\ CandidatesCompleted
    /\ NothingCommitted
    /\ op.pc = "commit" => ~CheckStale(op.rec.candidate)
    /\ op.pc = "push" => op.commit \in Approved(candidates)

LEMMA CompletedStay ==
    ASSUME [DeliveryNext]_deliveryVars
    PROVE  completed \subseteq completed'
BY DEF DeliveryNext, deliveryVars, stores, jobVars, PublishFails, CleanupOf,
       PreflightBegin, Gate, BuildCandidate, BuildRefused, PreflightPersist,
       PreflightResult, SelectAttempt, ApproveCandidate, PublishBlocked, PublishBegin,
       PublishBehind, SafeRebase, RebaseFails, PublishStart, AdoptPull,
       UnexpectedBranch, NothingRemote, CandidateStale, CandidateFresh,
       CommitCandidate, PushBranch, PushFails, CreatePull, CreateFails, RecordPull,
       SyncBegin, SyncEnd, DetailsEnd, SafeCleanup, UnsafeCleanup, MergePull,
       ClosePull, DeleteTaskBranch, MoveBase, EditWorktree, RunCompletes,
       RetryReopens, DeliveryCrash

(* A candidate is built for the delivery and the attempt of the preflight, *)
(* and not approved.                                                       *)
LEMMA Built ==
    ASSUME KnownInv, [DeliveryNext]_deliveryVars,
           NEW c \in CandidateIds, candidates[c] = NoRecord, candidates'[c] # NoRecord
    PROVE  /\ BuildCandidate
           /\ candidates'[c].attempt = op.rec.attempt
           /\ candidates'[c].delivery = op.id
           /\ ~candidates'[c].approved
<1>k. candidates \in [CandidateIds -> CandidateRecord \cup {NoRecord}]
  BY DEF KnownInv, DeliveryInv, StoresOK
<1>1. CASE BuildCandidate
  <2>1. PICK e \in FreshCandidateIds :
           candidates' = [candidates EXCEPT
                 ![e] = [attempt |-> op.rec.attempt, delivery |-> op.id,
                         files |-> Inventory(op.rec.attempt, op.rec.bound),
                         head |-> worktrees[op.rec.attempt].head,
                         based |-> op.rec.bound, approved |-> FALSE]]
    BY <1>1 DEF BuildCandidate
  <2>2. e = c
    BY <1>k, <2>1
  <2> QED BY <1>1, <1>k, <2>1, <2>2
<1>2. CASE ApproveCandidate
  <2>1. PICK e \in CandidateIds : /\ candidates[e] # NoRecord
                                  /\ candidates' = [candidates EXCEPT ![e].approved = TRUE]
    BY <1>2 DEF ApproveCandidate
  <2>2. candidates'[c] = candidates[c]
    BY <1>k, <2>1
  <2> QED BY <2>2
<1> QED BY <1>1, <1>2
        DEF DeliveryNext, deliveryVars, stores, PublishFails, CleanupOf,
            PreflightBegin, Gate, BuildRefused, PreflightPersist, PreflightResult,
            SelectAttempt, PublishBlocked, PublishBegin, PublishBehind, SafeRebase,
            RebaseFails, PublishStart, AdoptPull, UnexpectedBranch, NothingRemote,
            CandidateStale, CandidateFresh, CommitCandidate, PushBranch, PushFails,
            CreatePull, CreateFails, RecordPull, SyncBegin, SyncEnd, DetailsEnd,
            SafeCleanup, UnsafeCleanup, MergePull, ClosePull, DeleteTaskBranch,
            MoveBase, EditWorktree, RunCompletes, RetryReopens, DeliveryCrash

LEMMA CandidatesCompletedStep ==
    ASSUME KnownInv, CandidatesCompleted, [DeliveryNext]_deliveryVars
    PROVE  CandidatesCompleted'
<1>c. completed \subseteq completed'
  BY CompletedStay
<1>1. ASSUME NEW c \in CandidateIds, candidates'[c] # NoRecord
      PROVE  candidates'[c].attempt \in completed'
  <2>1. CASE candidates[c] # NoRecord
    BY <1>c, <2>1, CandidatesAreKept DEF KnownInv, CandidatesCompleted, CandidatesStay
  <2>2. CASE candidates[c] = NoRecord
    <3>1. BuildCandidate /\ candidates'[c].attempt = op.rec.attempt
      BY <1>1, <2>2, Built
    <3>2. op.pc = "candidate"
      BY <3>1 DEF BuildCandidate, Step
    <3> QED BY <1>c, <3>1, <3>2 DEF CandidatesCompleted
  <2> QED BY <2>1, <2>2
<1>2. ASSUME op'.pc = "candidate"
      PROVE  op'.rec.attempt \in completed'
  <2>1. op' = op \/ Gate
    BY <1>2, Arrives
  <2>2. CASE op' = op
    BY <1>2, <1>c, <2>2 DEF CandidatesCompleted
  <2>3. CASE Gate
    <3>1. PICK ok \in BOOLEAN :
            /\ ok => GateClean(op.id, op.rec)
            /\ op' = [op EXCEPT !.ok = ok, !.pc = IF ok THEN "candidate" ELSE "save"]
      BY <2>3 DEF Gate
    <3>2. op \in DeliveryOps
      BY <2>3, InFlight DEF Gate, Step, KnownInv
    <3>3. ok /\ op'.rec = op.rec
      BY <1>2, <3>1, <3>2 DEF DeliveryOps
    <3> QED BY <1>c, <3>1, <3>3 DEF GateClean
  <2> QED BY <2>1, <2>2, <2>3
<1> QED BY <1>1, <1>2 DEF CandidatesCompleted

LEMMA NothingCommittedStep ==
    ASSUME HarnessCommits = FALSE, KnownInv, NothingCommitted,
           [DeliveryNext]_deliveryVars
    PROVE  NothingCommitted'
<1>k. worktrees \in [DeliverableAttempts -> WorktreeRecord]
  BY DEF KnownInv, DeliveryInv, WorldOK
<1>1. CASE worktrees' = worktrees
  BY <1>1 DEF NothingCommitted
<1>s. ASSUME NEW a \in DeliverableAttempts, NEW w, w.committed = Unchanged,
             worktrees' = [worktrees EXCEPT ![a] = w]
      PROVE  NothingCommitted'
  BY <1>k, <1>s DEF NothingCommitted
<1>2. CASE SafeRebase
  <2>1. PICK a : a = op.rec.attempt
    OBVIOUS
  <2>2. a \in DeliverableAttempts
    BY <1>2, <2>1, InFlight DEF SafeRebase, Step, KnownInv, DeliveryRecord
  <2>3. PICK w : w = [worktrees[a] EXCEPT !.head = base]
    OBVIOUS
  <2>4. w.committed = worktrees[a].committed /\ worktrees' = [worktrees EXCEPT ![a] = w]
    BY <1>2, <1>k, <2>1, <2>2, <2>3 DEF SafeRebase, WorktreeRecord
  <2> QED BY <1>s, <2>2, <2>4 DEF NothingCommitted
<1>3. CASE SafeCleanup \/ UnsafeCleanup
  <2>1. PICK t \in Known \cup ByJob : CleanupOf(t)
    BY <1>3 DEF SafeCleanup, UnsafeCleanup
  <2>2. PICK a : a = t.rec.attempt
    OBVIOUS
  <2>3. a \in DeliverableAttempts
    BY <2>2, TargetsAre DEF KnownInv, Works, DeliveryRecord
  <2>4. PICK w : w = [worktrees[a] EXCEPT !.exists = FALSE]
    OBVIOUS
  <2>5. /\ w.committed = worktrees[a].committed
        /\ worktrees' = worktrees \/ worktrees' = [worktrees EXCEPT ![a] = w]
    BY <2>1, <1>k, <2>2, <2>3, <2>4 DEF CleanupOf, WorktreeRecord
  <2> QED BY <1>1, <1>s, <2>3, <2>5 DEF NothingCommitted
<1>4. CASE EditWorktree
  <2>1. PICK a \in DeliverableAttempts, f \in Files :
            worktrees' = [worktrees EXCEPT ![a].dirty[f] = 2]
    BY <1>4 DEF EditWorktree
  <2>2. PICK files : files = [worktrees[a].dirty EXCEPT ![f] = 2]
    OBVIOUS
  <2>3. PICK w : w = [worktrees[a] EXCEPT !.dirty = files]
    OBVIOUS
  <2>4. w.committed = worktrees[a].committed /\ worktrees' = [worktrees EXCEPT ![a] = w]
    BY <1>k, <2>1, <2>2, <2>3 DEF WorktreeRecord
  <2> QED BY <1>s, <2>4 DEF NothingCommitted
<1>5. CASE RunCompletes
  <2>1. PICK a \in DeliverableAttempts, dirty \in [Files -> 0..1] :
          worktrees' = [worktrees EXCEPT
                ![a] = [exists |-> TRUE, head |-> base,
                        committed |-> Unchanged, dirty |-> dirty]]
    BY <1>5 DEF RunCompletes
  <2> QED BY <1>s, <2>1
<1> QED BY <1>1, <1>2, <1>3, <1>4, <1>5
        DEF DeliveryNext, deliveryVars, PublishFails,
            PreflightBegin, Gate, BuildCandidate, BuildRefused, PreflightPersist,
            PreflightResult, SelectAttempt, ApproveCandidate, PublishBlocked,
            PublishBegin, PublishBehind, RebaseFails, PublishStart, AdoptPull,
            UnexpectedBranch, NothingRemote, CandidateStale, CandidateFresh,
            CommitCandidate, PushBranch, PushFails, CreatePull, CreateFails,
            RecordPull, SyncBegin, SyncEnd, DetailsEnd, MergePull, ClosePull,
            DeleteTaskBranch, MoveBase, RetryReopens, DeliveryCrash

LEMMA SameCheck ==
    ASSUME ~CheckStale(op.rec.candidate), candidates' = candidates,
           op'.rec.candidate = op.rec.candidate,
           LET a == candidates[op.rec.candidate].attempt IN worktrees'[a] = worktrees[a]
    PROVE  ~CheckStale(op.rec.candidate)'
<1>1. PICK a : a = candidates[op.rec.candidate].attempt
  OBVIOUS
<1>2. Content(a)' = Content(a)
  BY <1>1 DEF Content
<1>3. /\ candidates'[op'.rec.candidate].attempt = a
      /\ candidates'[op'.rec.candidate] = candidates[op.rec.candidate]
      /\ worktrees'[a] = worktrees[a]
  BY <1>1
<1>4. /\ worktrees[a].exists
      /\ worktrees[a].head = candidates[op.rec.candidate].head
      /\ \A f \in Files : candidates[op.rec.candidate].files[f] # 0
            => Content(a)[f] = candidates[op.rec.candidate].files[f]
  BY <1>1 DEF CheckStale
<1>5. /\ worktrees'[a].exists
      /\ worktrees'[a].head = candidates'[op'.rec.candidate].head
      /\ \A f \in Files : candidates'[op'.rec.candidate].files[f] # 0
            => (Content(a)')[f] = candidates'[op'.rec.candidate].files[f]
  BY <1>2, <1>3, <1>4
<1> QED BY <1>3, <1>5 DEF CheckStale

(* The worktree of a candidate that is being committed is left alone. *)
LEMMA CheckedStep ==
    ASSUME LateEdits = FALSE, KnownInv, OrderInv, PublishInv,
           [DeliveryNext]_deliveryVars, op'.pc = "commit"
    PROVE  ~CheckStale(op.rec.candidate)'
<1>k. /\ worktrees \in [DeliverableAttempts -> WorktreeRecord]
      /\ candidates \in [CandidateIds -> CandidateRecord \cup {NoRecord}]
  BY DEF KnownInv, DeliveryInv, WorldOK, StoresOK
<1>1. /\ op.pc \in {"check", "commit"}
      /\ op'.rec = op.rec /\ candidates' = candidates
      /\ ~CheckStale(op.rec.candidate)
      /\ worktrees' = worktrees \/ RunCompletes
  <2>1. CASE op' = op /\ UNCHANGED <<records, candidates>>
             /\ (worktrees' = worktrees \/ RunCompletes \/ (EditWorktree /\ LateEdits))
    BY <2>1 DEF PublishInv
  <2>2. CASE CandidateFresh
    <3>1. op \in DeliveryOps
      BY <2>2, InFlight DEF CandidateFresh, Step, KnownInv
    <3> QED BY <2>2, <3>1 DEF CandidateFresh, Step, stores, DeliveryOps
  <2> QED BY <2>1, <2>2, Arrives
<1>2. PICK c : c = op.rec.candidate
  OBVIOUS
<1>3. /\ c \in CandidateIds /\ candidates[c] # NoRecord
      /\ candidates[c].attempt \in completed
      /\ candidates[c].attempt \in DeliverableAttempts
  <2>1. Ordered(candidates, op.rec)
    BY <1>1 DEF OrderInv, Publishing
  <2> QED BY <1>k, <1>2, <2>1 DEF Ordered, PublishInv, CandidatesCompleted, CandidateRecord
<1>4. worktrees'[candidates[c].attempt] = worktrees[candidates[c].attempt]
  <2>1. CASE RunCompletes
    <3>1. PICK a \in DeliverableAttempts \ completed :
             \E w : worktrees' = [worktrees EXCEPT ![a] = w]
      BY <2>1 DEF RunCompletes
    <3> QED BY <1>k, <1>3, <3>1
  <2> QED BY <1>1, <2>1
<1>5. op'.rec.candidate = c
  BY <1>1, <1>2
<1> QED BY <1>1, <1>2, <1>4, <1>5, SameCheck

(* A fresh candidate is committed as it was approved. *)
LEMMA CommitsTheManifest ==
    ASSUME KnownInv, PublishInv, NEW c \in CandidateIds, candidates[c] # NoRecord,
           ~CheckStale(c)
    PROVE  CommitTree(c) = candidates[c].files
<1>1. PICK a : a = candidates[c].attempt
  OBVIOUS
<1>2. PICK files : files = candidates[c].files
  OBVIOUS
<1>3. a \in DeliverableAttempts /\ files \in Manifests
  BY <1>1, <1>2 DEF KnownInv, DeliveryInv, StoresOK, CandidateRecord
<1>4. \A f \in Files : files[f] # 0 => Content(a)[f] = files[f]
  BY <1>1, <1>2 DEF CheckStale
<1>5. PICK parent : parent = IF candidates[c].based THEN Unchanged
                             ELSE worktrees[a].committed
  OBVIOUS
<1>6. parent = Unchanged
  BY <1>3, <1>5 DEF PublishInv, NothingCommitted
<1>7. CommitTree(c) = [f \in Files |-> IF files[f] # 0 THEN Content(a)[f] ELSE parent[f]]
  BY <1>1, <1>2, <1>5 DEF CommitTree
<1>8. \A f \in Files :
         (IF files[f] # 0 THEN Content(a)[f] ELSE parent[f]) = files[f]
  BY <1>3, <1>4, <1>6 DEF Unchanged
<1>9. files = [f \in Files |-> files[f]]
  BY <1>3 DEF Manifests
<1> QED BY <1>2, <1>7, <1>8, <1>9

LEMMA ApprovalsStay ==
    ASSUME KnownInv, [DeliveryNext]_deliveryVars
    PROVE  Approved(candidates) \subseteq Approved(candidates')
<1>1. CandidatesStay
  BY CandidatesAreKept DEF KnownInv
<1> QED BY <1>1 DEF CandidatesStay, Approved

LEMMA PushedStep ==
    ASSUME KnownInv, PublishInv, [DeliveryNext]_deliveryVars, op'.pc = "push"
    PROVE  op'.commit \in Approved(candidates')
<1>1. CASE op' = op
  BY <1>1, ApprovalsStay DEF PublishInv
<1>2. CASE CommitCandidate
  <2>1. op.pc = "commit"
        /\ op' = [op EXCEPT !.pc = "push",
                            !.commit = [attempt |-> op.rec.attempt,
                                        tree |-> CommitTree(op.rec.candidate)]]
    BY <1>2 DEF CommitCandidate, Step
  <2>2. op \in DeliveryOps
    BY <2>1, InFlight DEF KnownInv
  <2>3. op'.commit = [attempt |-> op.rec.attempt,
                      tree |-> CommitTree(op.rec.candidate)]
    BY <2>1, <2>2 DEF DeliveryOps
  <2>4. PICK c : c = op.rec.candidate
    OBVIOUS
  <2>5. /\ c \in CandidateIds /\ candidates[c] # NoRecord /\ candidates[c].approved
        /\ op.rec.attempt = candidates[c].attempt /\ ~CheckStale(c)
    BY <2>1, <2>4 DEF KnownInv, OrderInv, Ordered, Publishing, PublishInv
  <2>6. CommitTree(c) = candidates[c].files
    BY <2>5, CommitsTheManifest
  <2>7. op'.commit \in Approved(candidates)
    BY <2>3, <2>4, <2>5, <2>6 DEF Approved
  <2> QED BY <2>7, ApprovalsStay
<1> QED BY <1>1, <1>2, Arrives

LEMMA PublishStep ==
    ASSUME HarnessCommits = FALSE, LateEdits = FALSE, KnownInv, PublishInv,
           [DeliveryNext]_deliveryVars
    PROVE  PublishInv'
<1>1. CandidatesCompleted' /\ NothingCommitted'
  BY CandidatesCompletedStep, NothingCommittedStep DEF PublishInv
<1>2. op'.pc = "commit" => ~CheckStale(op.rec.candidate)'
  BY CheckedStep DEF KnownInv
<1>3. op'.pc = "push" => op'.commit \in Approved(candidates')
  BY PushedStep
<1> QED BY <1>1, <1>2, <1>3 DEF PublishInv

-----------------------------------------------------------------------------
(* The refinement.                                                         *)

Shown == [n \in PullNumbers |->
            IF pulls[n] = NoRecord THEN NoRecord
            ELSE [branch |-> pulls[n].branch,
                  content |-> pulls[n].commit,
                  open |-> pulls[n].state = "OPEN"]]

Mapped == <<Approved(candidates), remote, Shown>>

LEMMA MappingIs ==
           /\ PublicationOfDeliveries!publicationVars = Mapped
           /\ PublicationOfDeliveries!publicationVars' = Mapped'
BY DEF PublicationOfDeliveries!publicationVars, Mapped, Approved, Shown, Publishable

LEMMA ApprovingApproves ==
    ASSUME KnownInv, ApproveCandidate
    PROVE  \E c \in Commits : PublicationOfDeliveries!Approve(c)
<1>k. candidates \in [CandidateIds -> CandidateRecord \cup {NoRecord}]
  BY DEF KnownInv, DeliveryInv, StoresOK
<1>1. PICK c \in CandidateIds : /\ candidates[c] # NoRecord
                                /\ candidates' = [candidates EXCEPT ![c].approved = TRUE]
  BY DEF ApproveCandidate
<1>2. PICK new : new = [candidates[c] EXCEPT !.approved = TRUE]
  OBVIOUS
<1>3. /\ new # NoRecord /\ new.attempt = candidates[c].attempt
      /\ new.files = candidates[c].files /\ new.approved
      /\ candidates' = [candidates EXCEPT ![c] = new]
  <2>1. new \in CandidateRecord
    BY <1>k, <1>1, <1>2 DEF CandidateRecord
  <2> QED BY <1>k, <1>1, <1>2, <2>1, NoRecordAssumption DEF CandidateRecord
<1>4. PICK m : m = [attempt |-> candidates[c].attempt, tree |-> candidates[c].files]
  OBVIOUS
<1>5. m \in Commits
  BY <1>k, <1>1, <1>4 DEF CandidateRecord, Commits
<1>6. Approved(candidates') = Approved(candidates) \cup {m}
  <2>1. m \in Approved(candidates')
    BY <1>k, <1>3, <1>4 DEF Approved
  <2>2. \A x \in CandidateIds \ {c} : candidates'[x] = candidates[x]
    BY <1>k, <1>3
  <2>3. \A x \in CandidateIds :
           /\ candidates'[x] # NoRecord <=> candidates[x] # NoRecord
           /\ candidates'[x].attempt = candidates[x].attempt
           /\ candidates'[x].files = candidates[x].files
           /\ x # c => (candidates'[x].approved <=> candidates[x].approved)
    BY <1>k, <1>1, <1>3, <2>2
  <2>4. Approved(candidates') \subseteq Approved(candidates) \cup {m}
    <3> SUFFICES ASSUME NEW x \in CandidateIds, candidates'[x] # NoRecord,
                        candidates'[x].approved
                 PROVE  [attempt |-> candidates'[x].attempt, tree |-> candidates'[x].files]
                           \in Approved(candidates) \cup {m}
      BY DEF Approved
    <3>1. CASE x = c
      BY <1>4, <2>3, <3>1
    <3>2. CASE x # c
      BY <2>3, <3>2 DEF Approved
    <3> QED BY <3>1, <3>2
  <2>5. Approved(candidates) \subseteq Approved(candidates')
    <3> SUFFICES ASSUME NEW x \in CandidateIds, candidates[x] # NoRecord,
                        candidates[x].approved
                 PROVE  [attempt |-> candidates[x].attempt, tree |-> candidates[x].files]
                           \in Approved(candidates')
      BY DEF Approved
    <3>1. candidates'[x].approved
      BY <1>k, <1>3, <2>3
    <3> QED BY <2>3, <3>1 DEF Approved
  <2> QED BY <2>1, <2>4, <2>5
<1>7. remote' = remote /\ pulls' = pulls
  BY DEF ApproveCandidate, github
<1>8. PublicationOfDeliveries!Approve(m)
  BY <1>6, <1>7 DEF PublicationOfDeliveries!Approve, Approved, Publishable
<1> QED BY <1>5, <1>8

LEMMA BuildingApprovesNothing ==
    ASSUME KnownInv, BuildCandidate
    PROVE  UNCHANGED Mapped
<1>k. candidates \in [CandidateIds -> CandidateRecord \cup {NoRecord}]
  BY DEF KnownInv, DeliveryInv, StoresOK
<1>1. PICK c \in FreshCandidateIds :
         candidates' = [candidates EXCEPT
               ![c] = [attempt |-> op.rec.attempt, delivery |-> op.id,
                       files |-> Inventory(op.rec.attempt, op.rec.bound),
                       head |-> worktrees[op.rec.attempt].head,
                       based |-> op.rec.bound, approved |-> FALSE]]
  BY DEF BuildCandidate
<1>2. c \in CandidateIds /\ candidates[c] = NoRecord
  BY DEF FreshCandidateIds
<1>3. ~candidates'[c].approved
  BY <1>k, <1>1, <1>2
<1>4. \A x \in CandidateIds \ {c} : candidates'[x] = candidates[x]
  BY <1>k, <1>1, <1>2
<1>5. Approved(candidates') = Approved(candidates)
  BY <1>2, <1>3, <1>4 DEF Approved
<1>6. remote' = remote /\ pulls' = pulls
  BY DEF BuildCandidate, github
<1> QED BY <1>5, <1>6 DEF Mapped, Shown

LEMMA PushingPushes ==
    ASSUME KnownInv, PublishInv, PushBranch
    PROVE  \E b \in BranchNames, c \in Commits : PublicationOfDeliveries!Push(b, c)
<1>1. op.pc = "push"
  BY DEF PushBranch, Step
<1>2. /\ op.rec.branch \in BranchNames /\ op.commit \in Commits
      /\ op.commit \in Approved(candidates)
  BY <1>1 DEF KnownInv, DeliveryInv, OpOK, Publishing, PublishInv
<1>3. /\ remote[op.rec.branch] = NoRecord
      /\ remote' = [remote EXCEPT ![op.rec.branch] = op.commit]
      /\ candidates' = candidates /\ pulls' = pulls
  BY DEF PushBranch, stores
<1>4. PublicationOfDeliveries!Push(op.rec.branch, op.commit)
  BY <1>2, <1>3 DEF PublicationOfDeliveries!Push, Approved, Publishable
<1> QED BY <1>2, <1>4

LEMMA DeletingDeletes ==
    ASSUME DeleteTaskBranch
    PROVE  \E b \in BranchNames : PublicationOfDeliveries!DeleteBranch(b)
<1>1. PICK b \in BranchNames : remote' = [remote EXCEPT ![b] = NoRecord]
  BY DEF DeleteTaskBranch
<1>2. candidates' = candidates /\ pulls' = pulls
  BY DEF DeleteTaskBranch, stores
<1> QED BY <1>1, <1>2 DEF PublicationOfDeliveries!DeleteBranch, Publishable

LEMMA ShownOne ==
    ASSUME KnownInv, NEW n \in PullNumbers, NEW p \in PullRecord,
           pulls' = [pulls EXCEPT ![n] = p]
    PROVE  Shown' = [Shown EXCEPT ![n] = [branch |-> p.branch, content |-> p.commit,
                                          open |-> p.state = "OPEN"]]
<1>1. /\ pulls \in [PullNumbers -> PullRecord \cup {NoRecord}]
      /\ p # NoRecord
  BY NoRecordAssumption DEF KnownInv, DeliveryInv, WorldOK
<1>2. /\ pulls'[n] = p
      /\ \A m \in PullNumbers \ {n} : pulls'[m] = pulls[m]
  BY <1>1
<1>3. PICK s : s = [branch |-> p.branch, content |-> p.commit, open |-> p.state = "OPEN"]
  OBVIOUS
<1>4. Shown' = [m \in PullNumbers |-> IF m = n THEN s ELSE Shown[m]]
  BY <1>1, <1>2, <1>3 DEF Shown
<1> QED BY <1>3, <1>4 DEF Shown

LEMMA CreatingOpens ==
    ASSUME KnownInv, CreatePull
    PROVE  \E n \in PullNumbers, b \in BranchNames :
              PublicationOfDeliveries!OpenPull(n, b)
<1>k. /\ pulls \in [PullNumbers -> PullRecord \cup {NoRecord}]
      /\ remote \in [BranchNames -> Commits \cup {NoRecord}]
      /\ base \in 0..MaxBase
  BY DEF KnownInv, DeliveryInv, WorldOK
<1>1. PICK b : b = op.rec.branch
  OBVIOUS
<1>2. b \in BranchNames
  BY <1>1 DEF CreatePull, Step, KnownInv, DeliveryInv, OpOK, Publishing
<1>3. PICK n \in NextPull :
         pulls' = [pulls EXCEPT
            ![n] = [branch |-> b, commit |-> remote[b], state |-> "OPEN", base |-> base]]
  BY <1>1 DEF CreatePull
<1>4. /\ n \in PullNumbers /\ pulls[n] = NoRecord
      /\ remote[b] # NoRecord /\ OpenPulls(b) = {}
      /\ candidates' = candidates /\ remote' = remote
  BY <1>1 DEF CreatePull, NextPull, stores
<1>5. PICK p : p = [branch |-> b, commit |-> remote[b], state |-> "OPEN", base |-> base]
  OBVIOUS
<1>6. p \in PullRecord
  BY <1>k, <1>2, <1>4, <1>5 DEF PullRecord
<1>7. Shown' = [Shown EXCEPT ![n] = [branch |-> p.branch, content |-> p.commit,
                                     open |-> p.state = "OPEN"]]
  BY <1>3, <1>4, <1>5, <1>6, ShownOne
<1>8. [branch |-> p.branch, content |-> p.commit, open |-> p.state = "OPEN"]
         = [branch |-> b, content |-> remote[b], open |-> TRUE]
  BY <1>5
<1>9. Shown[n] = NoRecord
  BY <1>4 DEF Shown
<1>10. \A m \in PullNumbers : Shown[m] # NoRecord => ~(Shown[m].open /\ Shown[m].branch = b)
  BY <1>4 DEF Shown, OpenPulls
<1>11. Shown' = [Shown EXCEPT ![n] = [branch |-> b, content |-> remote[b],
                                       open |-> TRUE]]
  BY <1>7, <1>8
<1>12. PublicationOfDeliveries!OpenPull(n, b)
  <2>1. Shown[n] = NoRecord /\ remote[b] # NoRecord
    BY <1>4, <1>9
  <2>2. Approved(candidates)' = Approved(candidates) /\ remote' = remote
    BY <1>4
  <2> QED BY <1>10, <1>11, <2>1, <2>2
          DEF PublicationOfDeliveries!OpenPull, Shown, Publishable, Approved
<1> QED BY <1>2, <1>4, <1>12

LEMMA NoLongerOpen ==
    ASSUME NEW b, NEW c, NEW before, before = TRUE, NEW after, after = FALSE
    PROVE  [[branch |-> b, content |-> c, open |-> before] EXCEPT !.open = after]
              = [branch |-> b, content |-> c, open |-> after]
OBVIOUS

LEMMA EndingEnds ==
    ASSUME KnownInv, MergePull \/ ClosePull
    PROVE  \E n \in PullNumbers : PublicationOfDeliveries!EndPull(n)
<1>k. pulls \in [PullNumbers -> PullRecord \cup {NoRecord}]
  BY DEF KnownInv, DeliveryInv, WorldOK
<1>1. PICK n \in PullNumbers, st \in {"MERGED", "CLOSED"} :
          /\ pulls[n] # NoRecord /\ pulls[n].state = "OPEN"
          /\ pulls' = [pulls EXCEPT ![n].state = st]
  BY DEF MergePull, ClosePull
<1>2. PICK p : p = [pulls[n] EXCEPT !.state = st]
  OBVIOUS
<1>3. /\ p \in PullRecord /\ p.branch = pulls[n].branch /\ p.commit = pulls[n].commit
      /\ p.state # "OPEN" /\ pulls' = [pulls EXCEPT ![n] = p]
  BY <1>k, <1>1, <1>2 DEF PullRecord
<1>4. Shown' = [Shown EXCEPT ![n] = [branch |-> p.branch, content |-> p.commit,
                                     open |-> p.state = "OPEN"]]
  BY <1>3, ShownOne
<1>5. PICK s : s = Shown[n]
  OBVIOUS
<1>6. /\ s # NoRecord
      /\ s = [branch |-> pulls[n].branch, content |-> pulls[n].commit, open |-> TRUE]
  <2>1. s = [branch |-> pulls[n].branch, content |-> pulls[n].commit, open |-> TRUE]
    BY <1>1, <1>5 DEF Shown
  <2>2. s \in [branch : BranchNames, content : Commits, open : BOOLEAN]
    BY <1>k, <1>1, <2>1 DEF PullRecord
  <2> QED BY <2>1, <2>2, NoRecordAssumption
<1>7. [s EXCEPT !.open = FALSE]
         = [branch |-> p.branch, content |-> p.commit, open |-> p.state = "OPEN"]
  <2>1. [s EXCEPT !.open = FALSE]
           = [branch |-> pulls[n].branch, content |-> pulls[n].commit, open |-> FALSE]
    BY <1>6, NoLongerOpen
  <2>2. (p.state = "OPEN") = FALSE
    BY <1>3
  <2> QED BY <1>3, <2>1, <2>2
<1>8. candidates' = candidates /\ remote' = remote
  BY DEF MergePull, ClosePull, stores
<1>9. Shown' = [Shown EXCEPT ![n] = [Shown[n] EXCEPT !.open = FALSE]]
  BY <1>4, <1>5, <1>7
<1>10. PublicationOfDeliveries!EndPull(n)
  BY <1>5, <1>6, <1>8, <1>9 DEF PublicationOfDeliveries!EndPull, Shown, Publishable
<1> QED BY <1>10

LEMMA PublicationStep ==
    ASSUME KnownInv, PublishInv, [DeliveryNext]_deliveryVars
    PROVE  PublicationOfDeliveries!PublicationNext \/ UNCHANGED Mapped
<1>1. CASE ApproveCandidate
  BY <1>1, ApprovingApproves DEF PublicationOfDeliveries!PublicationNext
<1>2. CASE BuildCandidate
  BY <1>2, BuildingApprovesNothing
<1>3. CASE PushBranch
  BY <1>3, PushingPushes DEF PublicationOfDeliveries!PublicationNext
<1>4. CASE DeleteTaskBranch
  BY <1>4, DeletingDeletes DEF PublicationOfDeliveries!PublicationNext
<1>5. CASE CreatePull
  BY <1>5, CreatingOpens DEF PublicationOfDeliveries!PublicationNext
<1>6. CASE MergePull \/ ClosePull
  BY <1>6, EndingEnds DEF PublicationOfDeliveries!PublicationNext
<1>7. CASE /\ candidates' = candidates
           /\ remote' = remote /\ pulls' = pulls
  BY <1>7 DEF Mapped, Approved, Shown
<1> QED BY <1>1, <1>2, <1>3, <1>4, <1>5, <1>6, <1>7
        DEF DeliveryNext, deliveryVars, stores, github, PublishFails, CleanupOf,
            PreflightBegin, Gate, BuildRefused, PreflightPersist, PreflightResult,
            SelectAttempt, PublishBlocked, PublishBegin, PublishBehind, SafeRebase,
            RebaseFails, PublishStart, AdoptPull, UnexpectedBranch, NothingRemote,
            CandidateStale, CandidateFresh, CommitCandidate, PushFails, CreateFails,
            RecordPull, SyncBegin, SyncEnd, DetailsEnd, SafeCleanup, UnsafeCleanup,
            MoveBase, EditWorktree, RunCompletes, RetryReopens, DeliveryCrash

LEMMA PublishInitially ==
    ASSUME DeliveryInit
    PROVE  KnownInv /\ PublishInv
<1>1. op.pc = "idle"
  BY DEF DeliveryInit, IdleOp
<1>2. NothingCommitted
  BY DEF DeliveryInit, NothingCommitted
<1>3. CandidatesCompleted
  BY <1>1 DEF DeliveryInit, CandidatesCompleted
<1> QED BY <1>1, <1>2, <1>3, KnownInitially DEF PublishInv

(* The delivery domain keeps the promise of Publication: whatever fails or *)
(* dies between two calls, only approved manifests reach GitHub, a branch  *)
(* is written once, and a pull request is opened where none is open.  It   *)
(* is promised where runs commit nothing and no worktree is edited during  *)
(* a request: what a manifest does not list is taken from the worktree.    *)
THEOREM DeliveriesImplementPublication ==
    ASSUME HarnessCommits = FALSE, LateEdits = FALSE
    PROVE  DeliverySpec => PublishesOnlyApproved
<1>1. DeliveryInit => KnownInv /\ PublishInv
  BY PublishInitially
<1>2. KnownInv /\ PublishInv /\ [DeliveryNext]_deliveryVars => (KnownInv /\ PublishInv)'
  BY KnownStep, PublishStep
<1>3. DeliveryInit => PublicationOfDeliveries!PublicationInit
  <2> SUFFICES ASSUME DeliveryInit
               PROVE  PublicationOfDeliveries!PublicationInit
    OBVIOUS
  <2>1. Approved(candidates) = {}
    BY DEF DeliveryInit, Approved
  <2>2. Shown = [n \in PullNumbers |-> NoRecord]
    BY DEF DeliveryInit, Shown
  <2>3. remote = [b \in BranchNames |-> NoRecord]
    BY DEF DeliveryInit
  <2> QED BY <2>1, <2>2, <2>3
          DEF PublicationOfDeliveries!PublicationInit, Approved, Shown, Publishable
<1>4. KnownInv /\ PublishInv /\ [DeliveryNext]_deliveryVars
        => [PublicationOfDeliveries!PublicationNext]_(PublicationOfDeliveries!publicationVars)
  BY PublicationStep, MappingIs
<1> QED BY <1>1, <1>2, <1>3, <1>4, PTL
        DEF DeliverySpec, PublishesOnlyApproved, PublicationOfDeliveries!PublicationSpec

(* What a reader of GitHub sees of it: the promise that PromiseProofs      *)
(* derives from Publication, along the mapping.                            *)
ShownApproved ==
    /\ \A b \in BranchNames :
          remote[b] = NoRecord \/ remote[b] \in Approved(candidates)
    /\ \A n \in PullNumbers :
          Shown[n] = NoRecord \/ Shown[n].content \in Approved(candidates)

ShownOnce ==
    \A m, n \in PullNumbers :
        (/\ Shown[m] # NoRecord /\ Shown[n] # NoRecord
         /\ Shown[m].open /\ Shown[n].open
         /\ Shown[m].branch = Shown[n].branch) => m = n

LEMMA PromiseIs ==
    /\ PublicationOfDeliveries!OnlyApprovedContent <=> ShownApproved
    /\ PublicationOfDeliveries!OneOpenPull <=> ShownOnce
BY DEF PublicationOfDeliveries!OnlyApprovedContent, PublicationOfDeliveries!OneOpenPull,
       ShownApproved, ShownOnce, Approved, Shown, Publishable

LEMMA ShownTyped ==
    ASSUME KnownInv
    PROVE  \A n \in PullNumbers : Shown[n] # NoRecord =>
              Shown[n] \in [branch : BranchNames, content : Commits, open : BOOLEAN]
<1>1. pulls \in [PullNumbers -> PullRecord \cup {NoRecord}]
  BY DEF KnownInv, DeliveryInv, WorldOK
<1> QED BY <1>1 DEF Shown, PullRecord

LEMMA ShownStep ==
    ASSUME KnownInv, ShownApproved, ShownOnce, PublicationOfDeliveries!PublicationNext
    PROVE  ShownApproved' /\ ShownOnce'
<1> DEFINE A == Approved(candidates)
           ShownRecord == [branch : BranchNames, content : Commits, open : BOOLEAN]
<1>t. DOMAIN Shown = PullNumbers /\ DOMAIN Shown' = PullNumbers
  BY DEF Shown
<1>r. \A n \in PullNumbers : Shown[n] = NoRecord \/ Shown[n] \in ShownRecord
  BY ShownTyped
<1>w. DOMAIN remote = BranchNames
  BY DEF KnownInv, DeliveryInv, WorldOK
<1>n. NoRecord \notin ShownRecord
  BY NoRecordAssumption
<1>1. CASE \E c \in Commits : PublicationOfDeliveries!Approve(c)
  <2>1. A \subseteq A' /\ remote' = remote /\ Shown' = Shown
    BY <1>1 DEF PublicationOfDeliveries!Approve, Approved, Shown, Publishable
  <2> QED BY <2>1 DEF ShownApproved, ShownOnce
<1>2. CASE \E b \in BranchNames, c \in Commits : PublicationOfDeliveries!Push(b, c)
  <2>1. PICK b \in BranchNames, c \in A : /\ remote' = [remote EXCEPT ![b] = c]
                                          /\ A' = A /\ Shown' = Shown
    BY <1>2 DEF PublicationOfDeliveries!Push, Approved, Shown, Publishable
  <2> QED BY <1>w, <2>1 DEF ShownApproved, ShownOnce
<1>3. CASE \E b \in BranchNames : PublicationOfDeliveries!DeleteBranch(b)
  <2>1. PICK b \in BranchNames : /\ remote' = [remote EXCEPT ![b] = NoRecord]
                                 /\ A' = A /\ Shown' = Shown
    BY <1>3 DEF PublicationOfDeliveries!DeleteBranch, Approved, Shown, Publishable
  <2> QED BY <1>w, <2>1 DEF ShownApproved, ShownOnce
<1>4. CASE \E n \in PullNumbers, b \in BranchNames :
              PublicationOfDeliveries!OpenPull(n, b)
  <2>1. PICK n \in PullNumbers, b \in BranchNames :
            /\ remote[b] # NoRecord /\ A' = A /\ remote' = remote
            /\ \A m \in PullNumbers :
                  Shown[m] # NoRecord => ~(Shown[m].open /\ Shown[m].branch = b)
            /\ Shown' = [Shown EXCEPT ![n] = [branch |-> b, content |-> remote[b],
                                              open |-> TRUE]]
    BY <1>4 DEF PublicationOfDeliveries!OpenPull, Approved, Shown, Publishable
  <2>2. PICK new : new = [branch |-> b, content |-> remote[b], open |-> TRUE]
    OBVIOUS
  <2>3. new.branch = b /\ new.content \in A /\ Shown' = [Shown EXCEPT ![n] = new]
    BY <2>1, <2>2 DEF ShownApproved
  <2>4. ShownApproved'
    BY <1>t, <2>1, <2>3 DEF ShownApproved
  <2>5. ShownOnce'
    BY <1>t, <2>1, <2>3 DEF ShownOnce
  <2> QED BY <2>4, <2>5
<1>5. CASE \E n \in PullNumbers : PublicationOfDeliveries!EndPull(n)
  <2>1. PICK n \in PullNumbers :
            /\ Shown[n] # NoRecord /\ A' = A /\ remote' = remote
            /\ Shown' = [Shown EXCEPT ![n] = [Shown[n] EXCEPT !.open = FALSE]]
    BY <1>5 DEF PublicationOfDeliveries!EndPull, Approved, Shown, Publishable
  <2>2. PICK old : old = Shown[n]
    OBVIOUS
  <2>3. PICK new : new = [old EXCEPT !.open = FALSE]
    OBVIOUS
  <2>4. new.content = old.content /\ new.open = FALSE
    BY <1>r, <2>1, <2>2, <2>3
  <2>5. Shown' = [Shown EXCEPT ![n] = new]
    BY <2>1, <2>2, <2>3
  <2>6. ShownApproved'
    BY <1>t, <2>1, <2>2, <2>4, <2>5 DEF ShownApproved
  <2>7. ShownOnce'
    BY <1>t, <2>1, <2>4, <2>5 DEF ShownOnce
  <2> QED BY <2>6, <2>7
<1> QED BY <1>1, <1>2, <1>3, <1>4, <1>5 DEF PublicationOfDeliveries!PublicationNext

(* GitHub never shows a branch or a pull request that carries anything a   *)
(* human has not approved, and never two open pull requests of one branch, *)
(* also when calls fail, the daemon dies or the base branch moves.         *)
THEOREM OnlyApprovedIsShown ==
    ASSUME HarnessCommits = FALSE, LateEdits = FALSE
    PROVE  DeliverySpec => [](/\ PublicationOfDeliveries!OnlyApprovedContent
                              /\ PublicationOfDeliveries!OneOpenPull)
<1> DEFINE I == KnownInv /\ PublishInv /\ ShownApproved /\ ShownOnce
<1>1. DeliveryInit => I
  <2>1. DeliveryInit => ShownApproved /\ ShownOnce
    BY DEF DeliveryInit, ShownApproved, ShownOnce, Shown
  <2> QED BY <2>1, PublishInitially
<1>2. I /\ [DeliveryNext]_deliveryVars => I'
  <2> SUFFICES ASSUME I, [DeliveryNext]_deliveryVars
               PROVE  I'
    OBVIOUS
  <2>1. KnownInv' /\ PublishInv'
    BY KnownStep, PublishStep
  <2>2. CASE PublicationOfDeliveries!PublicationNext
    BY <2>1, <2>2, ShownStep
  <2>3. CASE UNCHANGED Mapped
    BY <2>1, <2>3 DEF Mapped, ShownApproved, ShownOnce
  <2> QED BY <2>2, <2>3, PublicationStep
<1>3. I => /\ PublicationOfDeliveries!OnlyApprovedContent
           /\ PublicationOfDeliveries!OneOpenPull
  BY PromiseIs
<1> QED BY <1>1, <1>2, <1>3, PTL DEF DeliverySpec

-----------------------------------------------------------------------------
(* One pull request.  While nothing fails, an attempt has one delivery and *)
(* all that is published of it has the attempt's own name.                 *)

(* A copy r under id d: no other record is of its attempt. *)
Fits(recs, d, r) ==
    /\ \A e \in DeliveryIds :
          recs[e] # NoRecord /\ recs[e].attempt = r.attempt => e = d
    /\ recs[d] # NoRecord => recs[d].attempt = r.attempt
    /\ r.branch \in {r.attempt, NoRecord}

RecordsAlone(recs) ==
    \A d \in DeliveryIds : recs[d] # NoRecord => Fits(recs, d, recs[d])

(* A candidate's delivery is saved, or is about to be. *)
CandidatesAlone ==
    \A c \in CandidateIds : candidates[c] # NoRecord =>
        LET d == candidates[c].delivery a == candidates[c].attempt IN
        \/ records[d] # NoRecord /\ records[d].attempt = a
        \/ op.pc = "save" /\ op.id = d /\ op.rec.attempt = a

OpFits(recs, o) ==
    o.pc # "idle" =>
    /\ Fits(recs, o.id, o.rec)
    /\ o.pc \in {"save2", "rebase", "start"} \cup Publishing => recs[o.id] # NoRecord
    /\ o.outer # NoRecord =>
          Fits(recs, o.outer.id, o.outer.rec) /\ recs[o.outer.id] # NoRecord

OwnNames(o) ==
    /\ o.pc \in Publishing => o.rec.branch = o.rec.attempt
    /\ o.pc = "push" => o.commit.attempt = o.rec.attempt

IsOpen(p) == p # NoRecord /\ p.state = "OPEN"

GithubAlone ==
    /\ \A b \in BranchNames : remote[b] # NoRecord => remote[b].attempt = b
    /\ \A n \in PullNumbers :
          pulls[n] # NoRecord => pulls[n].branch = pulls[n].commit.attempt
    /\ \A m, n \in PullNumbers :
          (IsOpen(pulls[m]) /\ IsOpen(pulls[n])
           /\ pulls[m].branch = pulls[n].branch) => m = n

Alone ==
    /\ RecordsAlone(records)
    /\ CandidatesAlone
    /\ OpFits(records, op)
    /\ OwnNames(op)
    /\ GithubAlone

AloneInv == disturbances = 0 => Alone

LEMMA SameFit ==
    ASSUME NEW recs, NEW d, NEW r, NEW s, Fits(recs, d, r), s.attempt = r.attempt,
           s.branch \in {r.branch, s.attempt, NoRecord}
    PROVE  Fits(recs, d, s)
BY DEF Fits

(* Saving a copy that fits takes no attempt from a record, nor gives one   *)
(* to a second.                                                            *)
LEMMA FitsStays ==
    ASSUME NEW recs \in [DeliveryIds -> DeliveryRecord \cup {NoRecord}],
           NEW d \in DeliveryIds, NEW r \in DeliveryRecord, Fits(recs, d, r),
           NEW e \in DeliveryIds, NEW s, Fits(recs, e, s),
           recs[e] # NoRecord \/ (e = d /\ s.attempt = r.attempt)
    PROVE  Fits([recs EXCEPT ![d] = r], e, s)
<1>1. PICK later : later = [recs EXCEPT ![d] = r]
  OBVIOUS
<1>2. /\ later[d] = r
      /\ \A x \in DeliveryIds \ {d} : later[x] = recs[x]
  BY <1>1
<1>3. ASSUME NEW x \in DeliveryIds, later[x] # NoRecord, later[x].attempt = s.attempt
      PROVE  x = e
  BY <1>2, <1>3 DEF Fits
<1>4. later[e] # NoRecord => later[e].attempt = s.attempt
  BY <1>2 DEF Fits
<1> QED BY <1>1, <1>3, <1>4 DEF Fits

LEMMA RecordsStayAlone ==
    ASSUME NEW recs \in [DeliveryIds -> DeliveryRecord \cup {NoRecord}],
           NEW d \in DeliveryIds, NEW r \in DeliveryRecord, Fits(recs, d, r),
           RecordsAlone(recs)
    PROVE  RecordsAlone([recs EXCEPT ![d] = r])
<1> SUFFICES ASSUME NEW e \in DeliveryIds, [recs EXCEPT ![d] = r][e] # NoRecord
             PROVE  Fits([recs EXCEPT ![d] = r], e, [recs EXCEPT ![d] = r][e])
  BY DEF RecordsAlone
<1>1. CASE e = d
  BY <1>1, FitsStays
<1>2. CASE e # d
  <2>1. [recs EXCEPT ![d] = r][e] = recs[e]
    BY <1>2
  <2>2. Fits(recs, e, recs[e])
    BY <2>1 DEF RecordsAlone
  <2> QED BY <2>1, <2>2, FitsStays
<1> QED BY <1>1, <1>2

LEMMA TargetsFit ==
    ASSUME KnownInv, RecordsAlone(records), NEW t \in Known \cup ByJob \cup ByAttempt
    PROVE  Fits(records, t.id, t.rec)
<1>1. /\ t \in Works
      /\ \/ records[t.id] # NoRecord /\ t.rec = records[t.id]
         \/ /\ records[t.id] = NoRecord
            /\ t.rec = NewDelivery(t.rec.attempt) /\ RecordsOf(t.rec.attempt) = {}
  BY TargetsAre DEF KnownInv
<1>2. CASE records[t.id] # NoRecord
  BY <1>1, <1>2 DEF RecordsAlone, Works
<1>3. CASE records[t.id] = NoRecord
  <2>1. t.rec.branch = NoRecord
    <3>1. \A a : NewDelivery(a).branch = NoRecord
      BY DEF NewDelivery
    <3>2. t.rec = NewDelivery(t.rec.attempt)
      BY <1>1, <1>3
    <3> QED BY <3>1, <3>2
  <2>2. RecordsOf(t.rec.attempt) = {}
    BY <1>1, <1>3
  <2> QED BY <1>3, <2>1, <2>2 DEF Fits, RecordsOf
<1> QED BY <1>2, <1>3

LEMMA PublishTargetsFit ==
    ASSUME KnownInv, RecordsAlone(records), CandidatesAlone, op.pc = "idle",
           NEW c \in CandidateIds, Publishable(c), NEW t \in PublishTargets(c)
    PROVE  /\ t.id \in DeliveryIds /\ t.rec \in DeliveryRecord
           /\ Fits(records, t.id, t.rec) /\ records[t.id] # NoRecord
<1>1. /\ t \in Works /\ t.id = candidates[c].delivery
      /\ t.rec.attempt = candidates[c].attempt
      /\ \/ t.rec.branch = NoRecord
         \/ \E d \in RecordsOf(t.rec.attempt) : t.rec.branch = records[d].branch
  BY PublishTargetsAre DEF KnownInv
<1>2. t.id \in DeliveryIds /\ t.rec \in DeliveryRecord
  BY <1>1 DEF Works
<1>3. records[t.id] # NoRecord /\ records[t.id].attempt = t.rec.attempt
  BY <1>1 DEF CandidatesAlone, Publishable
<1>4. t.rec.branch \in {t.rec.attempt, NoRecord}
  BY <1>1 DEF RecordsAlone, RecordsOf, Fits
<1>5. Fits(records, t.id, records[t.id])
  BY <1>2, <1>3 DEF RecordsAlone
<1> QED BY <1>2, <1>3, <1>4, <1>5 DEF Fits

(* What is saved fits: it is the copy of the request in flight, or one     *)
(* that a short request has just read.                                     *)
LEMMA SavesFit ==
    ASSUME KnownInv, Alone, [DeliveryNext]_deliveryVars, records' # records
    PROVE  \E d \in DeliveryIds, r \in DeliveryRecord :
              /\ Save(d, r) /\ Fits(records, d, r)
              /\ \/ op.pc = "idle" /\ op'.pc = "idle"
                 \/ op.pc # "idle" /\ d = op.id /\ r.attempt = op.rec.attempt
<1>k. op.pc # "idle" => op.id \in DeliveryIds /\ op.rec \in DeliveryRecord
  BY InFlight DEF KnownInv
<1>s. ASSUME op.pc # "idle", NEW r \in DeliveryRecord, Save(op.id, r),
             r.attempt = op.rec.attempt, r.branch = op.rec.branch
      PROVE  \E d \in DeliveryIds, s \in DeliveryRecord :
                /\ Save(d, s) /\ Fits(records, d, s)
                /\ op.pc # "idle" /\ d = op.id /\ s.attempt = op.rec.attempt
  BY <1>k, <1>s, SameFit DEF Alone, OpFits
<1>1. CASE PreflightPersist
  BY <1>1, <1>k, <1>s DEF PreflightPersist, Step
<1>2. CASE \/ PreflightResult \/ PublishStart \/ UnexpectedBranch \/ CandidateStale
  <2>1. /\ op.pc # "idle"
        /\ \E st \in {"READY_TO_PUBLISH", "NOT_READY", "PUBLISHING", "DELIVERY_FAILED"} :
              Save(op.id, [op.rec EXCEPT !.state = st])
    BY <1>2 DEF PreflightResult, PublishStart, UnexpectedBranch, CandidateStale,
                PublishFails, Step
  <2>2. PICK st \in {"READY_TO_PUBLISH", "NOT_READY", "PUBLISHING", "DELIVERY_FAILED"} :
              Save(op.id, [op.rec EXCEPT !.state = st])
    BY <2>1
  <2>3. PICK r : r = [op.rec EXCEPT !.state = st]
    OBVIOUS
  <2>4. r \in DeliveryRecord /\ r.attempt = op.rec.attempt /\ r.branch = op.rec.branch
    BY <1>k, <2>1, <2>3 DEF DeliveryRecord, DeliveryStates
  <2> QED BY <1>s, <2>1, <2>2, <2>3, <2>4
<1>3. CASE RecordPull
  <2>1. /\ op.pc = "record"
        /\ \E o \in Outages : \E r \in SyncRecords(op.rec, o) :
              Save(op.id, [r EXCEPT !.state = IF o.viewed /\ ~o.checks
                                              THEN "CI_PENDING" ELSE "PR_OPEN"])
    BY <1>3 DEF RecordPull, Step
  <2>2. PICK o \in Outages, st \in {"CI_PENDING", "PR_OPEN"} :
           \E r \in SyncRecords(op.rec, o) : Save(op.id, [r EXCEPT !.state = st])
    BY <2>1
  <2>3. PICK r \in SyncRecords(op.rec, o) : Save(op.id, [r EXCEPT !.state = st])
    BY <2>2
  <2>4. /\ r \in DeliveryRecord /\ r.attempt = op.rec.attempt
        /\ r.branch = op.rec.branch
    BY <1>k, <2>1, SummariesAre
  <2>5. PICK s : s = [r EXCEPT !.state = st]
    OBVIOUS
  <2>6. s \in DeliveryRecord /\ s.attempt = op.rec.attempt /\ s.branch = op.rec.branch
    BY <2>4, <2>5 DEF DeliveryRecord, DeliveryStates
  <2> QED BY <1>s, <2>1, <2>3, <2>5, <2>6
<1>4. CASE SyncEnd \/ DetailsEnd
  <2>1. /\ op.pc \in {"sync", "details"}
        /\ \E o \in SyncOutages : \E r \in Synced(o) :
              \/ Save(op.id, r)
              \/ SyncEnd /\ Save(op.id, [r EXCEPT !.pullBase =
                              IF o.viewed THEN pulls[r.pull].base ELSE @])
    BY <1>4 DEF SyncEnd, DetailsEnd, Step
  <2>2. PICK o \in SyncOutages : \E r \in Synced(o) :
              \/ Save(op.id, r)
              \/ Save(op.id, [r EXCEPT !.pullBase =
                              IF o.viewed THEN pulls[r.pull].base ELSE @])
    BY <2>1
  <2>3. PICK r \in Synced(o) :
              \/ Save(op.id, r)
              \/ Save(op.id, [r EXCEPT !.pullBase =
                              IF o.viewed THEN pulls[r.pull].base ELSE @])
    BY <2>2
  <2>4. /\ r \in DeliveryRecord /\ r.attempt = op.rec.attempt
        /\ r.branch = op.rec.branch /\ r.pull = op.rec.pull
    BY <2>1, SyncedIs DEF KnownInv
  <2>5. pulls[r.pull] \in PullRecord
    BY <2>1, <2>4 DEF KnownInv, DeliveryInv, WorldOK, OpOK, RecordOK, DeliveryRecord
  <2>6. PICK s : s = [r EXCEPT !.pullBase = IF o.viewed THEN pulls[r.pull].base ELSE @]
    OBVIOUS
  <2>7. s \in DeliveryRecord /\ s.attempt = op.rec.attempt /\ s.branch = op.rec.branch
    BY <2>4, <2>5, <2>6 DEF DeliveryRecord, PullRecord
  <2> QED BY <1>s, <2>1, <2>3, <2>4, <2>6, <2>7
<1>5. CASE PublishBlocked
  <2>1. PICK c \in CandidateIds : Publishable(c) /\
           \E t \in PublishTargets(c) :
              Save(t.id, [t.rec EXCEPT !.state = "DELIVERY_FAILED", !.branch = NoRecord])
    BY <1>5 DEF PublishBlocked
  <2>2. PICK t \in PublishTargets(c) :
              Save(t.id, [t.rec EXCEPT !.state = "DELIVERY_FAILED", !.branch = NoRecord])
    BY <2>1
  <2>3. op.pc = "idle" /\ op' = op
    BY <1>5 DEF PublishBlocked, Step
  <2>4. t.id \in DeliveryIds /\ t.rec \in DeliveryRecord /\ Fits(records, t.id, t.rec)
    BY <2>1, <2>3, PublishTargetsFit DEF Alone
  <2>5. PICK r : r = [t.rec EXCEPT !.state = "DELIVERY_FAILED", !.branch = NoRecord]
    OBVIOUS
  <2>6. r \in DeliveryRecord /\ r.attempt = t.rec.attempt /\ r.branch = NoRecord
    BY <2>4, <2>5 DEF DeliveryRecord, DeliveryStates
  <2>7. Fits(records, t.id, r)
    BY <2>4, <2>6, SameFit
  <2> QED BY <2>2, <2>3, <2>4, <2>5, <2>6, <2>7
<1>6. CASE SafeCleanup \/ UnsafeCleanup
  <2>1. PICK t \in Known \cup ByJob : CleanupOf(t)
    BY <1>6 DEF SafeCleanup, UnsafeCleanup
  <2>2. t \in Works /\ Fits(records, t.id, t.rec)
    BY TargetsAre, TargetsFit DEF KnownInv, Alone
  <2>3. op.pc = "idle" /\ op' = op
    BY <1>6, <2>1 DEF SafeCleanup, UnsafeCleanup, CleanupOf, Step
  <2> QED BY <2>1, <2>2, <2>3 DEF CleanupOf, Works
<1> QED BY <1>1, <1>2, <1>3, <1>4, <1>5, <1>6
        DEF DeliveryNext, deliveryVars, stores, PreflightBegin, Gate, BuildCandidate,
            BuildRefused, SelectAttempt, ApproveCandidate, PublishBegin, PublishBehind,
            SafeRebase, RebaseFails, AdoptPull, NothingRemote, CandidateFresh,
            CommitCandidate, PushBranch, PushFails, CreatePull, CreateFails, SyncBegin,
            MergePull, ClosePull, DeleteTaskBranch, MoveBase, EditWorktree,
            RunCompletes, RetryReopens, DeliveryCrash

LEMMA StillFits ==
    ASSUME KnownInv, Alone, [DeliveryNext]_deliveryVars,
           NEW e \in DeliveryIds, NEW s, Fits(records, e, s),
           \/ records[e] # NoRecord
           \/ op.pc # "idle" /\ e = op.id /\ s.attempt = op.rec.attempt
    PROVE  /\ Fits(records', e, s)
           /\ records[e] # NoRecord => records'[e] # NoRecord
<1>k. records \in [DeliveryIds -> DeliveryRecord \cup {NoRecord}]
  BY DEF KnownInv, DeliveryInv, StoresOK
<1>1. CASE records' = records
  BY <1>1
<1>2. CASE records' # records
  <2>1. PICK d \in DeliveryIds, r \in DeliveryRecord :
              /\ Save(d, r) /\ Fits(records, d, r)
              /\ \/ op.pc = "idle" /\ op'.pc = "idle"
                 \/ op.pc # "idle" /\ d = op.id /\ r.attempt = op.rec.attempt
    BY <1>2, SavesFit
  <2>2. records' = [records EXCEPT ![d] = r] /\ r # NoRecord
    BY <2>1, NoRecordAssumption DEF Save
  <2>3. Fits(records', e, s)
    BY <1>k, <2>1, <2>2, FitsStays
  <2> QED BY <1>k, <2>2, <2>3
<1> QED BY <1>1, <1>2

LEMMA RecordsAloneStep ==
    ASSUME KnownInv, Alone, [DeliveryNext]_deliveryVars
    PROVE  RecordsAlone(records')
<1>k. records \in [DeliveryIds -> DeliveryRecord \cup {NoRecord}]
  BY DEF KnownInv, DeliveryInv, StoresOK
<1>1. CASE records' = records
  BY <1>1 DEF Alone
<1>2. CASE records' # records
  <2>1. PICK d \in DeliveryIds, r \in DeliveryRecord :
              Save(d, r) /\ Fits(records, d, r)
    BY <1>2, SavesFit
  <2> QED BY <1>k, <2>1, RecordsStayAlone DEF Save, Alone
<1> QED BY <1>1, <1>2

(* An operation that goes on keeps its delivery, its attempt, its name. *)
LEMMA Continues ==
    ASSUME KnownInv, op'.pc # "idle",
           \/ Gate \/ BuildCandidate \/ PreflightPersist \/ NothingRemote
           \/ CandidateFresh \/ CommitCandidate \/ PushBranch \/ AdoptPull
           \/ CreatePull
    PROVE  /\ op.pc # "idle" /\ op'.id = op.id /\ op'.outer = op.outer
           /\ op'.rec.attempt = op.rec.attempt /\ op'.rec.branch = op.rec.branch
<1>1. op.pc # "idle"
  BY DEF Gate, BuildCandidate, PreflightPersist, NothingRemote, CandidateFresh,
         CommitCandidate, PushBranch, AdoptPull, CreatePull, Step
<1>2. op \in DeliveryOps /\ op.rec \in DeliveryRecord
  BY <1>1, InFlight DEF KnownInv
<1>3. op' # IdleOp
  BY DEF IdleOp
<1>4. CASE Gate
  BY <1>1, <1>2, <1>4 DEF Gate, DeliveryOps
<1>5. CASE BuildCandidate
  <2>1. PICK c : op' = [op EXCEPT !.rec.candidate = c, !.pc = "save"]
    BY <1>5 DEF BuildCandidate
  <2> QED BY <1>1, <1>2, <2>1 DEF DeliveryOps, DeliveryRecord
<1>6. CASE PreflightPersist \/ NothingRemote \/ CandidateFresh \/ PushBranch
  <2>1. \E pc : op' = [op EXCEPT !.pc = pc]
    BY <1>3, <1>6 DEF PreflightPersist, NothingRemote, CandidateFresh, PushBranch, Finish
  <2> QED BY <1>1, <1>2, <2>1 DEF DeliveryOps
<1>7. CASE CommitCandidate
  BY <1>1, <1>2, <1>7 DEF CommitCandidate, DeliveryOps
<1>8. CASE AdoptPull \/ CreatePull
  <2>1. \E n, b : op' = [op EXCEPT !.pc = "record", !.rec.pull = n, !.rec.pullBase = b]
    BY <1>3, <1>8 DEF AdoptPull, CreatePull, Finish
  <2>2. ASSUME NEW n, NEW b,
               op' = [op EXCEPT !.pc = "record", !.rec.pull = n, !.rec.pullBase = b]
        PROVE  /\ op'.id = op.id /\ op'.outer = op.outer
               /\ op'.rec.attempt = op.rec.attempt /\ op'.rec.branch = op.rec.branch
    BY <1>2, <2>2 DEF DeliveryOps, DeliveryRecord
  <2> QED BY <1>1, <2>1, <2>2
<1> QED BY <1>4, <1>5, <1>6, <1>7, <1>8

LEMMA LeavesSave ==
    ASSUME KnownInv, [DeliveryNext]_deliveryVars, op.pc = "save",
           disturbances' = disturbances
    PROVE  PreflightPersist \/ op' = op
<1>1. ~DeliveryCrash
  BY DEF DeliveryCrash, Disturb, KnownInv, DeliveryInv, WorldOK
<1> QED BY <1>1
        DEF DeliveryNext, deliveryVars, Step, PreflightBegin, Gate, BuildCandidate,
            BuildRefused, PreflightResult, SelectAttempt, ApproveCandidate,
            PublishBlocked, PublishBegin, PublishBehind, SafeRebase, RebaseFails,
            PublishStart, AdoptPull, UnexpectedBranch, NothingRemote, CandidateStale,
            CandidateFresh, CommitCandidate, PushBranch, PushFails, CreatePull,
            CreateFails, RecordPull, SyncBegin, SyncEnd, DetailsEnd, SafeCleanup,
            UnsafeCleanup, MergePull, ClosePull, DeleteTaskBranch, MoveBase,
            EditWorktree, RunCompletes, RetryReopens

LEMMA CandidatesAloneStep ==
    ASSUME KnownInv, Alone, [DeliveryNext]_deliveryVars, disturbances' = disturbances
    PROVE  CandidatesAlone'
<1>k. /\ records \in [DeliveryIds -> DeliveryRecord \cup {NoRecord}]
      /\ candidates \in [CandidateIds -> CandidateRecord \cup {NoRecord}]
      /\ op.pc # "idle" => op.id \in DeliveryIds /\ op.rec \in DeliveryRecord
  BY InFlight DEF KnownInv, DeliveryInv, StoresOK
<1>1. ASSUME NEW c \in CandidateIds, candidates'[c] # NoRecord
      PROVE  \/ /\ records'[candidates'[c].delivery] # NoRecord
                /\ records'[candidates'[c].delivery].attempt = candidates'[c].attempt
             \/ /\ op'.pc = "save" /\ op'.id = candidates'[c].delivery
                /\ op'.rec.attempt = candidates'[c].attempt
  <2>1. CASE candidates[c] = NoRecord
    <3>1. /\ BuildCandidate
          /\ candidates'[c].attempt = op.rec.attempt
          /\ candidates'[c].delivery = op.id
      BY <1>1, <2>1, Built
    <3>2. op'.pc = "save"
      <4>1. op \in DeliveryOps
        BY <3>1, InFlight DEF BuildCandidate, Step, KnownInv
      <4> QED BY <3>1, <4>1 DEF BuildCandidate, DeliveryOps
    <3> QED BY <3>1, <3>2, Continues
  <2>2. CASE candidates[c] # NoRecord
    <3>1. PICK d, a : d = candidates[c].delivery /\ a = candidates[c].attempt
      OBVIOUS
    <3>2. /\ d \in DeliveryIds
          /\ candidates'[c].delivery = d /\ candidates'[c].attempt = a
      BY <1>k, <2>2, <3>1, CandidatesAreKept DEF KnownInv, CandidatesStay, CandidateRecord
    <3>3. CASE records[d] # NoRecord /\ records[d].attempt = a
      <4>1. Fits(records, d, records[d])
        BY <3>2, <3>3 DEF Alone, RecordsAlone
      <4>2. Fits(records', d, records[d]) /\ records'[d] # NoRecord
        BY <3>2, <3>3, <4>1, StillFits
      <4> QED BY <3>2, <3>3, <4>2 DEF Fits
    <3>4. CASE op.pc = "save" /\ op.id = d /\ op.rec.attempt = a
      <4>1. CASE op' = op
        BY <3>2, <3>4, <4>1
      <4>2. CASE PreflightPersist
        <5>1. records'[d] = op.rec /\ op.rec # NoRecord
          BY <1>k, <3>2, <3>4, <4>2, NoRecordAssumption DEF PreflightPersist, Save
        <5> QED BY <3>2, <3>4, <5>1
      <4> QED BY <3>4, <4>1, <4>2, LeavesSave
    <3> QED BY <2>2, <3>1, <3>3, <3>4 DEF Alone, CandidatesAlone
  <2> QED BY <2>1, <2>2
<1> QED BY <1>1 DEF CandidatesAlone

(* No other record has the attempt's name. *)
LEMMA OwnBranchName ==
    ASSUME RecordsAlone(records), NEW d \in DeliveryIds,
           NEW r \in DeliveryRecord, Fits(records, d, r)
    PROVE  BranchName(d, r.attempt) = r.attempt
<1>1. ASSUME NEW e \in DeliveryIds \ {d}, records[e] # NoRecord,
             records[e].branch = r.attempt
      PROVE  FALSE
  <2>1. r.attempt # NoRecord
    BY NoRecordAssumption DEF DeliveryRecord, BranchNames
  <2>2. records[e].branch \in {records[e].attempt, NoRecord}
    BY <1>1 DEF RecordsAlone, Fits
  <2> QED BY <1>1, <2>1, <2>2 DEF Fits
<1> QED BY <1>1 DEF BranchName

LEMMA PublishStartNames ==
    ASSUME KnownInv, Alone, PublishStart
    PROVE  /\ op.pc = "start" /\ op'.id = op.id /\ op'.outer = op.outer
           /\ op'.rec.attempt = op.rec.attempt /\ op'.rec.branch = op.rec.attempt
<1>1. op.pc = "start"
  BY DEF PublishStart, Step
<1>2. /\ op \in DeliveryOps /\ op.id \in DeliveryIds /\ op.rec \in DeliveryRecord
  BY <1>1, InFlight DEF KnownInv
<1>3. PICK r : r = [op.rec EXCEPT !.state = "PUBLISHING"]
  OBVIOUS
<1>4. r \in DeliveryRecord /\ r.attempt = op.rec.attempt
  BY <1>2, <1>3 DEF DeliveryRecord, DeliveryStates
<1>5. PICK s : s = [r EXCEPT !.branch = BranchName(op.id, r.attempt)]
  OBVIOUS
<1>6. s.attempt = op.rec.attempt /\ s.branch = BranchName(op.id, op.rec.attempt)
  BY <1>4, <1>5 DEF DeliveryRecord
<1>7. op' = [op EXCEPT !.pc = "look", !.rec = s]
  BY <1>3, <1>5 DEF PublishStart
<1>8. op'.id = op.id /\ op'.outer = op.outer /\ op'.rec = s
  BY <1>2, <1>7 DEF DeliveryOps
<1>9. BranchName(op.id, op.rec.attempt) = op.rec.attempt
  BY <1>1, <1>2, OwnBranchName DEF Alone, OpFits
<1> QED BY <1>1, <1>6, <1>8, <1>9

LEMMA OpFitsStep ==
    ASSUME KnownInv, Alone, [DeliveryNext]_deliveryVars
    PROVE  OpFits(records', op')
<1> SUFFICES ASSUME op'.pc # "idle"
             PROVE  OpFits(records', op')
  BY DEF OpFits
<1>k. /\ op.pc # "idle" => /\ op.id \in DeliveryIds /\ op.rec \in DeliveryRecord
                           /\ op.outer # NoRecord => op.outer \in Works
      /\ OpFits(records, op)
  BY InFlight DEF KnownInv, Alone
<1>1. CASE op' = op /\ records' = records
  BY <1>1, <1>k
<1>2. CASE PreflightBegin \/ SyncBegin
  <2>1. PICK t \in Known \cup ByJob \cup ByAttempt :
           \/ op' = [IdleOp EXCEPT !.pc = "gate", !.id = t.id, !.rec = t.rec]
           \/ \E pc \in {"sync", "details"} :
                 \/ \E view : op' = [IdleOp EXCEPT !.pc = pc, !.id = t.id, !.rec = t.rec,
                                                   !.view = view]
                 \/ op' = [IdleOp EXCEPT !.pc = pc, !.id = t.id, !.rec = t.rec]
    BY <1>2 DEF PreflightBegin, SyncBegin
  <2>2. /\ op'.pc \in {"gate", "sync", "details"}
        /\ op'.id = t.id /\ op'.rec = t.rec /\ op'.outer = NoRecord
    BY <2>1 DEF IdleOp
  <2>3. Fits(records, t.id, t.rec)
    BY TargetsFit DEF Alone
  <2>4. records' = records
    BY <1>2 DEF PreflightBegin, SyncBegin, stores
  <2> QED BY <2>2, <2>3, <2>4 DEF OpFits, Publishing
<1>3. CASE SafeRebase
  <2>1. op' # IdleOp
    BY DEF IdleOp
  <2>w. PICK outer : outer = [id |-> op.id, rec |-> op.rec]
    OBVIOUS
  <2>2. PICK t \in Known \cup ByJob :
           op' = [IdleOp EXCEPT !.pc = "gate", !.id = t.id, !.rec = t.rec,
                                !.outer = outer]
    BY <1>3, <2>1, <2>w DEF SafeRebase, Finish
  <2>3. /\ op'.pc = "gate" /\ op'.id = t.id /\ op'.rec = t.rec
        /\ op'.outer.id = op.id /\ op'.outer.rec = op.rec
    BY <2>2, <2>w DEF IdleOp
  <2>4. Fits(records, t.id, t.rec)
    BY TargetsFit DEF Alone
  <2>5. Fits(records, op.id, op.rec) /\ records[op.id] # NoRecord
    BY <1>3, <1>k DEF SafeRebase, Step, OpFits
  <2>6. records' = records
    BY <1>3 DEF SafeRebase, stores
  <2> QED BY <2>3, <2>4, <2>5, <2>6 DEF OpFits, Publishing
<1>4. CASE \/ Gate \/ BuildCandidate \/ PreflightPersist \/ NothingRemote
           \/ CandidateFresh \/ CommitCandidate \/ PushBranch \/ AdoptPull
           \/ CreatePull \/ PublishStart
  <2>1. /\ op.pc # "idle" /\ op'.id = op.id /\ op'.outer = op.outer
        /\ op'.rec.attempt = op.rec.attempt
        /\ op'.rec.branch \in {op.rec.branch, op.rec.attempt}
    <3>1. CASE PublishStart
      BY <3>1, PublishStartNames
    <3> QED BY <1>4, <3>1, Continues
  <2>2. Fits(records, op.id, op.rec)
    BY <1>k, <2>1 DEF OpFits
  <2>3. Fits(records, op.id, op'.rec)
    BY <2>1, <2>2, SameFit
  <2>4. Fits(records', op'.id, op'.rec)
    BY <1>k, <2>1, <2>3, StillFits
  <2>5. ASSUME op.outer # NoRecord
        PROVE  Fits(records', op.outer.id, op.outer.rec) /\ records'[op.outer.id] # NoRecord
    <3>1. op.outer.id \in DeliveryIds
      BY <1>k, <2>1, <2>5 DEF Works
    <3>2. Fits(records, op.outer.id, op.outer.rec) /\ records[op.outer.id] # NoRecord
      BY <1>k, <2>1, <2>5 DEF OpFits
    <3> QED BY <3>1, <3>2, StillFits
  <2>6. ASSUME op'.pc \in {"save2", "rebase", "start"} \cup Publishing
        PROVE  records'[op'.id] # NoRecord
    <3>1. CASE PreflightPersist
      BY <1>k, <2>1, <3>1, NoRecordAssumption
         DEF PreflightPersist, Save, KnownInv, DeliveryInv, StoresOK
    <3>2. CASE op.pc \in {"start"} \cup Publishing
      <4>1. records[op.id] # NoRecord
        BY <1>k, <2>1, <3>2 DEF OpFits
      <4> QED BY <1>k, <2>1, <2>2, <4>1, StillFits
    <3>3. CASE Gate \/ BuildCandidate
      <4>1. op \in DeliveryOps
        BY <2>1, InFlight DEF KnownInv
      <4>2. op'.pc \in {"candidate", "save"}
        BY <3>3, <4>1 DEF Gate, BuildCandidate, DeliveryOps
      <4> QED BY <2>6, <4>2 DEF Publishing
    <3> QED BY <1>4, <3>1, <3>2, <3>3
            DEF NothingRemote, CandidateFresh, CommitCandidate, PushBranch, AdoptPull,
                CreatePull, PublishStart, Step, Publishing
  <2> QED BY <2>1, <2>4, <2>5, <2>6 DEF OpFits
<1>5. CASE PreflightResult
  <2>1. op' # IdleOp
    BY DEF IdleOp
  <2>2. /\ op.pc # "idle" /\ op.outer # NoRecord
        /\ op' = [IdleOp EXCEPT !.pc = "start", !.id = op.outer.id, !.rec = op.outer.rec]
    BY <1>5, <2>1 DEF PreflightResult, Step
  <2>3. /\ op'.pc = "start" /\ op'.id = op.outer.id /\ op'.rec = op.outer.rec
        /\ op'.outer = NoRecord
    BY <2>2 DEF IdleOp
  <2>4. /\ op.outer.id \in DeliveryIds
        /\ Fits(records, op.outer.id, op.outer.rec) /\ records[op.outer.id] # NoRecord
    BY <1>k, <2>2 DEF OpFits, Works
  <2>5. Fits(records', op.outer.id, op.outer.rec) /\ records'[op.outer.id] # NoRecord
    BY <2>4, StillFits
  <2> QED BY <2>3, <2>5 DEF OpFits
<1>6. CASE PublishBegin \/ PublishBehind
  <2>1. PICK c \in CandidateIds, pc \in {"start", "rebase"} :
            Publishable(c) /\ \E t \in PublishTargets(c) :
               op' = [IdleOp EXCEPT !.pc = pc, !.id = t.id, !.rec = t.rec]
    BY <1>6 DEF PublishBegin, PublishBehind
  <2>2. PICK t \in PublishTargets(c) :
            op' = [IdleOp EXCEPT !.pc = pc, !.id = t.id, !.rec = t.rec]
    BY <2>1
  <2>3. op'.id = t.id /\ op'.rec = t.rec /\ op'.outer = NoRecord
    BY <2>2 DEF IdleOp
  <2>4. op.pc = "idle" /\ records' = records
    BY <1>6 DEF PublishBegin, PublishBehind, Step, stores
  <2>5. Fits(records, t.id, t.rec) /\ records[t.id] # NoRecord
    BY <2>1, <2>4, PublishTargetsFit DEF Alone
  <2> QED BY <2>3, <2>4, <2>5 DEF OpFits
<1> QED BY <1>1, <1>2, <1>3, <1>4, <1>5, <1>6, Arrives

LEMMA OwnNamesStep ==
    ASSUME KnownInv, Alone, [DeliveryNext]_deliveryVars
    PROVE  OwnNames(op')
<1>k. OwnNames(op)
  BY DEF Alone
<1>1. CASE op' = op
  BY <1>1, <1>k
<1>2. CASE PublishStart /\ op'.pc = "look"
  BY <1>2, PublishStartNames DEF OwnNames
<1>3. CASE /\ NothingRemote \/ CandidateFresh \/ PushBranch \/ AdoptPull \/ CreatePull
           /\ op'.pc \in Publishing \ {"push"}
  <2>1. op'.pc # "idle" /\ op.pc \in Publishing
    BY <1>3 DEF NothingRemote, CandidateFresh, PushBranch, AdoptPull, CreatePull, Step,
                Publishing
  <2>2. op'.rec.attempt = op.rec.attempt /\ op'.rec.branch = op.rec.branch
    BY <1>3, <2>1, Continues
  <2> QED BY <1>k, <1>3, <2>1, <2>2 DEF OwnNames
<1>4. CASE CommitCandidate
  <2>1. /\ op.pc = "commit"
        /\ op' = [op EXCEPT !.pc = "push",
                            !.commit = [attempt |-> op.rec.attempt,
                                        tree |-> CommitTree(op.rec.candidate)]]
    BY <1>4 DEF CommitCandidate, Step
  <2>2. op \in DeliveryOps
    BY <2>1, InFlight DEF KnownInv
  <2>3. op'.pc = "push" /\ op'.rec = op.rec /\ op'.commit.attempt = op.rec.attempt
    BY <2>1, <2>2 DEF DeliveryOps
  <2> QED BY <1>k, <2>1, <2>3 DEF OwnNames, Publishing
<1>5. CASE op'.pc \notin Publishing
  BY <1>5 DEF OwnNames, Publishing
<1> QED BY <1>1, <1>2, <1>3, <1>4, <1>5, Arrives DEF Publishing

LEMMA GithubAloneStep ==
    ASSUME KnownInv, Alone, [DeliveryNext]_deliveryVars
    PROVE  GithubAlone'
<1>k. /\ remote \in [BranchNames -> Commits \cup {NoRecord}]
      /\ pulls \in [PullNumbers -> PullRecord \cup {NoRecord}]
      /\ GithubAlone /\ OwnNames(op)
  BY DEF KnownInv, DeliveryInv, WorldOK, Alone
<1>1. CASE PushBranch
  <2>1. op.pc = "push"
    BY <1>1 DEF PushBranch, Step
  <2>2. op.rec.branch \in BranchNames /\ op.commit.attempt = op.rec.branch
    BY <1>k, <2>1 DEF KnownInv, DeliveryInv, OpOK, Publishing, OwnNames
  <2>3. remote' = [remote EXCEPT ![op.rec.branch] = op.commit] /\ pulls' = pulls
    BY <1>1 DEF PushBranch
  <2> QED BY <1>k, <2>2, <2>3 DEF GithubAlone, IsOpen
<1>2. CASE DeleteTaskBranch
  <2>1. PICK b \in BranchNames : remote' = [remote EXCEPT ![b] = NoRecord]
    BY <1>2 DEF DeleteTaskBranch
  <2>2. pulls' = pulls
    BY <1>2 DEF DeleteTaskBranch
  <2> QED BY <1>k, <2>1, <2>2 DEF GithubAlone, IsOpen
<1>3. CASE CreatePull
  <2>1. PICK b : b = op.rec.branch
    OBVIOUS
  <2>2. b \in BranchNames
    BY <1>3, <2>1 DEF CreatePull, Step, KnownInv, DeliveryInv, OpOK, Publishing
  <2>3. PICK n \in NextPull :
           pulls' = [pulls EXCEPT
              ![n] = [branch |-> b, commit |-> remote[b], state |-> "OPEN", base |-> base]]
    BY <1>3, <2>1 DEF CreatePull
  <2>4. /\ n \in PullNumbers /\ pulls[n] = NoRecord
        /\ remote[b] # NoRecord /\ OpenPulls(b) = {} /\ remote' = remote
    BY <1>3, <2>1 DEF CreatePull, NextPull
  <2>5. /\ pulls'[n].branch = b /\ pulls'[n].commit.attempt = b
        /\ pulls'[n].state = "OPEN"
    BY <1>k, <2>2, <2>3, <2>4 DEF GithubAlone
  <2>6. \A m \in PullNumbers \ {n} : pulls'[m] = pulls[m]
    BY <1>k, <2>3, <2>4
  <2>7. \A m \in PullNumbers : ~(IsOpen(pulls[m]) /\ pulls[m].branch = b)
    BY <2>4 DEF OpenPulls, IsOpen
  <2>8. \A m \in PullNumbers :
           pulls'[m] # NoRecord => pulls'[m].branch = pulls'[m].commit.attempt
    BY <1>k, <2>5, <2>6 DEF GithubAlone
  <2>9. ASSUME NEW m \in PullNumbers, NEW k \in PullNumbers,
               IsOpen(pulls'[m]), IsOpen(pulls'[k]),
               pulls'[m].branch = pulls'[k].branch
        PROVE  m = k
    <3>1. CASE m = n \/ k = n
      BY <2>5, <2>6, <2>7, <2>9, <3>1
    <3>2. CASE m # n /\ k # n
      BY <1>k, <2>6, <2>9, <3>2 DEF GithubAlone
    <3> QED BY <3>1, <3>2
  <2> QED BY <1>k, <2>4, <2>8, <2>9 DEF GithubAlone, IsOpen
<1>4. CASE MergePull \/ ClosePull
  <2>1. PICK n \in PullNumbers, st \in {"MERGED", "CLOSED"} :
            /\ pulls[n] # NoRecord /\ pulls[n].state = "OPEN"
            /\ pulls' = [pulls EXCEPT ![n].state = st]
    BY <1>4 DEF MergePull, ClosePull
  <2>2. PICK p : p = [pulls[n] EXCEPT !.state = st]
    OBVIOUS
  <2>3. /\ p.branch = pulls[n].branch /\ p.commit = pulls[n].commit
        /\ p.state # "OPEN" /\ pulls' = [pulls EXCEPT ![n] = p]
    BY <1>k, <2>1, <2>2 DEF PullRecord
  <2>4. /\ pulls'[n] = p
        /\ \A m \in PullNumbers \ {n} : pulls'[m] = pulls[m]
    BY <1>k, <2>3
  <2>5. \A m \in PullNumbers :
           /\ IsOpen(pulls'[m]) => IsOpen(pulls[m])
           /\ pulls'[m] # NoRecord => pulls[m] # NoRecord
           /\ pulls'[m].branch = pulls[m].branch /\ pulls'[m].commit = pulls[m].commit
    BY <2>1, <2>3, <2>4 DEF IsOpen
  <2>6. remote' = remote
    BY <1>4 DEF MergePull, ClosePull
  <2> QED BY <1>k, <2>5, <2>6 DEF GithubAlone, IsOpen
<1>5. CASE remote' = remote /\ pulls' = pulls
  BY <1>k, <1>5 DEF GithubAlone, IsOpen
<1> QED BY <1>1, <1>2, <1>3, <1>4, <1>5
        DEF DeliveryNext, deliveryVars, github, PublishFails, CleanupOf,
            PreflightBegin, Gate, BuildCandidate, BuildRefused, PreflightPersist,
            PreflightResult, SelectAttempt, ApproveCandidate, PublishBlocked,
            PublishBegin, PublishBehind, SafeRebase, RebaseFails, PublishStart,
            AdoptPull, UnexpectedBranch, NothingRemote, CandidateStale, CandidateFresh,
            CommitCandidate, PushFails, CreateFails, RecordPull, SyncBegin, SyncEnd,
            DetailsEnd, SafeCleanup, UnsafeCleanup, MoveBase, EditWorktree,
            RunCompletes, RetryReopens, DeliveryCrash

LEMMA Undisturbed ==
    ASSUME KnownInv, [DeliveryNext]_deliveryVars
    PROVE  disturbances' \in {disturbances, disturbances + 1} /\ disturbances \in Nat
<1>1. disturbances \in Nat
  BY DEF KnownInv, DeliveryInv, WorldOK
<1> QED BY <1>1
        DEF DeliveryNext, deliveryVars, NoFault, Fault, Disturb, Suffered, CleanupOf,
            PublishFails, PreflightBegin, Gate, BuildCandidate, BuildRefused,
            PreflightPersist, PreflightResult, SelectAttempt, ApproveCandidate,
            PublishBlocked, PublishBegin, PublishBehind, SafeRebase, RebaseFails,
            PublishStart, AdoptPull, UnexpectedBranch, NothingRemote, CandidateStale,
            CandidateFresh, CommitCandidate, PushBranch, PushFails, CreatePull,
            CreateFails, RecordPull, SyncBegin, SyncEnd, DetailsEnd, SafeCleanup,
            UnsafeCleanup, MergePull, ClosePull, DeleteTaskBranch, MoveBase,
            EditWorktree, RunCompletes, RetryReopens, DeliveryCrash

LEMMA AloneStep ==
    ASSUME KnownInv, AloneInv, [DeliveryNext]_deliveryVars
    PROVE  AloneInv'
<1> SUFFICES ASSUME disturbances' = 0
             PROVE  Alone'
  BY DEF AloneInv
<1>1. disturbances = 0 /\ Alone
  BY Undisturbed DEF AloneInv
<1>2. RecordsAlone(records') /\ CandidatesAlone' /\ OpFits(records', op')
      /\ OwnNames(op') /\ GithubAlone'
  BY <1>1, RecordsAloneStep, CandidatesAloneStep, OpFitsStep, OwnNamesStep,
     GithubAloneStep
<1> QED BY <1>2 DEF Alone

LEMMA AloneIsOnePull ==
    ASSUME AloneInv
    PROVE  OneOpenPullPerAttempt
<1> SUFFICES ASSUME disturbances = 0, NEW m \in PullNumbers, NEW n \in PullNumbers,
                    pulls[m] # NoRecord, pulls[m].state = "OPEN",
                    pulls[n] # NoRecord, pulls[n].state = "OPEN",
                    pulls[m].commit.attempt = pulls[n].commit.attempt
             PROVE  m = n
  BY DEF OneOpenPullPerAttempt
<1> QED BY DEF AloneInv, Alone, GithubAlone, IsOpen

(* Publishing is idempotent for any number of attempts, candidates and     *)
(* requests: as long as nothing fails, dies or is edited, an attempt has   *)
(* at most one open pull request.                                          *)
THEOREM OneOpenPullAlways == DeliverySpec => []OneOpenPullPerAttempt
<1>1. DeliveryInit => KnownInv /\ AloneInv
  <2>1. DeliveryInit => op.pc = "idle"
    BY DEF DeliveryInit, IdleOp
  <2>2. DeliveryInit => RecordsAlone(records) /\ CandidatesAlone /\ GithubAlone
    BY DEF DeliveryInit, RecordsAlone, CandidatesAlone, GithubAlone, IsOpen
  <2>3. DeliveryInit => OpFits(records, op) /\ OwnNames(op)
    BY <2>1 DEF OpFits, OwnNames, Publishing
  <2> QED BY <2>2, <2>3, KnownInitially DEF AloneInv, Alone
<1>2. KnownInv /\ AloneInv /\ [DeliveryNext]_deliveryVars => (KnownInv /\ AloneInv)'
  BY KnownStep, AloneStep
<1>3. AloneInv => OneOpenPullPerAttempt
  BY AloneIsOnePull
<1> QED BY <1>1, <1>2, <1>3, PTL DEF DeliverySpec

=============================================================================

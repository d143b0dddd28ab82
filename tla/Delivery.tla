------------------------------ MODULE Delivery ------------------------------
(***************************************************************************)
(* The delivery domain: delivery_service.py, candidate_service.py, their   *)
(* stores and the GitHub provider.  A completed attempt of a job becomes a *)
(* pull request: preflight freezes the changes of its worktree in a        *)
(* candidate, a human approves it, publish commits and pushes exactly that *)
(* candidate and opens the pull request, sync follows it, cleanup removes  *)
(* the worktree.                                                           *)
(*                                                                         *)
(* The daemon serves one request at a time under a lock, so there is one   *)
(* operation in flight.  It works on copies it read earlier, while GitHub, *)
(* the worktree and the base branch go on; a provider call may fail before *)
(* or after it took effect, and the daemon may die between any two steps.  *)
(***************************************************************************)
EXTENDS Naturals, FiniteSets

CONSTANTS
    DeliverableAttempts,    \* attempts of the job that may be delivered
    Files,
    Verdicts,               \* what GitHub's checks may say
    Opinions,               \* what its reviewers may say
    MergeStates,            \* what it says about merging
    MaxDeliveries,          \* bound: delivery ids handed out
    MaxCandidates,          \* bound: candidate ids handed out
    MaxPulls,               \* bound: pull requests opened
    MaxBase,                \* bound: commits on the base branch
    Disturbances,           \* what may go wrong: "fault", "edit", "crash"
    MaxDisturbances,        \* bound: how many of them, in any mix
    HarnessCommits,         \* may a run leave commits in its worktree?
    LateEdits,              \* are worktrees edited during a request?
    NoRecord

ASSUME DeliveryAssumption ==
    /\ IsFiniteSet(Files)
    /\ Verdicts \subseteq {"none", "pending", "failed", "green"}
    /\ Opinions \subseteq {"none", "changes"}
    /\ MergeStates \subseteq {"CLEAN", "DIRTY", "BEHIND", "UNKNOWN"}
    /\ {MaxDeliveries, MaxCandidates, MaxPulls, MaxBase,
        MaxDisturbances} \subseteq Nat
    /\ Disturbances \subseteq {"fault", "edit", "crash"}
    /\ HarnessCommits \in BOOLEAN /\ LateEdits \in BOOLEAN

VARIABLES
    records,        \* DeliveryStore: delivery id -> record
    candidates,     \* PublishCandidateStore: candidate id -> manifest
    selection,      \* selection.json of the job, NoRecord if none
    completed,      \* attempts of the job that are COMPLETED
    jobDone,        \* the job is COMPLETED, not reopened by a retry
    worktrees,      \* the attempts' worktrees
    base,           \* number of commits on the remote base branch
    remote,         \* the remote task branches
    pulls,          \* the pull requests
    op,             \* the operation in flight, its copies of records
    disturbances    \* failing calls, late edits and crashes so far

deliveryVars == <<records, candidates, selection, completed, jobDone,
                  worktrees, base, remote, pulls, op, disturbances>>

stores   == <<records, candidates, selection>>
jobVars  == <<completed, jobDone>>
github   == <<base, remote, pulls>>

-----------------------------------------------------------------------------
(* Data *)

DeliveryIds  == 1..MaxDeliveries
CandidateIds == 1..MaxCandidates
PullNumbers  == 1..MaxPulls
NoId         == 0

DeliveryStates == {"NOT_READY", "READY_TO_PUBLISH", "PUBLISHING", "PR_OPEN",
                   "CI_PENDING", "CI_FAILED", "REVIEW_CHANGES_REQUESTED",
                   "NEEDS_REBASE", "MERGE_CONFLICT", "MERGE_READY", "MERGED",
                   "PR_CLOSED", "DELIVERY_FAILED"}

(* A version of a file: 0 is the one of the base branch, 1 the one of the  *)
(* run, 2 a later one.                                                     *)
Manifests == [Files -> 0..2]
Unchanged == [f \in Files |-> 0]

(* Branch names: conduvera/<job>/<attempt>, and with the suffix of the     *)
(* delivery id when another record has the name already.                   *)
BranchNames == DeliverableAttempts \cup DeliveryIds

Commits == [attempt : DeliverableAttempts, tree : Manifests]

(* bound: publish has stored the worktree, the base commit and the session *)
(* in the record; it stores them together.                                 *)
DeliveryRecord == [attempt   : DeliverableAttempts,
                   state     : DeliveryStates,
                   candidate : CandidateIds \cup {NoId},
                   bound     : BOOLEAN,
                   branch    : BranchNames \cup {NoRecord},
                   pull      : PullNumbers \cup {NoId},
                   pullBase  : 0..MaxBase,
                   checks    : {"none", "pending", "failed", "green"},
                   reviews   : {"none", "changes"}]

NewDelivery(a) == [attempt |-> a, state |-> "NOT_READY", candidate |-> NoId,
                   bound |-> FALSE, branch |-> NoRecord, pull |-> NoId,
                   pullBase |-> 0, checks |-> "none", reviews |-> "none"]

(* based: the candidate names the base commit of its record; a record that *)
(* was never published has none, and the candidate starts at HEAD.         *)
CandidateRecord == [attempt  : DeliverableAttempts,
                    delivery : DeliveryIds,
                    files    : Manifests,
                    head     : 0..MaxBase,
                    based    : BOOLEAN,
                    approved : BOOLEAN]

(* committed, dirty: the versions at HEAD and in the working tree; head:   *)
(* the commit of the base branch that HEAD stands on.                      *)
WorktreeRecord == [exists : BOOLEAN, head : 0..MaxBase,
                   committed : Manifests, dirty : Manifests]

PullRecord == [branch : BranchNames, commit : Commits,
               state : {"OPEN", "MERGED", "CLOSED"}, base : 0..MaxBase]

(* The value of no record is none of the records, nor what Publication     *)
(* shows of a pull request.                                                *)
ASSUME NoRecordAssumption ==
    NoRecord \notin UNION {DeliveryRecord, CandidateRecord, PullRecord, Commits,
                           BranchNames,
                           [branch : BranchNames, content : Commits, open : BOOLEAN]}

OpSteps == {"idle", "gate", "candidate", "save", "save2", "rebase", "start",
            "look", "check", "commit", "push", "create", "record", "sync",
            "details"}

(* rec is the copy of the record the operation works on and id the key it  *)
(* will save it under.  outer holds what publish goes on with after the    *)
(* preflight of a rebase.  view is what pr_view returned.                  *)
NoView  == [state |-> "lost", merge |-> "UNKNOWN"]
IdleOp  == [pc |-> "idle", id |-> NoId, rec |-> NoRecord, ok |-> FALSE,
            commit |-> NoRecord, outer |-> NoRecord, view |-> NoView]

DeliveryInit ==
    /\ records = [d \in DeliveryIds |-> NoRecord]
    /\ candidates = [c \in CandidateIds |-> NoRecord]
    /\ selection = NoRecord
    /\ completed = {}
    /\ jobDone = FALSE
    /\ worktrees = [a \in DeliverableAttempts |->
                      [exists |-> FALSE, head |-> 0, committed |-> Unchanged,
                       dirty |-> Unchanged]]
    /\ base = 0
    /\ remote = [b \in BranchNames |-> NoRecord]
    /\ pulls = [n \in PullNumbers |-> NoRecord]
    /\ op = IdleOp
    /\ disturbances = 0

-----------------------------------------------------------------------------
(* The stores and the worktree *)

Save(d, r) == records' = [records EXCEPT ![d] = r]

RecordsOf(a) == {d \in DeliveryIds : records[d] # NoRecord
                                     /\ records[d].attempt = a}

(* A new uuid is no record's and no candidate's. *)
FreshDeliveryIds ==
    LET free == {d \in DeliveryIds :
                    /\ records[d] = NoRecord
                    /\ \A c \in CandidateIds :
                          candidates[c] # NoRecord => candidates[c].delivery # d}
    IN {d \in free : \A e \in free : d <= e}

FreshCandidateIds ==
    LET free == {c \in CandidateIds : candidates[c] = NoRecord}
    IN {c \in free : \A e \in free : c <= e}

(* The record of an attempt, or a new one that is not saved yet.  Records  *)
(* that share an attempt are copies with the same created_at, so all()     *)
(* lists them in any order.                                                *)
ForAttempt(a) ==
    IF RecordsOf(a) # {}
    THEN {[id |-> d, rec |-> records[d]] : d \in RecordsOf(a)}
    ELSE {[id |-> d, rec |-> NewDelivery(a)] : d \in FreshDeliveryIds}

Known == {[id |-> d, rec |-> records[d]] :
             d \in {e \in DeliveryIds : records[e] # NoRecord}}

(* The attempt a bare job id stands for: the selected one, or the only one *)
(* that is completed.                                                      *)
Deliverable ==
    IF selection \in completed THEN {selection}
    ELSE {a \in completed : completed = {a}}

(* A request names a delivery, the job, or the job and one of its          *)
(* completed attempts.                                                     *)
ByJob       == UNION {ForAttempt(a) : a \in Deliverable}
ByAttempt   == UNION {ForAttempt(a) : a \in completed}

Content(a) ==
    [f \in Files |-> IF worktrees[a].dirty[f] # 0
                     THEN worktrees[a].dirty[f]
                     ELSE worktrees[a].committed[f]]

(* What the inventory of a candidate lists: without a base commit only     *)
(* what git status shows.                                                  *)
Inventory(a, based) == IF based THEN Content(a) ELSE worktrees[a].dirty

BoundElsewhere(d, a) ==
    \E e \in DeliveryIds \ {d} :
        records[e] # NoRecord /\ records[e].bound /\ records[e].attempt = a

(* The gates of the code that the model knows the facts of; the others     *)
(* (evidence, forbidden paths, the source repository) are a free choice.   *)
GateClean(d, r) ==
    /\ r.attempt \in completed
    /\ jobDone
    /\ worktrees[r.attempt].exists
    /\ Content(r.attempt) # Unchanged
    /\ ~BoundElsewhere(d, r.attempt)

(* Mutant of CheckStale: the files are not compared. *)
CheckMoved(c) ==
    LET a == candidates[c].attempt IN
    ~worktrees[a].exists \/ worktrees[a].head # candidates[c].head

CheckStale(c) ==
    LET a == candidates[c].attempt IN
    \/ ~worktrees[a].exists
    \/ worktrees[a].head # candidates[c].head
    \/ \E f \in Files : /\ candidates[c].files[f] # 0
                        /\ Content(a)[f] # candidates[c].files[f]

(* The tree that commit_candidate writes: the parent's, with the files of  *)
(* the manifest read again from the worktree.                              *)
CommitTree(c) ==
    LET cand == candidates[c]
        parent == IF cand.based THEN Unchanged
                  ELSE worktrees[cand.attempt].committed
    IN [f \in Files |-> IF cand.files[f] # 0 THEN Content(cand.attempt)[f]
                        ELSE parent[f]]

(* Mutant of BranchName: the record's own branch is taken as well. *)
BranchNameAnew(d, a) ==
    IF \E e \in DeliveryIds : records[e] # NoRecord /\ records[e].branch = a
    THEN d ELSE a

BranchName(d, a) ==
    IF \E e \in DeliveryIds \ {d} :
          records[e] # NoRecord /\ records[e].branch = a
    THEN d ELSE a

OpenPulls(b) ==
    {n \in PullNumbers : pulls[n] # NoRecord /\ pulls[n].state = "OPEN"
                         /\ pulls[n].branch = b}

Disturb(kind) ==
    /\ kind \in Disturbances /\ disturbances < MaxDisturbances
    /\ disturbances' = disturbances + 1

Fault   == Disturb("fault")
NoFault == UNCHANGED disturbances

Step(pc) == op.pc = pc
Finish   == op' = IdleOp

-----------------------------------------------------------------------------
(* preflight, on its own or after the rebase of a publish *)

PreflightBegin ==
    /\ Step("idle")
    /\ \E t \in Known \cup ByJob \cup ByAttempt :
          op' = [IdleOp EXCEPT !.pc = "gate", !.id = t.id, !.rec = t.rec]
    /\ UNCHANGED <<stores, jobVars, worktrees, github, disturbances>>

Gate ==
    /\ Step("gate")
    /\ \E ok \in BOOLEAN :
          /\ ok => GateClean(op.id, op.rec)
          /\ op' = [op EXCEPT !.ok = ok, !.pc = IF ok THEN "candidate" ELSE "save"]
    /\ UNCHANGED <<stores, jobVars, worktrees, github, disturbances>>

(* build_candidate stores the manifest before the record that names it. *)
BuildCandidate ==
    LET a == op.rec.attempt
        files == Inventory(a, op.rec.bound)
    IN
    /\ Step("candidate")
    /\ worktrees[a].exists
    /\ files # Unchanged
    /\ \E c \in FreshCandidateIds :
          /\ candidates' = [candidates EXCEPT
                 ![c] = [attempt |-> a, delivery |-> op.id, files |-> files,
                         head |-> worktrees[a].head, based |-> op.rec.bound,
                         approved |-> FALSE]]
          /\ op' = [op EXCEPT !.rec.candidate = c, !.pc = "save"]
    /\ UNCHANGED <<records, selection, jobVars, worktrees, github, disturbances>>

(* A forbidden path, no file to deliver, no worktree: the exception ends   *)
(* the request, and a publish that wanted the preflight with it.           *)
BuildRefused ==
    /\ Step("candidate")
    /\ Finish
    /\ UNCHANGED <<stores, jobVars, worktrees, github, disturbances>>

(* The record is saved twice: first in its old state, with the event.      *)
PreflightPersist ==
    /\ Step("save")
    /\ Save(op.id, op.rec)
    /\ op' = [op EXCEPT !.pc = "save2"]
    /\ UNCHANGED <<candidates, selection, jobVars, worktrees, github, disturbances>>

PreflightResult ==
    /\ Step("save2")
    /\ Save(op.id, [op.rec EXCEPT
                      !.state = IF op.ok THEN "READY_TO_PUBLISH" ELSE "NOT_READY"])
    /\ op' = IF op.outer # NoRecord /\ op.ok
             THEN [IdleOp EXCEPT !.pc = "start", !.id = op.outer.id,
                                 !.rec = op.outer.rec]
             ELSE IdleOp
    /\ UNCHANGED <<candidates, selection, jobVars, worktrees, github, disturbances>>

-----------------------------------------------------------------------------
(* Selection, approval *)

SelectAttempt ==
    /\ Step("idle")
    /\ \E a \in completed : ForAttempt(a) # {} /\ selection' = a
    /\ UNCHANGED <<records, candidates, jobVars, worktrees, github, op, disturbances>>

ApproveCandidate ==
    /\ Step("idle")
    /\ \E c \in CandidateIds :
          /\ candidates[c] # NoRecord
          /\ candidates' = [candidates EXCEPT ![c].approved = TRUE]
    /\ UNCHANGED <<records, selection, jobVars, worktrees, github, op, disturbances>>

-----------------------------------------------------------------------------
(* publish *)

(* The record a publish of candidate c works on: the one of the attempt,   *)
(* under the delivery id that the candidate was built for.                 *)
PublishTargets(c) ==
    LET cand == candidates[c]
        found == RecordsOf(cand.attempt)
        copies == IF found # {} THEN {records[d] : d \in found}
                  ELSE {NewDelivery(cand.attempt)}
    IN {[id |-> cand.delivery,
         rec |-> [r EXCEPT !.candidate = c, !.bound = TRUE]] : r \in copies}

Publishable(c) == candidates[c] # NoRecord /\ candidates[c].approved

RecordedBase(r) == IF r.pull # NoId THEN r.pullBase ELSE 0

(* classify_drift.  The base branch only grows, so AHEAD does not occur; a *)
(* fetch that fails makes DIVERGED of BEHIND.                              *)
DriftMatches(r) == base = RecordedBase(r)
DriftBehind(r)  == base > RecordedBase(r) /\ worktrees[r.attempt].exists

PublishBlocked ==
    /\ Step("idle")
    /\ \E c \in CandidateIds : Publishable(c) /\
       \E t \in PublishTargets(c) :
          /\ \/ Fault
             \/ ~DriftMatches(t.rec) /\ ~DriftBehind(t.rec) /\ NoFault
          /\ Save(t.id, [t.rec EXCEPT !.state = "DELIVERY_FAILED",
                                      !.branch = NoRecord])
    /\ UNCHANGED <<candidates, selection, jobVars, worktrees, github, op>>

(* MATCH, or force: straight to the publication. *)
PublishBegin ==
    /\ Step("idle")
    /\ \E c \in CandidateIds : Publishable(c) /\
       \E t \in PublishTargets(c) :
          /\ DriftMatches(t.rec) \/ DriftBehind(t.rec)
          /\ op' = [IdleOp EXCEPT !.pc = "start", !.id = t.id, !.rec = t.rec]
    /\ UNCHANGED <<stores, jobVars, worktrees, github, disturbances>>

PublishBehind ==
    /\ Step("idle")
    /\ \E c \in CandidateIds : Publishable(c) /\
       \E t \in PublishTargets(c) :
          /\ DriftBehind(t.rec)
          /\ op' = [IdleOp EXCEPT !.pc = "rebase", !.id = t.id, !.rec = t.rec]
    /\ UNCHANGED <<stores, jobVars, worktrees, github, disturbances>>

(* The gate after the rebase is a preflight of what the request named, not *)
(* of the candidate's attempt.  A name that does not resolve, a fetch that *)
(* fails or a dirty worktree ends the request.                             *)
SafeRebase ==
    LET a == op.rec.attempt IN
    /\ Step("rebase")
    /\ worktrees' = [worktrees EXCEPT ![a].head = base]
    /\ \/ Finish
       \/ \E t \in Known \cup ByJob :
             op' = [IdleOp EXCEPT !.pc = "gate", !.id = t.id, !.rec = t.rec,
                                  !.outer = [id |-> op.id, rec |-> op.rec]]
    /\ UNCHANGED <<stores, jobVars, github, disturbances>>

RebaseFails ==
    /\ Step("rebase")
    /\ Finish
    /\ UNCHANGED <<stores, jobVars, worktrees, github, disturbances>>

PublishStart ==
    LET r == [op.rec EXCEPT !.state = "PUBLISHING"] IN
    /\ Step("start")
    /\ Save(op.id, r)
    /\ op' = [op EXCEPT !.pc = "look",
                        !.rec = [r EXCEPT !.branch = BranchName(op.id, r.attempt)]]
    /\ UNCHANGED <<candidates, selection, jobVars, worktrees, github, disturbances>>

PublishFails ==
    /\ Save(op.id, [op.rec EXCEPT !.state = "DELIVERY_FAILED"])
    /\ Finish
    /\ UNCHANGED <<candidates, selection>>

(* find_pr and remote_branch_sha take every failure for "not there". *)
AdoptPull ==
    /\ Step("look")
    /\ \E n \in OpenPulls(op.rec.branch) :
          op' = [op EXCEPT !.pc = "record", !.rec.pull = n,
                           !.rec.pullBase = pulls[n].base]
    /\ UNCHANGED <<stores, jobVars, worktrees, github, disturbances>>

(* The remote branch is compared with the tree of HEAD, which is never the *)
(* id of a commit: any branch that is there is unexpected.                 *)
UnexpectedBranch ==
    /\ Step("look")
    /\ remote[op.rec.branch] # NoRecord
    /\ IF OpenPulls(op.rec.branch) = {} THEN NoFault ELSE Fault
    /\ PublishFails
    /\ UNCHANGED <<jobVars, worktrees, github>>

NothingRemote ==
    /\ Step("look")
    /\ IF remote[op.rec.branch] = NoRecord /\ OpenPulls(op.rec.branch) = {}
       THEN NoFault ELSE Fault
    /\ op' = [op EXCEPT !.pc = "check"]
    /\ UNCHANGED <<stores, jobVars, worktrees, github>>

CandidateStale ==
    /\ Step("check")
    /\ CheckStale(op.rec.candidate)
    /\ PublishFails
    /\ UNCHANGED <<jobVars, worktrees, github, disturbances>>

CandidateFresh ==
    /\ Step("check")
    /\ ~CheckStale(op.rec.candidate)
    /\ op' = [op EXCEPT !.pc = "commit"]
    /\ UNCHANGED <<stores, jobVars, worktrees, github, disturbances>>

CommitCandidate ==
    /\ Step("commit")
    /\ op' = [op EXCEPT !.pc = "push",
                        !.commit = [attempt |-> op.rec.attempt,
                                    tree |-> CommitTree(op.rec.candidate)]]
    /\ UNCHANGED <<stores, jobVars, worktrees, github, disturbances>>

(* A push without force creates a branch and never moves one: every commit *)
(* of a candidate is a new child of the base.                              *)
PushBranch ==
    /\ Step("push")
    /\ remote[op.rec.branch] = NoRecord
    /\ remote' = [remote EXCEPT ![op.rec.branch] = op.commit]
    /\ \/ NoFault /\ op' = [op EXCEPT !.pc = "create"]
       \/ Fault /\ Finish
    /\ UNCHANGED <<stores, jobVars, worktrees, base, pulls>>

PushFails ==
    /\ Step("push")
    /\ IF remote[op.rec.branch] = NoRecord THEN Fault ELSE NoFault
    /\ Finish
    /\ UNCHANGED <<stores, jobVars, worktrees, github>>

(* The next number; none when the bound is reached, and then the call fails. *)
NextPull ==
    {n \in PullNumbers : /\ pulls[n] = NoRecord
                         /\ \A k \in 1..(n - 1) : pulls[k] # NoRecord}

CreatePull ==
    LET b == op.rec.branch IN
    /\ Step("create")
    /\ remote[b] # NoRecord
    /\ OpenPulls(b) = {}
    /\ \E n \in NextPull :
          /\ pulls' = [pulls EXCEPT
                ![n] = [branch |-> b, commit |-> remote[b], state |-> "OPEN",
                        base |-> base]]
          /\ \/ /\ NoFault
                /\ op' = [op EXCEPT !.pc = "record", !.rec.pull = n,
                                    !.rec.pullBase = base]
             \/ Fault /\ Finish
    /\ UNCHANGED <<stores, jobVars, worktrees, base, remote>>

CreateFails ==
    /\ Step("create")
    /\ IF /\ remote[op.rec.branch] # NoRecord
          /\ OpenPulls(op.rec.branch) = {}
          /\ NextPull # {}
       THEN Fault ELSE NoFault
    /\ Finish
    /\ UNCHANGED <<stores, jobVars, worktrees, github>>

-----------------------------------------------------------------------------
(* sync, check_details, and the sync that ends a publish *)

Summarized(r, checks, reviews) ==
    [r EXCEPT !.checks = checks, !.reviews = reviews]

(* _sync_record: pr_view failed, or each of the other two calls may fail   *)
(* and leave the summary that the record had before.                       *)
SyncRecords(r, o) ==
    {Summarized(r, c, v) :
        c \in IF o.viewed /\ o.checks THEN Verdicts ELSE {r.checks},
        v \in IF o.viewed /\ o.reviews THEN Opinions ELSE {r.reviews}}

(* Mutants of StateFromSync: GitHub's word for a closed pull request, a    *)
(* closed one taken for a merged one, an outage not looked at.             *)
StateFromSyncRaw(view, r, available) ==
    CASE view.state \in {"MERGED", "CLOSED"} -> view.state
      [] view.merge = "DIRTY"  -> "MERGE_CONFLICT"
      [] view.merge = "BEHIND" -> "NEEDS_REBASE"
      [] r.checks = "green" /\ r.reviews = "none" /\ view.merge = "CLEAN"
                               -> "MERGE_READY"
      [] OTHER                 -> "CI_PENDING"

StateFromSyncOver(view, r, available) ==
    CASE view.state \in {"MERGED", "CLOSED"} -> "MERGED"
      [] view.merge = "BEHIND" -> "NEEDS_REBASE"
      [] r.checks = "green" /\ available -> "MERGE_READY"
      [] OTHER                 -> "CI_PENDING"

StateFromSyncKept(view, r, available) ==
    CASE view.state = "MERGED" -> "MERGED"
      [] view.state = "CLOSED" -> "PR_CLOSED"
      [] view.merge = "BEHIND" -> "NEEDS_REBASE"
      [] r.checks = "green"    -> "MERGE_READY"
      [] OTHER                 -> "CI_PENDING"

StateFromSync(view, r, available) ==
    CASE view.state = "MERGED"  -> "MERGED"
      [] view.state = "CLOSED"  -> "PR_CLOSED"
      [] view.merge = "DIRTY"   -> "MERGE_CONFLICT"
      [] view.merge = "BEHIND"  -> "NEEDS_REBASE"
      [] r.reviews = "changes"  -> "REVIEW_CHANGES_REQUESTED"
      [] r.checks = "failed"    -> "CI_FAILED"
      [] r.checks = "pending"   -> "CI_PENDING"
      [] ~available             -> "CI_PENDING"
      [] view.merge # "CLEAN"   -> "CI_PENDING"
      [] r.checks = "none"      -> "PR_OPEN"
      [] OTHER                  -> "MERGE_READY"

(* A terminal truth survives an outage. *)
StateAfterOutage(r) ==
    IF r.state \in {"MERGED", "PR_CLOSED"} THEN r.state
    ELSE StateFromSync(NoView, r, FALSE)

Outages == [viewed : BOOLEAN, checks : BOOLEAN, reviews : BOOLEAN]
NoOutage == [viewed |-> TRUE, checks |-> TRUE, reviews |-> TRUE]
Suffered(o) == IF o = NoOutage THEN NoFault ELSE Fault

(* A pull request that publish opened or found is PR_OPEN at first, never  *)
(* ready.                                                                  *)
RecordPull ==
    /\ Step("record")
    /\ \E o \in Outages :
          /\ Suffered(o)
          /\ \E r \in SyncRecords(op.rec, o) :
                Save(op.id, [r EXCEPT !.state = IF o.viewed /\ ~o.checks
                                                THEN "CI_PENDING" ELSE "PR_OPEN"])
    /\ Finish
    /\ UNCHANGED <<candidates, selection, jobVars, worktrees, github>>

(* pr_view of a sync or a check_details request. *)
SyncBegin ==
    /\ Step("idle")
    /\ \E t \in Known \cup ByJob, pc \in {"sync", "details"} :
          /\ t.rec.pull # NoId
          /\ \/ /\ NoFault
                /\ \E m \in MergeStates :
                      op' = [IdleOp EXCEPT
                               !.pc = pc, !.id = t.id, !.rec = t.rec,
                               !.view = [state |-> pulls[t.rec.pull].state,
                                         merge |-> m]]
             \/ /\ Fault
                /\ op' = [IdleOp EXCEPT !.pc = pc, !.id = t.id, !.rec = t.rec]
    /\ UNCHANGED <<stores, jobVars, worktrees, github>>

(* The outage of pr_view was decided when the request began. *)
SyncOutages == {o \in Outages : o.viewed = (op.view # NoView)}

Synced(o) ==
    {[r EXCEPT !.state =
         IF o.viewed THEN StateFromSync(op.view, r, o.checks /\ o.reviews)
         ELSE StateAfterOutage(op.rec)] : r \in SyncRecords(op.rec, o)}

SyncEnd ==
    /\ Step("sync")
    /\ \E o \in SyncOutages :
          /\ o.viewed => Suffered(o)
          /\ ~o.viewed => NoFault
          /\ \E r \in Synced(o) :
                Save(op.id, [r EXCEPT !.pullBase =
                                IF o.viewed THEN pulls[r.pull].base ELSE @])
    /\ Finish
    /\ UNCHANGED <<candidates, selection, jobVars, worktrees, github>>

DetailsEnd ==
    /\ Step("details")
    /\ \E o \in SyncOutages :
          /\ o.viewed => Suffered(o)
          /\ ~o.viewed => NoFault
          /\ \E r \in Synced(o) : Save(op.id, r)
    /\ Finish
    /\ UNCHANGED <<candidates, selection, jobVars, worktrees, github>>

-----------------------------------------------------------------------------
(* cleanup *)

PreservedStates == {"NOT_READY", "NEEDS_REBASE", "MERGE_CONFLICT",
                    "DELIVERY_FAILED"}

(* Only a record that publish has bound names a worktree. *)
CleanupOf(t) ==
    /\ worktrees' = IF t.rec.bound
                    THEN [worktrees EXCEPT ![t.rec.attempt].exists = FALSE]
                    ELSE worktrees
    /\ Save(t.id, t.rec)
    /\ UNCHANGED <<candidates, selection, jobVars, github, op, disturbances>>

SafeCleanup ==
    /\ Step("idle")
    /\ \E t \in Known \cup ByJob :
          t.rec.state \notin PreservedStates /\ CleanupOf(t)

UnsafeCleanup ==
    /\ Step("idle")
    /\ \E t \in Known \cup ByJob : CleanupOf(t)

-----------------------------------------------------------------------------
(* The world around the delivery domain *)

MergePull ==
    /\ \E n \in PullNumbers :
          /\ pulls[n] # NoRecord /\ pulls[n].state = "OPEN"
          /\ pulls' = [pulls EXCEPT ![n].state = "MERGED"]
    /\ base < MaxBase /\ base' = base + 1
    /\ UNCHANGED <<stores, jobVars, worktrees, remote, op, disturbances>>

ClosePull ==
    /\ \E n \in PullNumbers :
          /\ pulls[n] # NoRecord /\ pulls[n].state = "OPEN"
          /\ pulls' = [pulls EXCEPT ![n].state = "CLOSED"]
    /\ UNCHANGED <<stores, jobVars, worktrees, base, remote, op, disturbances>>

DeleteTaskBranch ==
    /\ \E b \in BranchNames :
          /\ remote[b] # NoRecord /\ OpenPulls(b) = {}
          /\ \E n \in PullNumbers : pulls[n] # NoRecord /\ pulls[n].branch = b
          /\ remote' = [remote EXCEPT ![b] = NoRecord]
    /\ UNCHANGED <<stores, jobVars, worktrees, base, pulls, op, disturbances>>

MoveBase ==
    /\ base < MaxBase /\ base' = base + 1
    /\ UNCHANGED <<stores, jobVars, worktrees, remote, pulls, op, disturbances>>

EditWorktree ==
    /\ Step("idle") \/ LateEdits
    /\ Disturb("edit")
    /\ \E a \in DeliverableAttempts, f \in Files :
          /\ worktrees[a].exists
          /\ worktrees' = [worktrees EXCEPT ![a].dirty[f] = 2]
    /\ UNCHANGED <<stores, jobVars, github, op>>

(* A run of the job completes.  It leaves its changes in the worktree, and *)
(* possibly commits.                                                       *)
RunCompletes ==
    /\ ~jobDone /\ jobDone' = TRUE
    /\ \E a \in DeliverableAttempts \ completed,
          committed \in IF HarnessCommits THEN [Files -> 0..1] ELSE {Unchanged},
          dirty \in [Files -> 0..1] :
          /\ completed' = completed \cup {a}
          /\ worktrees' = [worktrees EXCEPT
                ![a] = [exists |-> TRUE, head |-> base,
                        committed |-> committed, dirty |-> dirty]]
    /\ UNCHANGED <<stores, github, op, disturbances>>

(* A retry reopens the job until the new attempt is completed. *)
RetryReopens ==
    /\ completed # DeliverableAttempts
    /\ jobDone /\ jobDone' = FALSE
    /\ UNCHANGED <<stores, completed, worktrees, github, op, disturbances>>

DeliveryCrash ==
    /\ Disturb("crash")
    /\ ~Step("idle")
    /\ Finish
    /\ UNCHANGED <<stores, jobVars, worktrees, github>>

DeliveryNext ==
    \/ PreflightBegin \/ Gate \/ BuildCandidate \/ BuildRefused
    \/ PreflightPersist \/ PreflightResult
    \/ SelectAttempt \/ ApproveCandidate
    \/ PublishBlocked \/ PublishBegin \/ PublishBehind
    \/ SafeRebase \/ RebaseFails \/ PublishStart
    \/ AdoptPull \/ UnexpectedBranch \/ NothingRemote
    \/ CandidateStale \/ CandidateFresh \/ CommitCandidate
    \/ PushBranch \/ PushFails \/ CreatePull \/ CreateFails
    \/ RecordPull \/ SyncBegin \/ SyncEnd \/ DetailsEnd
    \/ SafeCleanup \/ UnsafeCleanup
    \/ MergePull \/ ClosePull \/ DeleteTaskBranch
    \/ MoveBase \/ EditWorktree \/ RunCompletes \/ RetryReopens
    \/ DeliveryCrash

DeliverySpec == DeliveryInit /\ [][DeliveryNext]_deliveryVars

-----------------------------------------------------------------------------
(* Properties *)

(* The records of both stores and of GitHub have their shapes, and an      *)
(* operation in flight works on a record.                                  *)
DeliveryTypeOK ==
    /\ records \in [DeliveryIds -> DeliveryRecord \cup {NoRecord}]
    /\ candidates \in [CandidateIds -> CandidateRecord \cup {NoRecord}]
    /\ selection \in DeliverableAttempts \cup {NoRecord}
    /\ completed \subseteq DeliverableAttempts
    /\ jobDone \in BOOLEAN
    /\ worktrees \in [DeliverableAttempts -> WorktreeRecord]
    /\ base \in 0..MaxBase
    /\ remote \in [BranchNames -> Commits \cup {NoRecord}]
    /\ pulls \in [PullNumbers -> PullRecord \cup {NoRecord}]
    /\ op.pc \in OpSteps
    /\ op.pc # "idle" => op.id \in DeliveryIds /\ op.rec \in DeliveryRecord
    /\ disturbances \in 0..MaxDisturbances

(* What GitHub shows is a behaviour of Publication: a content is what one  *)
(* attempt's branch carries, and a human approves the manifest of a        *)
(* candidate.  So nothing but an approved manifest is ever pushed, a       *)
(* branch is written once, and a pull request is opened on an existing     *)
(* branch that has none, whatever fails or dies in between.                *)
PublicationOfDeliveries == INSTANCE Publication WITH
    Contents  <- Commits,
    Branches  <- BranchNames,
    Numbers   <- PullNumbers,
    NoContent <- NoRecord,
    NoPull    <- NoRecord,
    approved  <- {[attempt |-> candidates[c].attempt,
                   tree |-> candidates[c].files] :
                     c \in {x \in CandidateIds : Publishable(x)}},
    branch    <- remote,
    pull      <- [n \in PullNumbers |->
                    IF pulls[n] = NoRecord THEN NoRecord
                    ELSE [branch |-> pulls[n].branch,
                          content |-> pulls[n].commit,
                          open |-> pulls[n].state = "OPEN"]]

PublishesOnlyApproved == PublicationOfDeliveries!PublicationSpec

(* Publishing is idempotent: repeated publishes of an attempt, also of a   *)
(* newer candidate of it, never leave two open pull requests.  A crash     *)
(* between the two stores gives an attempt a second delivery id, so this   *)
(* is about undisturbed histories.                                         *)
OneOpenPullPerAttempt ==
    disturbances = 0 =>
        \A m, n \in PullNumbers :
            (/\ pulls[m] # NoRecord /\ pulls[m].state = "OPEN"
             /\ pulls[n] # NoRecord /\ pulls[n].state = "OPEN"
             /\ pulls[m].commit.attempt = pulls[n].commit.attempt) => m = n

Ready(d) == records[d] # NoRecord /\ records[d].state = "MERGE_READY"
Synchronizes(d) == (SyncEnd \/ DetailsEnd) /\ op.id = d

(* MERGE_READY is never guessed: a sync or details request that calls a    *)
(* delivery ready, or leaves it so, got all its answers from GitHub, and   *)
(* they were an open pull request that can be merged, green checks and no  *)
(* changes requested.  Summaries kept from before an outage do not count.  *)
MergeReadyIsFresh ==
    [][\A d \in DeliveryIds :
          (Ready(d)' /\ ~(Ready(d) /\ ~Synchronizes(d))) =>
             /\ Synchronizes(d)
             /\ disturbances' = disturbances
             /\ op.view = [state |-> "OPEN", merge |-> "CLEAN"]
             /\ records'[d].checks = "green"
             /\ records'[d].reviews = "none"]_deliveryVars

(* A delivery is MERGED only when its own pull request is, through         *)
(* preflights, second publishes, outages and restarts.                     *)
MergedIsTrue ==
    \A d \in DeliveryIds :
        (records[d] # NoRecord /\ records[d].state = "MERGED") =>
            /\ records[d].pull # NoId
            /\ pulls[records[d].pull] # NoRecord
            /\ pulls[records[d].pull].state = "MERGED"

=============================================================================

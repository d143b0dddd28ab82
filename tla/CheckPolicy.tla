---------------------------- MODULE CheckPolicy ----------------------------
(***************************************************************************)
(* How a pull request becomes ready: required_status_checks and            *)
(* list_checks of github_provider.py, _checks_summary, _reviews_summary    *)
(* and the part of _state_from_sync in delivery_service.py that reads      *)
(* them.  GitHub answers with a heap of rows: check runs of apps, reruns,  *)
(* legacy commit statuses, reviews; a policy names the contexts that must  *)
(* be green and who may report them.                                       *)
(***************************************************************************)
EXTENDS Naturals

CONSTANTS
    Contexts,       \* names of checks, in lower case
    Apps,           \* GitHub Apps that report check runs
    NoApp,          \* of a legacy status, or a run that names no App
    Reviewers,
    MaxRows,        \* bound: rows GitHub may hold
    MaxReviews      \* bound: reviews given

ASSUME CheckAssumption ==
    NoApp \notin Apps /\ MaxRows \in Nat /\ MaxReviews \in Nat

VARIABLES
    policy,         \* the required status checks of the base branch
    rows,           \* the check runs and statuses of the head commit
    reviews         \* all reviews of the pull request

checkVars == <<policy, rows, reviews>>

(* A binding says who may report a context: anybody, any App, one App. *)
Bindings     == {"legacy-ok", "any-app"} \cup Apps
Requirements == [context : Contexts, binding : Bindings]

(* GitHub's many statuses and conclusions fall into these classes.  A      *)
(* queued run has not started and sorts before every started one.          *)
Outcomes == {"success", "failure", "other"}
Row == [id : 1..MaxRows, name : Contexts, app : Apps \cup {NoApp},
        legacy : BOOLEAN, started : 0..MaxRows, completed : BOOLEAN,
        outcome : Outcomes]

Decisions == {"APPROVED", "CHANGES_REQUESTED", "COMMENTED", "DISMISSED"}
Review    == [at : 1..MaxReviews, author : Reviewers, decision : Decisions]

CheckInit == policy = {} /\ rows = {} /\ reviews = {}

-----------------------------------------------------------------------------
(* list_checks: the requirements a row satisfies, and those nobody reports *)

Satisfies(row, req) ==
    /\ row.name = req.context
    /\ \/ req.binding = "legacy-ok"
       \/ /\ ~row.legacy /\ row.app # NoApp
          /\ req.binding \in {"any-app", row.app}

Required(row) == \E req \in policy : Satisfies(row, req)

Missing ==
    {req \in policy : \A row \in rows : ~Satisfies(row, req)}

(* Mutant of Supersedes: a run in flight has no precedence. *)
SupersedesByStart(new, old) ==
    /\ new.name = old.name /\ new.app = old.app
    /\ \/ new.started > old.started
       \/ new.started = old.started /\ new.id > old.id

(* _checks_summary: one row for every name and App.  A run in flight wins  *)
(* over a completed one, and otherwise the one started last.               *)
Supersedes(new, old) ==
    /\ new.name = old.name /\ new.app = old.app
    /\ IF new.completed = old.completed
       THEN \/ new.started > old.started
            \/ new.started = old.started /\ new.id > old.id
       ELSE ~new.completed

Latest == {row \in rows : \A other \in rows : ~Supersedes(other, row)}

Failure(row) == row.completed /\ row.outcome = "failure"
Success(row) == row.completed /\ row.outcome = "success"

(* A failure of an optional check counts as well; a policy without any row *)
(* is a queued row that misses everything.                                 *)
ChecksVerdict ==
    CASE \E row \in Latest : Failure(row)                  -> "failed"
      [] \/ \E row \in Latest : Required(row) /\ ~Success(row)
         \/ Missing # {}                                   -> "pending"
      [] \A row \in Latest : ~Required(row)                -> "none"
      [] OTHER                                             -> "green"

(* _reviews_summary: the last review of every author. *)
LastReviews ==
    {r \in reviews : \A s \in reviews : s.author = r.author => s.at <= r.at}

ReviewsVerdict ==
    IF \E r \in LastReviews : r.decision = "CHANGES_REQUESTED"
    THEN "changes" ELSE "none"

(* _state_from_sync of an open, mergeable pull request. *)
MergeReady == ReviewsVerdict = "none" /\ ChecksVerdict = "green"

-----------------------------------------------------------------------------
(* GitHub *)

FreshRow == {n \in 1..MaxRows : \A row \in rows : row.id < n}
NewRow   == {n \in FreshRow : \A m \in FreshRow : n <= m}
LastStart == {s \in 0..MaxRows : /\ \A row \in rows : row.started <= s
                                 /\ s = 0 \/ \E row \in rows : row.started = s}

SetPolicy ==
    /\ rows = {}
    /\ \E req \in Requirements :
          policy' = IF req \in policy THEN policy \ {req} ELSE policy \cup {req}
    /\ UNCHANGED <<rows, reviews>>

QueueRun ==
    /\ \E n \in NewRow, c \in Contexts, a \in Apps \cup {NoApp} :
          rows' = rows \cup {[id |-> n, name |-> c, app |-> a, legacy |-> FALSE,
                              started |-> 0, completed |-> FALSE,
                              outcome |-> "other"]}
    /\ UNCHANGED <<policy, reviews>>

StartRun ==
    /\ \E row \in rows, s \in LastStart :
          /\ ~row.completed /\ row.started = 0
          /\ s < MaxRows
          /\ rows' = (rows \ {row}) \cup {[row EXCEPT !.started = s + 1]}
    /\ UNCHANGED <<policy, reviews>>

CompleteRun ==
    /\ \E row \in rows, o \in Outcomes :
          /\ ~row.completed
          /\ rows' = (rows \ {row}) \cup
                     {[row EXCEPT !.completed = TRUE, !.outcome = o]}
    /\ UNCHANGED <<policy, reviews>>

(* A legacy status is a completed row, whatever it says. *)
PostStatus ==
    /\ \E n \in NewRow, c \in Contexts, s \in LastStart, o \in Outcomes :
          /\ s < MaxRows
          /\ rows' = rows \cup {[id |-> n, name |-> c, app |-> NoApp,
                                 legacy |-> TRUE, started |-> s + 1,
                                 completed |-> TRUE, outcome |-> o]}
    /\ UNCHANGED <<policy, reviews>>

GiveReview ==
    /\ \E n \in 1..MaxReviews, p \in Reviewers, d \in Decisions :
          /\ \A r \in reviews : r.at < n
          /\ \A m \in 1..(n - 1) : \E r \in reviews : r.at = m
          /\ reviews' = reviews \cup {[at |-> n, author |-> p, decision |-> d]}
    /\ UNCHANGED <<policy, rows>>

CheckNext ==
    \/ SetPolicy \/ QueueRun \/ StartRun \/ CompleteRun \/ PostStatus
    \/ GiveReview

CheckSpec == CheckInit /\ [][CheckNext]_checkVars

-----------------------------------------------------------------------------
(* Properties *)

(* What GitHub shows has its shape, and row ids are keys. *)
CheckTypeOK ==
    /\ policy \subseteq Requirements
    /\ rows \subseteq Row
    /\ reviews \subseteq Review
    /\ \A r, s \in rows : r.id = s.id => r = s

(* The word of a producer: nobody of this name and App is running, and the *)
(* run started last succeeded.                                             *)
Green(row) ==
    /\ Success(row)
    /\ \A other \in rows :
          (other.name = row.name /\ other.app = row.app) =>
             /\ other.completed
             /\ other.started <= row.started

(* Ready means that every requirement of the policy is met by a producer   *)
(* it accepts, that no producer it accepts says anything but success or is *)
(* still running, a rerun included, and that no reviewer's last word is a  *)
(* change request.  An older success, a run of another App or a status     *)
(* posted in place of a run never counts.                                  *)
ReadyIsJustified ==
    MergeReady =>
        /\ \A req \in policy :
              /\ \E row \in rows : Satisfies(row, req) /\ Green(row)
              /\ \A row \in rows :
                    Satisfies(row, req) =>
                       /\ row.completed
                       /\ \E last \in rows :
                             /\ last.name = row.name /\ last.app = row.app
                             /\ Green(last)
        /\ policy # {}
        /\ \A r \in reviews :
              r.decision = "CHANGES_REQUESTED" =>
                 \E s \in reviews : s.author = r.author /\ s.at > r.at

=============================================================================

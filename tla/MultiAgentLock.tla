--------------------------- MODULE MultiAgentLock ---------------------------
(***************************************************************************)
(* skills/multi-agent-lock: agents claim files, directories and patterns   *)
(* by writing one file per lock into a shared directory.  Each agent runs  *)
(* in a process of its own and a claim holds nothing between the moment it *)
(* reads the other locks and the moment it writes its own.                 *)
(***************************************************************************)
EXTENDS Naturals

CONSTANTS
    Lockers,
    Paths,          \* files and directories that may be claimed
    Inside,         \* pairs of a path and a directory that contains it;
                    \* what contains a path is nested: directories are a tree
    Patterns,       \* glob patterns that may be claimed
    Matches,        \* pairs of a path or pattern and a pattern it matches
    MaxLocks        \* bound: lock files ever written

ASSUME LockAssumption ==
    /\ Inside \subseteq Paths \X Paths
    /\ \A p, d, e \in Paths :
          {<<p, d>>, <<p, e>>} \subseteq Inside =>
              d = e \/ <<d, e>> \in Inside \/ <<e, d>> \in Inside
    /\ Matches \subseteq (Paths \cup Patterns) \X Patterns
    /\ MaxLocks \in Nat

VARIABLES
    lockFiles,      \* the lock files, expired ones included
    written,        \* how many were ever written: the clock of claims
    claim           \* what every agent is claiming

lockVars == <<lockFiles, written, claim>>

LockScopes == {"FILE", "DIRECTORY", "PATTERN"}
Claimable(scope) == IF scope = "PATTERN" THEN Patterns ELSE Paths

(* id numbers the locks in the order they were written; checked is the     *)
(* number of locks that had been written when its claim read them.         *)
Lock == [id : 1..MaxLocks, agent : Lockers, path : Paths \cup Patterns,
         scope : LockScopes, expired : BOOLEAN, checked : 0..MaxLocks]

NoClaim == [path |-> "none", scope |-> "FILE", checked |-> 0, busy |-> FALSE]

LockInit ==
    /\ lockFiles = {}
    /\ written = 0
    /\ claim = [a \in Lockers |-> NoClaim]

(* Mutant of PathsConflict: only a lock above the path conflicts with it. *)
PathsConflictAbove(path, lock) ==
    \/ path = lock.path
    \/ lock.scope = "DIRECTORY" /\ <<path, lock.path>> \in Inside
    \/ lock.scope = "PATTERN" /\ <<path, lock.path>> \in Matches

(* _paths_conflict: what is asked is compared with the scope of the lock   *)
(* that is there, whatever scope is asked for.                             *)
PathsConflict(path, lock) ==
    \/ /\ lock.scope = "FILE"
       /\ path = lock.path \/ <<lock.path, path>> \in Inside
    \/ /\ lock.scope = "DIRECTORY"
       /\ \/ path = lock.path
          \/ <<path, lock.path>> \in Inside
          \/ <<lock.path, path>> \in Inside
    \/ /\ lock.scope = "PATTERN"
       /\ \/ path = lock.path
          \/ <<path, lock.path>> \in Matches
          \/ <<lock.path, path>> \in Matches

Active == {lock \in lockFiles : ~lock.expired}

CheckConflicts(path, agent) ==
    {lock \in Active : lock.agent # agent /\ PathsConflict(path, lock)}

(* claim_file up to the verdict of check_conflicts.  Expired files are     *)
(* removed first; a conflict is an exception, and nothing else changes.    *)
CheckClaim(a) ==
    /\ ~claim[a].busy
    /\ lockFiles' = Active
    /\ \E scope \in LockScopes : \E path \in Claimable(scope) :
          claim' = IF CheckConflicts(path, a) = {}
                   THEN [claim EXCEPT ![a] = [path |-> path, scope |-> scope,
                                              checked |-> written, busy |-> TRUE]]
                   ELSE claim
    /\ UNCHANGED written

SaveLock(a) ==
    /\ claim[a].busy
    /\ written < MaxLocks
    /\ written' = written + 1
    /\ lockFiles' = lockFiles \cup
          {[id |-> written + 1, agent |-> a, path |-> claim[a].path,
            scope |-> claim[a].scope, expired |-> FALSE,
            checked |-> claim[a].checked]}
    /\ claim' = [claim EXCEPT ![a] = NoClaim]

(* release_lock does not ask whose lock it is. *)
ReleaseLock ==
    /\ \E lock \in lockFiles : lockFiles' = lockFiles \ {lock}
    /\ UNCHANGED <<written, claim>>

ReleaseAgentLocks(a) ==
    /\ lockFiles' = {lock \in lockFiles : lock.agent # a}
    /\ UNCHANGED <<written, claim>>

(* get_active_locks, is_locked, get_agent_locks *)
ListLocks ==
    /\ lockFiles' = Active
    /\ UNCHANGED <<written, claim>>

LockExpires ==
    /\ \E lock \in Active :
          lockFiles' = (lockFiles \ {lock}) \cup {[lock EXCEPT !.expired = TRUE]}
    /\ UNCHANGED <<written, claim>>

AgentDies(a) ==
    /\ claim[a].busy
    /\ claim' = [claim EXCEPT ![a] = NoClaim]
    /\ UNCHANGED <<lockFiles, written>>

LockNext ==
    \/ \E a \in Lockers : \/ CheckClaim(a) \/ SaveLock(a)
                         \/ ReleaseAgentLocks(a) \/ AgentDies(a)
    \/ ReleaseLock \/ ListLocks \/ LockExpires

LockSpec == LockInit /\ [][LockNext]_lockVars

-----------------------------------------------------------------------------
(* Properties *)

(* Lock files are well formed and were written by a claim. *)
LockTypeOK ==
    /\ lockFiles \subseteq Lock
    /\ written \in 0..MaxLocks
    /\ \A lock \in lockFiles : lock.id <= written /\ lock.checked < lock.id
    /\ claim \in [Lockers -> [path : Paths \cup Patterns \cup {"none"},
                             scope : LockScopes, checked : 0..MaxLocks,
                             busy : BOOLEAN]]

(* The files two locks stand for have one in common, as the scopes say.    *)
Covers(lock, p) ==
    \/ lock.path = p
    \/ lock.scope = "DIRECTORY" /\ <<p, lock.path>> \in Inside
    \/ lock.scope = "PATTERN" /\ <<p, lock.path>> \in Matches

Overlap(lock, other) == \E p \in Paths : Covers(lock, p) /\ Covers(other, p)

(* A claim of a file excludes every earlier lock of another agent that     *)
(* covers it, and a claim of a directory every earlier file and directory  *)
(* lock - unless the claim had read the locks before the earlier one was   *)
(* written.  Claims of patterns, and directories against patterns, are     *)
(* compared as strings and exclude nothing.                                *)
LocksExclude ==
    \A lock, other \in Active :
        (/\ lock.agent # other.agent
         /\ lock.id < other.id
         /\ other.scope = "FILE"
            \/ (other.scope = "DIRECTORY" /\ lock.scope # "PATTERN")
         /\ Overlap(lock, other))
            => other.checked < lock.id
=============================================================================

------------------------- MODULE ControlPlaneProofs -------------------------
EXTENDS ControlPlane, FiniteSetTheorems, WellFoundedInduction, TLAPS

(* Every nonempty set of natural numbers has a least element. *)
LEMMA LeastNumber ==
    ASSUME NEW S \in SUBSET Nat, S # {}
    PROVE  \E m \in S : \A n \in S : m <= n
<1> DEFINE R == OpToRel(<, Nat)
<1>1. \E m \in S : \A n \in S : ~ (<<n, m>> \in R)
  <2>1. IsWellFoundedOn(R, Nat)
    BY NatLessThanWellFounded
  <2> HIDE DEF R
  <2> QED BY <2>1, WFMin
<1>2. \A m, n \in S : n < m => <<n, m>> \in R
  BY DEF OpToRel
<1> HIDE DEF R
<1>3. \A m, n \in S : ~ (n < m) => m <= n
  OBVIOUS
<1> QED BY <1>1, <1>2, <1>3

(* First picks an element of the snapshot. *)
LEMMA FirstIn ==
    ASSUME NEW S \in SUBSET Sessions, S # {}
    PROVE  First(S) \in S
<1>1. S \in SUBSET Nat
  BY QueueAssumption DEF Sessions
<1>2. \E m \in S : \A n \in S : m <= n
  BY <1>1, LeastNumber
<1> QED BY <1>2 DEF First

(* HeadOf picks an entry of the snapshot of a pass. *)
LEMMA HeadIn ==
    ASSUME NEW Q \in SUBSET QueueEntry, Q # {}
    PROVE  HeadOf(Q) \in Q
<1> DEFINE S == {q.created : q \in Q}
<1>1. S \in SUBSET Nat /\ S # {}
  BY DEF QueueEntry
<1>2. PICK m \in S : \A n \in S : m <= n
  <2> HIDE DEF S
  <2> QED BY <1>1, LeastNumber
<1>3. \E q \in Q : \A r \in Q : q.created <= r.created
  BY <1>2
<1> QED BY <1>3 DEF HeadOf

-----------------------------------------------------------------------------
(* What every record the threads read or save has besides its type.        *)

Known(rec) == rec.state # "ABSENT" /\ rec.job \in Jobs

Bound(rec) ==
    /\ rec.attempt \in Attempts
    /\ attempts[rec.attempt].state # "ABSENT"

QueueOK ==
    /\ QueueTypeOK
    /\ \A a \in Attempts : attempts[a].state # "ABSENT" => Known(attempts[a])
    /\ \A a \in Attempts : attempts[a].held => attempts[a].state # "ABSENT"

SessionOK ==
    /\ SessionTypeOK
    /\ \A s \in Sessions : sessions[s].state # "ABSENT" => Bound(sessions[s])

DispatchOK ==
    /\ DispatchTypeOK
    /\ disp.pc \in {"examine", "claim"} => disp.queue # {}
    /\ disp.pc \notin {"idle", "examine", "claim"} =>
          /\ disp.cur \in Attempts
          /\ attempts[disp.cur].state # "ABSENT"
          /\ disp.pc # "load" => Known(disp.att)
    /\ disp.pc \in {"register", "bind"} => disp.session \in Sessions

MonitorOK ==
    /\ MonitorTypeOK
    /\ mon.pc # "idle" => mon.todo # {}
    /\ \A s \in mon.todo : Bound(mon.snap[s])
    /\ mon.pc \in {"ended", "kill", "final", "attempt", "readJob", "writeJob"}
          => Known(mon.att)

ControlPCs == RpcPCs \ {"idle", "submitAttempt", "submitQueue",
                        "retryAttempt", "retryJob", "retryQueue"}

RpcOK ==
    /\ RpcTypeOK
    /\ rpc.pc \in {"submitAttempt", "submitQueue", "retryAttempt",
                   "retryJob", "retryQueue"} => rpc.jid \in Jobs
    /\ rpc.pc \in {"submitAttempt", "submitQueue", "retryJob", "retryQueue"}
          => rpc.aid \in Attempts
    /\ rpc.pc \in {"submitQueue", "retryJob", "retryQueue", "markAttempt",
                   "markJobRead", "markJob"} => Known(rpc.att)
    /\ rpc.pc \in ControlPCs => rpc.todo # {}
    /\ \A s \in rpc.todo : Bound(rpc.snap[s])

(* No attempt disappears from the store. *)
Kept == \A a \in Attempts :
            attempts[a].state # "ABSENT" => attempts'[a].state # "ABSENT"

(* A whole known record was saved. *)
LEMMA AttemptSaved ==
    ASSUME QueueOK, NEW a \in Attempts, NEW rec \in AttemptRecord, Known(rec),
           SaveAttempt(a, rec), jobs' = jobs, clock' \in Nat
    PROVE  QueueOK' /\ Kept
BY DEF QueueOK, QueueTypeOK, SaveAttempt, Kept, Known

LEMMA JobSaved ==
    ASSUME QueueOK, NEW j, NEW rec \in JobRecord,
           SaveJob(j, rec), UNCHANGED <<attempts, clock>>
    PROVE  QueueOK' /\ Kept
BY DEF QueueOK, QueueTypeOK, SaveJob, Kept, Known

LEMMA QueueKept ==
    ASSUME QueueOK, UNCHANGED queueVars
    PROVE  QueueOK' /\ Kept
BY DEF QueueOK, QueueTypeOK, queueVars, Kept, Known

LEMMA SessionsKept ==
    ASSUME SessionOK, Kept, UNCHANGED sessionVars
    PROVE  SessionOK'
BY DEF SessionOK, SessionTypeOK, sessionVars, Kept, Bound

LEMMA SessionSaved ==
    ASSUME SessionOK, Kept, NEW s, NEW rec \in SessionRecord, Bound(rec),
           SaveSession(s, rec),
           UNCHANGED <<procs, adapter, reused, overdue, events, foreignHit>>
    PROVE  SessionOK'
BY DEF SessionOK, SessionTypeOK, SaveSession, Kept, Bound

-----------------------------------------------------------------------------
(* The dispatcher *)

(* Where the loop over the snapshot goes on. *)
LEMMA NextEntryOK ==
    ASSUME NEW Q \in SUBSET QueueEntry
    PROVE  /\ NextEntry(Q) \in DispatchRecord
           /\ NextEntry(Q).pc \in {"idle", "examine"}
           /\ NextEntry(Q).pc = "examine" => NextEntry(Q).queue # {}
<1>1. AbsentAttempt \in AttemptRecord /\ AbsentJob \in JobRecord
  BY DEF AbsentAttempt, AttemptRecord, AttemptStates, AbsentJob, JobRecord,
         JobStates
<1>2. DispatchIdle \in DispatchRecord
  BY <1>1 DEF DispatchIdle, DispatchRecord, DispatchPCs
<1> QED BY <1>2 DEF NextEntry, DispatchRecord, DispatchPCs, DispatchIdle

LEMMA LoopOK ==
    ASSUME NEW Q \in SUBSET QueueEntry, disp' = NextEntry(Q),
           worktrees' \in SUBSET (Jobs \X Attempts)
    PROVE  DispatchOK'
<1>1. /\ NextEntry(Q) \in DispatchRecord
      /\ NextEntry(Q).pc \in {"idle", "examine"}
      /\ NextEntry(Q).pc = "examine" => NextEntry(Q).queue # {}
  BY NextEntryOK
<1> QED BY <1>1 DEF DispatchOK, DispatchTypeOK

(* Every step of the dispatcher keeps the store, the registry and its own  *)
(* copies well formed.                                                     *)
LEMMA DispatcherTypes ==
    ASSUME QueueOK, SessionOK, DispatchOK, DispatcherStep
    PROVE  QueueOK' /\ SessionOK' /\ DispatchOK' /\ Kept
<1>u. ASSUME UNCHANGED queueVars
      PROVE  QueueOK' /\ Kept
  BY <1>u, QueueKept
<1>s. ASSUME UNCHANGED sessionVars, Kept
      PROVE  SessionOK'
  BY <1>s, SessionsKept
<1>t. disp \in DispatchRecord /\ worktrees \in SUBSET (Jobs \X Attempts)
  BY DEF DispatchOK, DispatchTypeOK
<1>h. disp.queue # {} => HeadOf(disp.queue) \in disp.queue
  BY <1>t, HeadIn DEF DispatchRecord
<1>q. \A e : disp.queue \ {e} \in SUBSET QueueEntry
  BY <1>t DEF DispatchRecord
<1>1. CASE D_Pass
  <2>1. \A a \in Attempts :
           /\ Recovered[a] \in AttemptRecord
           /\ Recovered[a].state # "ABSENT" => Known(Recovered[a])
           /\ attempts[a].state # "ABSENT" => Recovered[a].state # "ABSENT"
           /\ Recovered[a].held => Recovered[a].state # "ABSENT"
    <3> TAKE a \in Attempts
    <3>1. attempts[a] \in AttemptRecord
      BY DEF QueueOK, QueueTypeOK
    <3>2. CASE attempts[a].state = "CLAIMED" /\ attempts[a].expired
      <4>1. Recovered[a] = Released(attempts[a])
        BY <3>2 DEF Recovered
      <4>2. Known(attempts[a])
        BY <3>2 DEF QueueOK
      <4> QED BY <3>1, <4>1, <4>2
              DEF Released, Known, AttemptRecord, AttemptStates
    <3>3. CASE ~(attempts[a].state = "CLAIMED" /\ attempts[a].expired)
      <4>1. Recovered[a] = attempts[a]
        BY <3>3 DEF Recovered
      <4> QED BY <3>1, <4>1 DEF QueueOK
    <3> QED BY <3>2, <3>3
  <2>2. QueueOK' /\ Kept
    <3>1. attempts' = [a \in Attempts |-> Recovered[a]]
      BY <1>1 DEF D_Pass, Recovered
    <3>2. jobs' = jobs /\ clock' = clock
      BY <1>1 DEF D_Pass
    <3>3. \A a \in Attempts : attempts'[a] = Recovered[a]
      BY <3>1
    <3>4. attempts' \in [Attempts -> AttemptRecord]
      BY <2>1, <3>1
    <3>5. QueueTypeOK'
      BY <3>2, <3>4 DEF QueueOK, QueueTypeOK
    <3> QED BY <2>1, <3>3, <3>5 DEF QueueOK, Kept
  <2>3. SessionOK'
    BY <1>1, <2>2, <1>s DEF D_Pass
  <2> DEFINE Q == {[id      |-> a,
                    created |-> Recovered[a].created,
                    harness |-> Harness(Recovered[a])] :
                      a \in {b \in Attempts : Recovered[b].state = "QUEUED"}}
  <2>4. \A a \in Attempts : Recovered[a].state = "QUEUED" =>
           /\ Recovered[a].created \in Nat
           /\ Harness(Recovered[a]) \in Harnesses
    BY <2>1, QueueAssumption DEF Known, AttemptRecord, Harness
  <2>5. Q \in SUBSET QueueEntry
    BY <2>4 DEF QueueEntry
  <2>6. disp' = NextEntry(Q) /\ worktrees' = worktrees
    BY <1>1 DEF D_Pass
  <2> QED BY <2>2, <2>3, <2>5, <2>6, <1>t, LoopOK
<1>2. CASE D_Skip
  BY <1>2, <1>u, <1>s, <1>t, <1>q, LoopOK DEF D_Skip
<1>3. CASE D_MayStart
  BY <1>3, <1>u, <1>s, <1>t
     DEF D_MayStart, DispatchOK, DispatchTypeOK, DispatchRecord, DispatchPCs
<1>4. CASE D_Claim
  <2> DEFINE a == HeadOf(disp.queue).id
  <2>1. a \in Attempts
    BY <1>4, <1>h, <1>t DEF D_Claim, DispatchOK, DispatchRecord, QueueEntry
  <2> HIDE DEF a
  <2>2. /\ [attempts[a] EXCEPT !.state = "CLAIMED", !.expired = FALSE]
              \in AttemptRecord
        /\ Known([attempts[a] EXCEPT !.state = "CLAIMED", !.expired = FALSE])
    BY <1>4, <2>1 DEF D_Claim, Claimable, QueueOK, QueueTypeOK, AttemptRecord,
                      AttemptStates, Known, a
  <2>3. QueueOK' /\ Kept
    BY <1>4, <2>1, <2>2, AttemptSaved DEF D_Claim, a, QueueOK, QueueTypeOK
  <2>4. SessionOK'
    BY <1>4, <2>3, <1>s DEF D_Claim
  <2>5. DispatchOK'
    BY <1>4, <2>1, <2>2, <1>t
       DEF D_Claim, SaveAttempt, a, DispatchOK, DispatchTypeOK, DispatchRecord,
           DispatchPCs, QueueOK, QueueTypeOK, Known
  <2> QED BY <2>3, <2>4, <2>5
<1>5. CASE D_ClaimRefused
  BY <1>5, <1>u, <1>s, <1>t, <1>q, LoopOK DEF D_ClaimRefused
<1>6. CASE D_Load
  <2>1. /\ attempts[disp.cur] \in AttemptRecord
        /\ Known(attempts[disp.cur])
        /\ jobs[attempts[disp.cur].job] \in JobRecord
    BY <1>6 DEF D_Load, DispatchOK, QueueOK, QueueTypeOK, Known
  <2>2. QueueOK' /\ Kept /\ SessionOK'
    BY <1>6, <1>u, <1>s DEF D_Load
  <2>3. DispatchOK'
    BY <1>6, <1>t, <2>1
       DEF D_Load, DispatchOK, DispatchTypeOK, DispatchRecord,
           DispatchPCs, queueVars, Known
  <2> QED BY <2>2, <2>3
<1>7. CASE D_NotClaimed
  BY <1>7, <1>u, <1>s, <1>t, LoopOK DEF D_NotClaimed, DispatchRecord
<1>8. CASE D_Hold
  <2> DEFINE rec == [disp.att EXCEPT !.held = TRUE]
  <2>1. rec \in AttemptRecord /\ Known(rec) /\ SaveAttempt(disp.cur, rec)
    BY <1>8, <1>t DEF D_Hold, DispatchOK, DispatchRecord, AttemptRecord,
                      AttemptStates, Known
  <2> HIDE DEF rec
  <2>2. QueueOK' /\ Kept
    BY <1>8, <2>1, AttemptSaved DEF D_Hold, DispatchOK, QueueOK, QueueTypeOK
  <2>3. SessionOK'
    BY <1>8, <2>2, <1>s DEF D_Hold
  <2>4. DispatchOK'
    BY <1>8, <2>2, <1>t
       DEF D_Hold, DispatchOK, DispatchTypeOK, DispatchRecord, DispatchPCs,
           Kept, Known, AttemptRecord, AttemptStates
  <2> QED BY <2>2, <2>3, <2>4
<1>9. CASE D_HoldRelease
  <2>1. QueueOK' /\ Kept
    <3>1. CASE attempts[disp.cur].state = "CLAIMED"
      <4>1. /\ Released(attempts[disp.cur]) \in AttemptRecord
            /\ Known(Released(attempts[disp.cur]))
        BY <1>9, <3>1
           DEF D_HoldRelease, DispatchOK, QueueOK, QueueTypeOK, Released,
               AttemptRecord, AttemptStates, Known
      <4> QED BY <1>9, <3>1, <4>1, AttemptSaved
              DEF D_HoldRelease, DispatchOK, QueueOK, QueueTypeOK
    <3>2. CASE attempts[disp.cur].state # "CLAIMED"
      BY <1>9, <3>2, QueueKept DEF D_HoldRelease, queueVars
    <3> QED BY <3>1, <3>2
  <2>2. SessionOK'
    BY <1>9, <2>1, <1>s DEF D_HoldRelease
  <2>3. DispatchOK'
    BY <1>9, <1>t, LoopOK DEF D_HoldRelease, DispatchRecord
  <2> QED BY <2>1, <2>2, <2>3
<1>10. CASE D_RepoUnavailable
  <2>1. NextEntry({}) = DispatchIdle
    BY DEF NextEntry
  <2> QED BY <1>10, <2>1, <1>u, <1>s, <1>t, LoopOK DEF D_RepoUnavailable
<1>11. CASE D_Worktree
  <2>1. disp.att.job \in Jobs /\ disp.cur \in Attempts
    BY <1>11 DEF D_Worktree, DispatchOK, Known
  <2>2. QueueOK' /\ Kept /\ SessionOK'
    BY <1>11, <1>u, <1>s DEF D_Worktree
  <2>3. DispatchOK'
    BY <1>11, <1>t, <2>1
       DEF D_Worktree, DispatchOK, DispatchTypeOK, DispatchRecord,
           DispatchPCs, queueVars, Known
  <2> QED BY <2>2, <2>3
<1>12. CASE D_WorktreeFails
  <2>2. QueueOK' /\ Kept /\ SessionOK'
    BY <1>12, <1>u, <1>s DEF D_WorktreeFails
  <2>3. DispatchOK'
    BY <1>12, <1>t
       DEF D_WorktreeFails, DispatchOK, DispatchTypeOK, DispatchRecord,
           DispatchPCs, queueVars, Known
  <2> QED BY <2>2, <2>3
<1>13. CASE D_Run
  <2> DEFINE rec == [disp.att EXCEPT !.state = "RUNNING"]
  <2>1. rec \in AttemptRecord /\ Known(rec) /\ SaveAttempt(disp.cur, rec)
    BY <1>13, <1>t DEF D_Run, DispatchOK, DispatchRecord, AttemptRecord,
                      AttemptStates, Known
  <2> HIDE DEF rec
  <2>2. QueueOK' /\ Kept
    BY <1>13, <2>1, AttemptSaved DEF D_Run, DispatchOK, QueueOK, QueueTypeOK
  <2>3. SessionOK'
    BY <1>13, <2>2, <1>s DEF D_Run
  <2>4. DispatchOK'
    BY <1>13, <2>2, <1>t
       DEF D_Run, DispatchOK, DispatchTypeOK, DispatchRecord, DispatchPCs,
           Kept, Known, AttemptRecord, AttemptStates
  <2> QED BY <2>2, <2>3, <2>4
<1>14. CASE D_StartFails
  <2>2. QueueOK' /\ Kept /\ SessionOK'
    BY <1>14, <1>u, <1>s DEF D_StartFails
  <2>3. DispatchOK'
    BY <1>14, <1>t
       DEF D_StartFails, DispatchOK, DispatchTypeOK, DispatchRecord,
           DispatchPCs, queueVars, Known
  <2> QED BY <2>2, <2>3
<1>15. CASE D_Start
  <2>1. QueueOK' /\ Kept
    BY <1>15, <1>u DEF D_Start
  <2>2. PICK s \in Sessions :
           /\ procs' = [procs EXCEPT ![s].state = "alive",
                                     ![s].attempt = disp.cur]
           /\ adapter' = adapter \cup {s}
           /\ disp' = [disp EXCEPT !.pc = "register", !.session = s]
    BY <1>15 DEF D_Start
  <2>3. SessionOK'
    <3>1. disp.cur \in Attempts
      BY <1>15 DEF D_Start, DispatchOK
    <3>2. procs' \in [Sessions -> ProcRecord]
      BY <2>2, <3>1 DEF SessionOK, SessionTypeOK, ProcRecord
    <3> QED BY <1>15, <2>1, <2>2, <3>2
            DEF D_Start, SessionOK, SessionTypeOK, Bound, Kept
  <2>4. DispatchOK'
    BY <1>15, <2>2, <1>t
       DEF D_Start, DispatchOK, DispatchTypeOK, DispatchRecord, DispatchPCs,
           queueVars
  <2> QED BY <2>1, <2>3, <2>4
<1>16. CASE D_Register
  <2>1. QueueOK' /\ Kept
    BY <1>16, <1>u DEF D_Register
  <2>2. SessionOK'
    BY <1>16, <2>1
       DEF D_Register, SessionOK, SessionTypeOK, SaveSession, SessionRecord,
           SessionStates, DispatchOK, Bound, queueVars
  <2>3. DispatchOK'
    BY <1>16, <1>t
       DEF D_Register, DispatchOK, DispatchTypeOK, DispatchRecord,
           DispatchPCs, queueVars
  <2> QED BY <2>1, <2>2, <2>3
<1>17. CASE D_Bind
  <2> DEFINE rec == [disp.att EXCEPT !.session = disp.session]
  <2>1. rec \in AttemptRecord /\ Known(rec) /\ SaveAttempt(disp.cur, rec)
    BY <1>17, <1>t DEF D_Bind, DispatchOK, DispatchRecord, AttemptRecord,
                      AttemptStates, Known
  <2> HIDE DEF rec
  <2>2. QueueOK' /\ Kept
    BY <1>17, <2>1, AttemptSaved DEF D_Bind, DispatchOK, QueueOK, QueueTypeOK
  <2>3. SessionOK'
    BY <1>17, <2>2, <1>s DEF D_Bind
  <2>4. DispatchOK'
    BY <1>17, <2>2, <1>t
       DEF D_Bind, DispatchOK, DispatchTypeOK, DispatchRecord, DispatchPCs,
           Kept, Known, AttemptRecord, AttemptStates
  <2> QED BY <2>2, <2>3, <2>4
<1>18. CASE D_JobRun
  <2>1. QueueOK' /\ Kept
    BY <1>18, <1>t, JobSaved
       DEF D_JobRun, DispatchRecord, JobRecord, JobStates
  <2> QED BY <1>18, <2>1, <1>s, <1>t, LoopOK DEF D_JobRun, DispatchRecord
<1>19. CASE D_Fail
  <2> DEFINE rec == [disp.att EXCEPT !.state = "FAILED"]
  <2>1. rec \in AttemptRecord /\ Known(rec) /\ SaveAttempt(disp.cur, rec)
    BY <1>19, <1>t DEF D_Fail, DispatchOK, DispatchRecord, AttemptRecord,
                      AttemptStates, Known
  <2> HIDE DEF rec
  <2>2. QueueOK' /\ Kept
    BY <1>19, <2>1, AttemptSaved DEF D_Fail, DispatchOK, QueueOK, QueueTypeOK
  <2>3. SessionOK'
    BY <1>19, <2>2, <1>s DEF D_Fail
  <2>4. DispatchOK'
    BY <1>19, <2>2, <1>t
       DEF D_Fail, DispatchOK, DispatchTypeOK, DispatchRecord, DispatchPCs,
           Kept, Known, AttemptRecord, AttemptStates
  <2> QED BY <2>2, <2>3, <2>4
<1>20. CASE D_FailJob
  <2>1. QueueOK' /\ Kept
    BY <1>20, <1>t, JobSaved
       DEF D_FailJob, DispatchRecord, JobRecord, JobStates
  <2> QED BY <1>20, <2>1, <1>s, <1>t, LoopOK DEF D_FailJob, DispatchRecord
<1> QED
  BY <1>1, <1>2, <1>3, <1>4, <1>5, <1>6, <1>7, <1>8, <1>9, <1>10, <1>11,
     <1>12, <1>13, <1>14, <1>15, <1>16, <1>17, <1>18, <1>19, <1>20
     DEF DispatcherStep

-----------------------------------------------------------------------------
(* The monitor *)

LEMMA NullRecords ==
    /\ AbsentAttempt \in AttemptRecord
    /\ AbsentJob \in JobRecord
    /\ AbsentSession \in SessionRecord
BY DEF AbsentAttempt, AttemptRecord, AttemptStates, NoSession, AbsentJob,
       JobRecord, JobStates, AbsentSession, SessionRecord, SessionStates

LEMMA MonitorIdleOK == MonitorIdle \in MonitorRecord
BY NullRecords
   DEF MonitorIdle, MonitorRecord, MonitorPCs, NoOutcome, Outcome,
       TerminalSessionStates, TerminalAttemptStates

(* The monitor is at work on a session of its snapshot. *)
LEMMA CurrentSession ==
    ASSUME MonitorOK, mon.pc # "idle"
    PROVE  /\ Cur \in mon.todo
           /\ Cur \in Sessions
           /\ CurSession \in SessionRecord
           /\ CurAttempt \in Attempts
           /\ attempts[CurAttempt].state # "ABSENT"
<1>1. mon.todo \in SUBSET Sessions /\ mon.snap \in [Sessions -> SessionRecord]
  BY DEF MonitorOK, MonitorTypeOK, MonitorRecord
<1>2. Cur \in mon.todo
  BY <1>1, FirstIn DEF MonitorOK, Cur
<1> QED BY <1>1, <1>2 DEF MonitorOK, Bound, CurSession, CurAttempt

(* The monitor goes on with the same session. *)
LEMMA SameSession ==
    ASSUME MonitorOK, Kept, mon.pc # "idle",
           mon' \in MonitorRecord, mon'.todo = mon.todo, mon'.snap = mon.snap,
           mon'.pc \in {"ended", "kill", "final", "attempt", "readJob",
                       "writeJob"} => Known(mon'.att),
           emitted' \in SUBSET Sessions
    PROVE  MonitorOK'
BY DEF MonitorOK, MonitorTypeOK, Bound, Kept, Known

LEMMA NextSessionOK ==
    ASSUME MonitorOK, mon.pc # "idle", Kept, mon' = NextSession,
           emitted' \in SUBSET Sessions
    PROVE  MonitorOK'
<1>1. Cur \in mon.todo
  BY CurrentSession
<1>2. mon \in MonitorRecord
  BY DEF MonitorOK, MonitorTypeOK
<1>3. CASE mon.todo = {Cur}
  BY <1>3, MonitorIdleOK
     DEF NextSession, MonitorOK, MonitorTypeOK, MonitorIdle
<1>4. CASE mon.todo # {Cur}
  <2>1. mon' = [MonitorIdle EXCEPT
                  !.pc = "next", !.todo = mon.todo \ {Cur},
                  !.snap = [mon.snap EXCEPT ![Cur] = AbsentSession]]
    BY <1>4 DEF NextSession
  <2>2. [mon.snap EXCEPT ![Cur] = AbsentSession] \in [Sessions -> SessionRecord]
    BY <1>2, NullRecords DEF MonitorRecord
  <2>3. mon' \in MonitorRecord
    BY <2>1, <2>2, <1>2, MonitorIdleOK DEF MonitorRecord, MonitorPCs
  <2>4. /\ mon'.pc = "next"
        /\ mon'.todo = mon.todo \ {Cur}
        /\ mon'.snap = [mon.snap EXCEPT ![Cur] = AbsentSession]
    BY <2>1 DEF MonitorIdle
  <2>5. \A s \in mon'.todo : mon'.snap[s] = mon.snap[s]
    BY <2>4, <1>2 DEF MonitorRecord
  <2>6. mon'.todo # {}
    BY <2>4, <1>1, <1>4
  <2> QED BY <2>3, <2>4, <2>5, <2>6 DEF MonitorOK, MonitorTypeOK, Bound, Kept
<1> QED BY <1>3, <1>4

(* Killing a session leaves a process table. *)
LEMMA KillType ==
    ASSUME SessionOK, NEW s
    PROVE  /\ Killed(s) \in [Sessions -> ProcRecord]
           /\ KillOutcomes(s) \in SUBSET [Sessions -> ProcRecord]
<1>1. procs \in [Sessions -> ProcRecord]
  BY DEF SessionOK, SessionTypeOK
<1>2. Dead \in {"none", "alive", "zombie", "gone"} /\ "1" \in ExitCodes
  BY DEF Dead, ExitCodes
<1>3. Killed(s) \in [Sessions -> ProcRecord]
  BY <1>1, <1>2 DEF Killed, ProcRecord
<1> QED BY <1>1, <1>3 DEF KillOutcomes

(* Every step of the monitor keeps the store, the registry and its own     *)
(* copies well formed.                                                     *)
LEMMA MonitorTypes ==
    ASSUME QueueOK, SessionOK, MonitorOK, MonitorStep
    PROVE  QueueOK' /\ SessionOK' /\ MonitorOK' /\ Kept
<1>u. ASSUME UNCHANGED queueVars
      PROVE  QueueOK' /\ Kept
  BY <1>u, QueueKept
<1>s. ASSUME UNCHANGED sessionVars, Kept
      PROVE  SessionOK'
  BY <1>s, SessionsKept
<1>m. mon \in MonitorRecord
  BY DEF MonitorOK, MonitorTypeOK
<1>e. ASSUME emitted' = emitted
      PROVE  emitted' \in SUBSET Sessions
  BY <1>e DEF MonitorOK, MonitorTypeOK
<1>c. ASSUME mon.pc # "idle"
      PROVE  /\ Cur \in Sessions
             /\ CurSession \in SessionRecord
             /\ CurAttempt \in Attempts
             /\ attempts[CurAttempt] \in AttemptRecord
             /\ Known(attempts[CurAttempt])
  BY <1>c, CurrentSession DEF QueueOK, QueueTypeOK
<1>b. ASSUME mon.pc # "idle", NEW rec \in SessionRecord,
             rec.attempt = CurAttempt
      PROVE  Bound(rec)
  BY <1>b, CurrentSession DEF Bound
<1>1. CASE M_Poll
  <2>1. QueueOK' /\ Kept /\ SessionOK'
    BY <1>1, <1>u, <1>s DEF M_Poll
  <2>2. mon' \in MonitorRecord
    BY <1>1, <1>m
       DEF M_Poll, MonitorRecord, MonitorPCs, SessionOK, SessionTypeOK
  <2>3. /\ mon'.pc = "next"
        /\ mon'.todo # {}
        /\ \A s \in mon'.todo : s \in Sessions /\ sessions[s].state # "ABSENT"
        /\ mon'.snap = sessions
    BY <1>1, <1>m DEF M_Poll, MonitorRecord
  <2>4. \A s \in mon'.todo : Bound(sessions[s])
    BY <2>3 DEF SessionOK
  <2> QED BY <1>1, <1>e, <2>1, <2>2, <2>3, <2>4
          DEF M_Poll, MonitorOK, MonitorTypeOK, Bound, Kept
<1>2. CASE M_SkipFinished
  BY <1>2, <1>u, <1>s, <1>e, NextSessionOK DEF M_SkipFinished, Examine
<1>3. CASE M_SessionEnded
  <2>1. QueueOK' /\ Kept /\ SessionOK'
    BY <1>3, <1>u, <1>s DEF M_SessionEnded
  <2>2. /\ mon' \in MonitorRecord /\ mon'.todo = mon.todo
        /\ mon'.snap = mon.snap /\ Known(mon'.att)
    BY <1>3, <1>m, <1>c
       DEF M_SessionEnded, MonitorRecord, MonitorPCs
  <2> QED BY <1>3, <1>e, <2>1, <2>2, SameSession DEF M_SessionEnded
<1>4. CASE M_EndedAttempt
  <2>1. CurSession \in SessionRecord /\ CurAttempt \in Attempts /\ Known(mon.att)
    BY <1>4, <1>c DEF M_EndedAttempt, MonitorOK
  <2> DEFINE rec == [mon.att EXCEPT !.state = EndedAs(CurSession.state)]
  <2>2. rec \in AttemptRecord /\ Known(rec) /\ SaveAttempt(CurAttempt, rec)
    BY <1>4, <1>m, <2>1
       DEF M_EndedAttempt, EndedAs, MonitorRecord, AttemptRecord,
           AttemptStates, Known
  <2> HIDE DEF rec
  <2>3. QueueOK' /\ Kept
    BY <1>4, <2>1, <2>2, AttemptSaved DEF M_EndedAttempt, QueueOK, QueueTypeOK
  <2>4. SessionOK'
    BY <1>4, <2>3, <1>s DEF M_EndedAttempt
  <2>5. /\ mon' \in MonitorRecord /\ mon'.todo = mon.todo
        /\ mon'.snap = mon.snap /\ Known(mon'.att)
    BY <1>4, <1>m, <2>1
       DEF M_EndedAttempt, EndedAs, MonitorRecord, MonitorPCs, Outcome,
           TerminalAttemptStates
  <2> QED BY <1>4, <1>e, <2>3, <2>4, <2>5, SameSession DEF M_EndedAttempt
<1>5. CASE M_Gone
  <2>1. QueueOK' /\ Kept /\ SessionOK'
    BY <1>5, <1>u, <1>s DEF M_Gone
  <2>2. PICK code \in ExitReadings(Cur), intact \in BOOLEAN :
           mon' = [mon EXCEPT !.pc = "final", !.att = attempts[CurAttempt],
                              !.out = [session |-> GoneAs(code, intact),
                                       attempt |-> GoneAs(code, intact),
                                       event   |-> TRUE]]
    BY <1>5 DEF M_Gone
  <2>3. GoneAs(code, intact) \in {"COMPLETED", "FAILED"}
    BY DEF GoneAs
  <2>4. /\ mon' \in MonitorRecord /\ mon'.todo = mon.todo
        /\ mon'.snap = mon.snap /\ Known(mon'.att)
    BY <1>5, <1>m, <1>c, <2>2, <2>3
       DEF M_Gone, Examine, MonitorRecord, MonitorPCs, Outcome,
           TerminalAttemptStates, TerminalSessionStates
  <2> QED BY <1>5, <1>e, <2>1, <2>4, SameSession DEF M_Gone, Examine
<1>6. CASE M_Overdue
  <2>1. QueueOK' /\ Kept /\ SessionOK'
    BY <1>6, <1>u, <1>s DEF M_Overdue
  <2>2. /\ mon' \in MonitorRecord /\ mon'.todo = mon.todo
        /\ mon'.snap = mon.snap /\ Known(mon'.att)
    BY <1>6, <1>m, <1>c
       DEF M_Overdue, Examine, MonitorRecord, MonitorPCs
  <2> QED BY <1>6, <1>e, <2>1, <2>2, SameSession DEF M_Overdue, Examine
<1>7. CASE M_Running
  <2>1. QueueOK' /\ Kept /\ SessionOK'
    BY <1>7, <1>u, <1>s DEF M_Running
  <2>2. CASE mon' = NextSession
    BY <1>7, <1>e, <2>1, <2>2, NextSessionOK DEF M_Running, Examine
  <2>3. CASE mon' = [mon EXCEPT !.pc = "observe"]
    <3>1. /\ mon' \in MonitorRecord /\ mon'.todo = mon.todo
          /\ mon'.snap = mon.snap /\ mon'.pc = "observe"
      BY <2>3, <1>m DEF MonitorRecord, MonitorPCs
    <3> QED BY <1>7, <1>e, <2>1, <3>1, SameSession DEF M_Running, Examine
  <2> QED BY <1>7, <2>2, <2>3 DEF M_Running
<1>8. CASE M_Observe
  <2> DEFINE rec == [CurSession EXCEPT !.state = "RUNNING"]
  <2>1. rec \in SessionRecord /\ rec.attempt = CurAttempt
    BY <1>8, <1>c DEF M_Observe, SessionRecord, SessionStates, CurSession,
                      CurAttempt
  <2>2. QueueOK' /\ Kept
    BY <1>8, <1>u DEF M_Observe
  <2>3. SaveSession(Cur, rec)
    BY <1>8 DEF M_Observe
  <2> HIDE DEF rec
  <2>4. SessionOK'
    BY <1>8, <1>b, <2>1, <2>2, <2>3, SessionSaved DEF M_Observe
  <2> QED BY <1>8, <1>e, <2>2, <2>4, NextSessionOK DEF M_Observe
<1>9. CASE M_Kill
  <2>1. QueueOK' /\ Kept
    BY <1>9, <1>u DEF M_Kill
  <2>2. procs' \in [Sessions -> ProcRecord]
    BY <1>9, KillType DEF M_Kill
  <2>3. SessionOK'
    BY <1>9, <2>1, <2>2
       DEF M_Kill, SessionOK, SessionTypeOK, HitsForeign, Bound, Kept
  <2>4. /\ mon' \in MonitorRecord /\ mon'.todo = mon.todo
        /\ mon'.snap = mon.snap /\ mon'.att = mon.att
    BY <1>9, <1>m
       DEF M_Kill, MonitorRecord, MonitorPCs, Outcome, TerminalAttemptStates,
           TerminalSessionStates
  <2>5. Known(mon.att)
    BY <1>9 DEF M_Kill, MonitorOK
  <2> QED BY <1>9, <1>e, <2>1, <2>3, <2>4, <2>5, SameSession DEF M_Kill
<1>10. CASE M_AlreadyEmitted
  BY <1>10, <1>u, <1>s, <1>e, NextSessionOK DEF M_AlreadyEmitted, Examine
<1>11. CASE M_FinalSession
  <2> DEFINE rec == [CurSession EXCEPT !.state = mon.out.session]
  <2>1. rec \in SessionRecord /\ rec.attempt = CurAttempt
    BY <1>11, <1>m, <1>c
       DEF M_FinalSession, MonitorRecord, Outcome, TerminalSessionStates,
           SessionRecord, SessionStates, CurSession, CurAttempt
  <2>2. QueueOK' /\ Kept
    BY <1>11, <1>u DEF M_FinalSession
  <2>3. SaveSession(Cur, rec)
    BY <1>11 DEF M_FinalSession
  <2> HIDE DEF rec
  <2>4. SessionOK'
    BY <1>11, <1>b, <2>1, <2>2, <2>3, SessionSaved DEF M_FinalSession
  <2>5. /\ mon' \in MonitorRecord /\ mon'.todo = mon.todo
        /\ mon'.snap = mon.snap /\ mon'.att = mon.att
    BY <1>11, <1>m DEF M_FinalSession, MonitorRecord, MonitorPCs
  <2>6. Known(mon.att)
    BY <1>11 DEF M_FinalSession, MonitorOK
  <2> QED BY <1>11, <1>e, <2>2, <2>4, <2>5, <2>6, SameSession
          DEF M_FinalSession
<1>12. CASE M_FinalAttempt
  <2>1. CurAttempt \in Attempts /\ Known(mon.att)
    BY <1>12, <1>c DEF M_FinalAttempt, MonitorOK
  <2> DEFINE rec == [mon.att EXCEPT !.state = mon.out.attempt]
  <2>2. rec \in AttemptRecord /\ Known(rec) /\ SaveAttempt(CurAttempt, rec)
    BY <1>12, <1>m, <2>1
       DEF M_FinalAttempt, MonitorRecord, Outcome, TerminalAttemptStates,
           AttemptRecord, AttemptStates, Known
  <2> HIDE DEF rec
  <2>3. QueueOK' /\ Kept
    BY <1>12, <2>1, <2>2, AttemptSaved DEF M_FinalAttempt, QueueOK, QueueTypeOK
  <2>4. SessionOK'
    BY <1>12, <2>3, <1>s DEF M_FinalAttempt
  <2>5. /\ mon' \in MonitorRecord /\ mon'.todo = mon.todo
        /\ mon'.snap = mon.snap /\ mon'.att = mon.att
    BY <1>12, <1>m DEF M_FinalAttempt, MonitorRecord, MonitorPCs
  <2> QED BY <1>12, <1>e, <2>1, <2>3, <2>4, <2>5, SameSession
          DEF M_FinalAttempt
<1>13. CASE M_ReadJob
  <2>1. QueueOK' /\ Kept /\ SessionOK'
    BY <1>13, <1>u, <1>s DEF M_ReadJob
  <2>2. Known(mon.att) /\ jobs[mon.att.job] \in JobRecord
    BY <1>13 DEF M_ReadJob, MonitorOK, Known, QueueOK, QueueTypeOK
  <2>3. /\ mon' \in MonitorRecord /\ mon'.todo = mon.todo
        /\ mon'.snap = mon.snap /\ mon'.att = mon.att
    BY <1>13, <1>m, <2>2 DEF M_ReadJob, MonitorRecord, MonitorPCs
  <2> QED BY <1>13, <1>e, <2>1, <2>2, <2>3, SameSession DEF M_ReadJob
<1>14. CASE M_WriteJob
  <2>1. QueueOK' /\ Kept
    BY <1>14, <1>m, JobSaved
       DEF M_WriteJob, MonitorRecord, Outcome, TerminalAttemptStates,
           JobRecord, JobStates
  <2>2. SessionOK'
    BY <1>14, <1>s, <2>1 DEF M_WriteJob
  <2>3. /\ mon' \in MonitorRecord /\ mon'.todo = mon.todo
        /\ mon'.snap = mon.snap /\ mon'.pc = "emit"
    BY <1>14, <1>m, NullRecords DEF M_WriteJob, MonitorRecord, MonitorPCs
  <2> QED BY <1>14, <1>e, <2>1, <2>2, <2>3, SameSession DEF M_WriteJob
<1>15. CASE M_Emit
  <2>1. QueueOK' /\ Kept
    BY <1>15, <1>u DEF M_Emit
  <2>2. Cur \in Sessions /\ emitted' \in SUBSET Sessions
    BY <1>15, <1>c DEF M_Emit, MonitorOK, MonitorTypeOK
  <2>3. events' \in [Sessions -> Nat]
    BY <1>15, <1>m, <2>2
       DEF M_Emit, SessionOK, SessionTypeOK, MonitorRecord, Outcome
  <2>4. SessionOK'
    BY <1>15, <2>1, <2>3 DEF M_Emit, SessionOK, SessionTypeOK, Bound, Kept
  <2> QED BY <1>15, <2>1, <2>2, <2>4, NextSessionOK DEF M_Emit
<1> QED
  BY <1>1, <1>2, <1>3, <1>4, <1>5, <1>6, <1>7, <1>8, <1>9, <1>10, <1>11,
     <1>12, <1>13, <1>14, <1>15 DEF MonitorStep

-----------------------------------------------------------------------------
(* The requests *)

LEMMA RpcIdleOK == RpcIdle \in RpcRecord
BY NullRecords DEF RpcIdle, RpcRecord, RpcPCs, TerminalAttemptStates

(* The request is over. *)
LEMMA RequestDone ==
    ASSUME rpc' = RpcIdle, served' \in Nat
    PROVE  RpcOK'
BY RpcIdleOK DEF RpcOK, RpcTypeOK, RpcIdle, ControlPCs

(* The request goes on with the same session, or with none. *)
LEMMA SameTargets ==
    ASSUME RpcOK, Kept, rpc' \in RpcRecord,
           rpc'.todo = rpc.todo, rpc'.snap = rpc.snap, served' \in Nat,
           rpc'.pc \in ControlPCs => rpc.pc \in ControlPCs,
           rpc'.pc \notin ControlPCs \cup {"idle"} => rpc'.jid \in Jobs,
           rpc'.pc \in {"submitAttempt", "submitQueue", "retryJob",
                       "retryQueue"} => rpc'.aid \in Attempts,
           rpc'.pc \in {"submitQueue", "retryJob", "retryQueue",
                       "markAttempt", "markJobRead", "markJob"}
              => Known(rpc'.att)
    PROVE  RpcOK'
BY DEF RpcOK, RpcTypeOK, ControlPCs, Bound, Kept, Known

(* A control request is at work on a session of its snapshot. *)
LEMMA TargetBound ==
    ASSUME RpcOK, rpc.pc \in ControlPCs
    PROVE  /\ Target \in rpc.todo
           /\ Target \in Sessions
           /\ TargetSession \in SessionRecord
           /\ TargetAttempt \in Attempts
           /\ attempts[TargetAttempt].state # "ABSENT"
<1>1. rpc.todo \in SUBSET Sessions /\ rpc.snap \in [Sessions -> SessionRecord]
  BY DEF RpcOK, RpcTypeOK, RpcRecord
<1>2. Target = First(rpc.todo)
  BY DEF Target, First
<1>3. Target \in rpc.todo
  BY <1>1, <1>2, FirstIn DEF RpcOK
<1> QED BY <1>1, <1>3 DEF RpcOK, Bound, TargetSession, TargetAttempt

LEMMA TargetDoneOK ==
    ASSUME RpcOK, rpc.pc \in ControlPCs, Kept, rpc' = TargetDone,
           served' \in Nat
    PROVE  RpcOK'
<1>1. Target \in rpc.todo
  BY TargetBound
<1>2. rpc \in RpcRecord
  BY DEF RpcOK, RpcTypeOK
<1>3. CASE rpc.todo = {Target}
  BY <1>3, RequestDone DEF TargetDone
<1>4. CASE rpc.todo # {Target}
  <2>1. /\ rpc' \in RpcRecord
        /\ rpc'.pc = "reconcile"
        /\ rpc'.todo = rpc.todo \ {Target}
        /\ rpc'.snap = [rpc.snap EXCEPT ![Target] = AbsentSession]
    BY <1>4, <1>2, NullRecords
       DEF TargetDone, RpcRecord, RpcPCs, TerminalAttemptStates
  <2>2. \A s \in rpc'.todo : rpc'.snap[s] = rpc.snap[s]
    BY <2>1, <1>2 DEF RpcRecord
  <2>3. rpc'.todo # {}
    BY <2>1, <1>1, <1>4
  <2>4. \A s \in rpc'.todo : /\ rpc'.snap[s].attempt \in Attempts
                             /\ attempts'[rpc'.snap[s].attempt].state # "ABSENT"
    BY <2>1, <2>2 DEF RpcOK, Bound, Kept
  <2> QED BY <2>1, <2>3, <2>4 DEF RpcOK, RpcTypeOK, Bound
<1> QED BY <1>3, <1>4

(* Every step of a request keeps the store, the registry and its own       *)
(* copies well formed.                                                     *)
LEMMA RpcTypes ==
    ASSUME QueueOK, SessionOK, RpcOK, RpcStep
    PROVE  QueueOK' /\ SessionOK' /\ RpcOK' /\ Kept
<1>u. ASSUME UNCHANGED queueVars
      PROVE  QueueOK' /\ Kept
  BY <1>u, QueueKept
<1>s. ASSUME UNCHANGED sessionVars, Kept
      PROVE  SessionOK'
  BY <1>s, SessionsKept
<1>r. rpc \in RpcRecord /\ served \in Nat
  BY DEF RpcOK, RpcTypeOK
<1>q. /\ jobs \in [Jobs -> JobRecord]
      /\ attempts \in [Attempts -> AttemptRecord]
      /\ clock \in Nat
  BY DEF QueueOK, QueueTypeOK
<1>n. ASSUME NEW j \in Jobs
      PROVE  NewAttempt(j) \in AttemptRecord /\ Known(NewAttempt(j))
  BY <1>n, <1>q, NullRecords
     DEF NewAttempt, AbsentAttempt, AttemptRecord, AttemptStates, Known
<1>t. ASSUME rpc.pc \in ControlPCs
      PROVE  /\ Target \in Sessions
             /\ TargetSession \in SessionRecord
             /\ TargetAttempt \in Attempts
             /\ attempts[TargetAttempt] \in AttemptRecord
             /\ Known(attempts[TargetAttempt])
  BY <1>t, TargetBound DEF QueueOK, QueueTypeOK
(* A new state of the session of the request is saved. *)
<1>w. ASSUME rpc.pc \in ControlPCs, NEW state \in SessionStates,
             SaveSession(Target, [TargetSession EXCEPT !.state = state]),
             UNCHANGED <<procs, adapter, reused, overdue, events, foreignHit>>,
             Kept
      PROVE  SessionOK'
  <2> DEFINE rec == [TargetSession EXCEPT !.state = state]
  <2>1. rec \in SessionRecord /\ rec.attempt = TargetAttempt
    BY <1>w, <1>t DEF SessionRecord, TargetSession, TargetAttempt
  <2>2. Bound(rec)
    BY <1>w, <2>1, TargetBound DEF Bound
  <2>3. SaveSession(Target, rec)
    BY <1>w
  <2> HIDE DEF rec
  <2> QED BY <1>w, <2>1, <2>2, <2>3, SessionSaved
(* A control request starts on a set of registered sessions. *)
<1>k. ASSUME NEW request, NEW pc \in ControlPCs,
             pc \notin {"markAttempt", "markJobRead", "markJob"},
             NEW S \in SUBSET Registered,
             S # {}, StartControl(request, pc, S)
      PROVE  QueueOK' /\ SessionOK' /\ RpcOK' /\ Kept
  <2>1. QueueOK' /\ Kept /\ SessionOK'
    BY <1>k, <1>u, <1>s DEF StartControl
  <2>2. S \in SUBSET Sessions /\ Snapshot(S) \in [Sessions -> SessionRecord]
    BY <1>k, NullRecords DEF Registered, Snapshot, SessionOK, SessionTypeOK
  <2>3. /\ rpc' \in RpcRecord /\ rpc'.pc = pc
        /\ rpc'.todo = S /\ rpc'.snap = Snapshot(S)
    BY <1>k, <1>r, <2>2 DEF StartControl, RpcRecord, ControlPCs
  <2>4. \A s \in S : Snapshot(S)[s] = sessions[s] /\ Bound(sessions[s])
    BY <1>k, <2>2 DEF Registered, Snapshot, SessionOK
  <2>5. \A s \in S : /\ Snapshot(S)[s].attempt \in Attempts
                     /\ attempts'[Snapshot(S)[s].attempt].state # "ABSENT"
    BY <2>1, <2>4 DEF Bound, Kept
  <2>6. RpcTypeOK'
    BY <1>k, <1>r, <2>3 DEF StartControl, RpcTypeOK
  <2>7. \A s \in rpc'.todo : Bound(rpc.snap[s])'
    BY <2>3, <2>5 DEF Bound
  <2>8. pc \notin {"submitAttempt", "submitQueue", "retryAttempt", "retryJob",
                  "retryQueue"}
    BY DEF ControlPCs
  <2>9. pc \notin {"markAttempt", "markJobRead", "markJob"}
    BY <1>k
  <2> QED BY <1>k, <2>1, <2>3, <2>6, <2>7, <2>8, <2>9 DEF RpcOK
<1>1. CASE R_Submit
  <2>1. PICK j \in Jobs, a \in Attempts :
           /\ SaveJob(j, [state |-> "ACCEPTED", attempts |-> {a}])
           /\ rpc' = [rpc EXCEPT !.pc = "submitAttempt", !.jid = j, !.aid = a]
    BY <1>1 DEF R_Submit
  <2>2. QueueOK' /\ Kept
    BY <1>1, <2>1, JobSaved DEF R_Submit, JobRecord, JobStates
  <2>3. SessionOK'
    BY <1>1, <1>s, <2>2 DEF R_Submit
  <2>4. /\ rpc' \in RpcRecord /\ rpc'.todo = rpc.todo /\ rpc'.snap = rpc.snap
        /\ rpc'.pc = "submitAttempt" /\ rpc'.jid \in Jobs
        /\ rpc'.aid \in Attempts
    BY <2>1, <1>r DEF RpcRecord, RpcPCs
  <2> QED BY <1>1, <1>r, <2>2, <2>3, <2>4, SameTargets DEF R_Submit, ControlPCs
<1>2. CASE R_SubmitAttempt
  <2>1. rpc.jid \in Jobs /\ rpc.aid \in Attempts
    BY <1>2 DEF R_SubmitAttempt, RpcOK
  <2>2. QueueOK' /\ Kept
    BY <1>2, <1>n, <1>q, <2>1, AttemptSaved DEF R_SubmitAttempt
  <2>3. SessionOK'
    BY <1>2, <1>s, <2>2 DEF R_SubmitAttempt
  <2>4. /\ rpc' \in RpcRecord /\ rpc'.todo = rpc.todo /\ rpc'.snap = rpc.snap
        /\ rpc'.pc = "submitQueue" /\ rpc'.jid \in Jobs
        /\ rpc'.aid \in Attempts /\ Known(rpc'.att)
    BY <1>2, <1>r, <1>n, <2>1 DEF R_SubmitAttempt, RpcRecord, RpcPCs
  <2> QED BY <1>2, <1>r, <2>2, <2>3, <2>4, SameTargets DEF R_SubmitAttempt, ControlPCs
<1>3. CASE R_SubmitQueue
  <2> DEFINE rec == [rpc.att EXCEPT !.state = "QUEUED"]
  <2>1. /\ rec \in AttemptRecord /\ Known(rec) /\ SaveAttempt(rpc.aid, rec)
        /\ rpc.aid \in Attempts
    BY <1>3, <1>r DEF R_SubmitQueue, RpcOK, RpcRecord, AttemptRecord, AttemptStates, Known
  <2> HIDE DEF rec
  <2>2. QueueOK' /\ Kept
    BY <1>3, <1>q, <2>1, AttemptSaved DEF R_SubmitQueue
  <2>3. SessionOK'
    BY <1>3, <1>s, <2>2 DEF R_SubmitQueue
  <2> QED BY <1>3, <1>r, <2>2, <2>3, RequestDone DEF R_SubmitQueue
<1>4. CASE R_Retry
  <2>1. QueueOK' /\ Kept /\ SessionOK'
    BY <1>4, <1>u, <1>s DEF R_Retry
  <2>2. /\ rpc' \in RpcRecord /\ rpc'.todo = rpc.todo /\ rpc'.snap = rpc.snap
        /\ rpc'.pc = "retryAttempt" /\ rpc'.jid \in Jobs
    <3>1. PICK j \in Jobs : rpc' = [rpc EXCEPT !.pc = "retryAttempt", !.jid = j,
                                             !.job = jobs[j]]
      BY <1>4 DEF R_Retry
    <3>2. jobs[j] \in JobRecord
      BY <1>q
    <3> QED BY <1>r, <3>1, <3>2 DEF RpcRecord, RpcPCs
  <2> QED BY <1>4, <1>r, <2>1, <2>2, SameTargets DEF R_Retry, ControlPCs
<1>5. CASE R_RetryAttempt
  <2>1. rpc.jid \in Jobs
    BY <1>5 DEF R_RetryAttempt, RpcOK
  <2>2. PICK a \in Attempts :
           /\ SaveAttempt(a, NewAttempt(rpc.jid))
           /\ rpc' = [rpc EXCEPT !.pc = "retryJob", !.aid = a,
                                 !.att = NewAttempt(rpc.jid)]
    BY <1>5 DEF R_RetryAttempt, RetryIds
  <2>3. QueueOK' /\ Kept
    BY <1>5, <1>n, <1>q, <2>1, <2>2, AttemptSaved DEF R_RetryAttempt
  <2>4. SessionOK'
    BY <1>5, <1>s, <2>3 DEF R_RetryAttempt
  <2>5. /\ rpc' \in RpcRecord /\ rpc'.todo = rpc.todo /\ rpc'.snap = rpc.snap
        /\ rpc'.pc = "retryJob" /\ rpc'.jid \in Jobs
        /\ rpc'.aid \in Attempts /\ Known(rpc'.att)
    <3>1. NewAttempt(rpc.jid) \in AttemptRecord /\ Known(NewAttempt(rpc.jid))
      BY <1>n, <2>1
    <3> QED BY <1>r, <2>1, <2>2, <3>1 DEF RpcRecord, RpcPCs
  <2> QED BY <1>5, <1>r, <2>3, <2>4, <2>5, SameTargets DEF R_RetryAttempt, ControlPCs
<1>6. CASE R_RetryRefused
  <2>1. QueueOK' /\ Kept /\ SessionOK'
    BY <1>6, <1>u, <1>s DEF R_RetryRefused
  <2> QED BY <1>6, <1>r, <2>1, RequestDone DEF R_RetryRefused
<1>7. CASE R_RetryJob
  <2>1. /\ rpc.jid \in Jobs /\ rpc.aid \in Attempts /\ Known(rpc.att)
        /\ rpc.job \in JobRecord
    BY <1>7, <1>r DEF R_RetryJob, RpcOK, RpcRecord
  <2> DEFINE rec == [state    |-> "QUEUED",
                     attempts |-> rpc.job.attempts \cup {rpc.aid}]
  <2>2. rec \in JobRecord
    BY <2>1 DEF JobRecord, JobStates
  <2>3. QueueOK' /\ Kept
    BY <1>7, <2>2, JobSaved DEF R_RetryJob
  <2>4. SessionOK'
    BY <1>7, <1>s, <2>3 DEF R_RetryJob
  <2>5. /\ rpc' \in RpcRecord /\ rpc'.todo = rpc.todo /\ rpc'.snap = rpc.snap
        /\ rpc'.pc = "retryQueue" /\ rpc'.jid = rpc.jid
        /\ rpc'.aid = rpc.aid /\ rpc'.att = rpc.att
    BY <1>7, <1>r DEF R_RetryJob, RpcRecord, RpcPCs
  <2> QED BY <1>7, <1>r, <2>1, <2>3, <2>4, <2>5, SameTargets DEF R_RetryJob, ControlPCs
<1>8. CASE R_RetryQueue
  <2> DEFINE rec == [rpc.att EXCEPT !.state = "QUEUED"]
  <2>1. /\ rec \in AttemptRecord /\ Known(rec) /\ SaveAttempt(rpc.aid, rec)
        /\ rpc.aid \in Attempts
    BY <1>8, <1>r DEF R_RetryQueue, RpcOK, RpcRecord, AttemptRecord, AttemptStates, Known
  <2> HIDE DEF rec
  <2>2. QueueOK' /\ Kept
    BY <1>8, <1>q, <2>1, AttemptSaved DEF R_RetryQueue
  <2>3. SessionOK'
    BY <1>8, <1>s, <2>2 DEF R_RetryQueue
  <2> QED BY <1>8, <1>r, <2>2, <2>3, RequestDone DEF R_RetryQueue
<1>9. CASE R_Cancel
  <2>1. PICK s \in Registered : StartControl("cancel", "cancelMark", {s})
    BY <1>9 DEF R_Cancel
  <2> QED BY <1>k, <2>1 DEF ControlPCs, RpcPCs
<1>10. CASE R_CancelMark
  <2>1. QueueOK' /\ Kept
    BY <1>10, <1>u DEF R_CancelMark
  <2>2. SessionOK'
    BY <1>10, <1>w, <2>1 DEF R_CancelMark, ControlPCs, RpcPCs, SessionStates
  <2>3. /\ rpc' \in RpcRecord /\ rpc'.todo = rpc.todo /\ rpc'.snap = rpc.snap
        /\ rpc'.pc = "cancelKill"
    BY <1>10, <1>r DEF R_CancelMark, RpcRecord, RpcPCs, TerminalAttemptStates
  <2> QED BY <1>10, <1>r, <2>1, <2>2, <2>3, SameTargets
          DEF R_CancelMark, ControlPCs, RpcPCs
<1>11. CASE R_CancelByAdapter
  <2>1. QueueOK' /\ Kept
    BY <1>11, <1>u DEF R_CancelByAdapter
  <2>2. SessionOK'
    <3>1. procs' \in [Sessions -> ProcRecord]
      BY <1>11, KillType DEF R_CancelByAdapter, SessionOK, SessionTypeOK
    <3> QED BY <1>11, <2>1, <3>1 DEF R_CancelByAdapter, SessionOK, SessionTypeOK, Bound, Kept
  <2>3. /\ rpc' \in RpcRecord /\ rpc'.todo = rpc.todo /\ rpc'.snap = rpc.snap
        /\ rpc'.pc = "cancelSave"
    BY <1>11, <1>r DEF R_CancelByAdapter, RpcRecord, RpcPCs, TerminalAttemptStates
  <2> QED BY <1>11, <1>r, <2>1, <2>2, <2>3, SameTargets
          DEF R_CancelByAdapter, ControlPCs, RpcPCs
<1>12. CASE R_CancelByScope
  <2>1. QueueOK' /\ Kept
    BY <1>12, <1>u DEF R_CancelByScope
  <2>2. SessionOK'
    <3>1. procs' \in [Sessions -> ProcRecord]
      BY <1>12, KillType DEF R_CancelByScope, SessionOK, SessionTypeOK
    <3> QED BY <1>12, <2>1, <3>1 DEF R_CancelByScope, SessionOK, SessionTypeOK, Bound, Kept
  <2>3. /\ rpc' \in RpcRecord /\ rpc'.todo = rpc.todo /\ rpc'.snap = rpc.snap
        /\ rpc'.pc = "cancelSave"
    BY <1>12, <1>r DEF R_CancelByScope, RpcRecord, RpcPCs, TerminalAttemptStates
  <2> QED BY <1>12, <1>r, <2>1, <2>2, <2>3, SameTargets
          DEF R_CancelByScope, ControlPCs, RpcPCs
<1>13. CASE R_CancelFails
  <2>1. QueueOK' /\ Kept
    BY <1>13, <1>u DEF R_CancelFails
  <2>2. SessionOK'
    BY <1>13, <1>s, <2>1 DEF R_CancelFails
  <2>3. /\ rpc' \in RpcRecord /\ rpc'.todo = rpc.todo /\ rpc'.snap = rpc.snap
        /\ rpc'.pc = "cancelRevert"
    BY <1>13, <1>r DEF R_CancelFails, RpcRecord, RpcPCs, TerminalAttemptStates
  <2> QED BY <1>13, <1>r, <2>1, <2>2, <2>3, SameTargets
          DEF R_CancelFails, ControlPCs, RpcPCs
<1>14. CASE R_CancelSave
  <2>1. QueueOK' /\ Kept
    BY <1>14, <1>u DEF R_CancelSave
  <2>2. SessionOK'
    BY <1>14, <1>w, <2>1 DEF R_CancelSave, ControlPCs, RpcPCs, SessionStates
  <2>3. /\ rpc' \in RpcRecord /\ rpc'.todo = rpc.todo /\ rpc'.snap = rpc.snap
        /\ rpc'.pc = "markRead"
    BY <1>14, <1>r DEF R_CancelSave, RpcRecord, RpcPCs, TerminalAttemptStates
  <2> QED BY <1>14, <1>r, <2>1, <2>2, <2>3, SameTargets
          DEF R_CancelSave, ControlPCs, RpcPCs
<1>15. CASE R_CancelRevert
  <2>1. QueueOK' /\ Kept
    BY <1>15, <1>u DEF R_CancelRevert
  <2>2. SessionOK'
    <3>1. rpc.pc \in ControlPCs
      BY <1>15 DEF R_CancelRevert, ControlPCs, RpcPCs
    <3>2. TargetSession \in SessionRecord /\ Bound(TargetSession)
      BY <1>t, <3>1, TargetBound DEF Bound, TargetSession, TargetAttempt
    <3> QED BY <1>15, <2>1, <3>2, SessionSaved DEF R_CancelRevert
  <2> QED BY <1>15, <1>r, <2>1, <2>2, RequestDone DEF R_CancelRevert
<1>16. CASE R_MarkRead
  <2>1. QueueOK' /\ Kept
    BY <1>16, <1>u DEF R_MarkRead
  <2>2. SessionOK'
    BY <1>16, <1>s, <2>1 DEF R_MarkRead
  <2>3. rpc.pc \in ControlPCs
    BY <1>16 DEF R_MarkRead, ControlPCs, RpcPCs
  <2>4. /\ rpc' \in RpcRecord /\ rpc'.todo = rpc.todo /\ rpc'.snap = rpc.snap
        /\ \/ rpc'.pc = "markEmit"
           \/ rpc'.pc = "markAttempt" /\ Known(rpc'.att)
    <3>1. CASE Terminal(TargetAttempt)
      BY <1>16, <1>r, <3>1 DEF R_MarkRead, RpcRecord, RpcPCs
    <3>2. CASE ~Terminal(TargetAttempt)
      BY <1>16, <1>r, <1>t, <2>3, <3>2 DEF R_MarkRead, RpcRecord, RpcPCs
    <3> QED BY <3>1, <3>2
  <2> QED BY <1>16, <1>r, <2>1, <2>2, <2>3, <2>4, SameTargets
          DEF R_MarkRead, ControlPCs, RpcPCs
<1>17. CASE R_MarkAttempt
  <2>0. rpc.pc \in ControlPCs /\ Known(rpc.att)
    BY <1>17 DEF R_MarkAttempt, ControlPCs, RpcPCs, RpcOK
  <2> DEFINE rec == [rpc.att EXCEPT !.state = rpc.to]
  <2>1. /\ rec \in AttemptRecord /\ Known(rec)
        /\ SaveAttempt(TargetAttempt, rec) /\ TargetAttempt \in Attempts
    BY <1>17, <1>r, <1>t, <2>0
       DEF R_MarkAttempt, RpcRecord, TerminalAttemptStates, AttemptRecord, AttemptStates,
           Known
  <2> HIDE DEF rec
  <2>2. QueueOK' /\ Kept
    BY <1>17, <1>q, <2>1, AttemptSaved DEF R_MarkAttempt
  <2>3. SessionOK'
    BY <1>17, <1>s, <2>2 DEF R_MarkAttempt
  <2>4. /\ rpc' \in RpcRecord /\ rpc'.todo = rpc.todo /\ rpc'.snap = rpc.snap
        /\ rpc'.pc = "markJobRead" /\ rpc'.att = rpc.att
    BY <1>17, <1>r DEF R_MarkAttempt, RpcRecord, RpcPCs
  <2> QED BY <1>17, <1>r, <2>0, <2>2, <2>3, <2>4, SameTargets
          DEF R_MarkAttempt, ControlPCs, RpcPCs
<1>18. CASE R_MarkJobRead
  <2>1. QueueOK' /\ Kept
    BY <1>18, <1>u DEF R_MarkJobRead
  <2>2. SessionOK'
    BY <1>18, <1>s, <2>1 DEF R_MarkJobRead
  <2>3. /\ rpc.pc \in ControlPCs /\ Known(rpc.att)
        /\ jobs[rpc.att.job] \in JobRecord
    BY <1>18, <1>q DEF R_MarkJobRead, ControlPCs, RpcPCs, RpcOK, Known
  <2>4. /\ rpc' \in RpcRecord /\ rpc'.todo = rpc.todo /\ rpc'.snap = rpc.snap
        /\ \/ rpc'.pc = "markEmit"
           \/ rpc'.pc = "markJob" /\ rpc'.att = rpc.att
    BY <1>18, <1>r, <2>3, NullRecords DEF R_MarkJobRead, RpcRecord, RpcPCs
  <2> QED BY <1>18, <1>r, <2>1, <2>2, <2>3, <2>4, SameTargets
          DEF R_MarkJobRead, ControlPCs, RpcPCs
<1>19. CASE R_MarkJob
  <2>1. QueueOK' /\ Kept
    BY <1>19, <1>r, JobSaved
       DEF R_MarkJob, RpcRecord, TerminalAttemptStates, JobRecord, JobStates
  <2>2. SessionOK'
    BY <1>19, <1>s, <2>1 DEF R_MarkJob
  <2>3. /\ rpc' \in RpcRecord /\ rpc'.todo = rpc.todo /\ rpc'.snap = rpc.snap
        /\ rpc'.pc = "markEmit"
    BY <1>19, <1>r, NullRecords DEF R_MarkJob, RpcRecord, RpcPCs
  <2> QED BY <1>19, <1>r, <2>1, <2>2, <2>3, SameTargets
          DEF R_MarkJob, ControlPCs, RpcPCs
<1>20. CASE R_MarkEmit
  <2>1. QueueOK' /\ Kept
    BY <1>20, <1>u DEF R_MarkEmit
  <2>2. SessionOK'
    <3>1. events' \in [Sessions -> Nat]
      <4>1. Target \in Sessions
        BY <1>20, <1>t DEF R_MarkEmit, ControlPCs, RpcPCs
      <4> QED BY <1>20, <4>1 DEF R_MarkEmit, SessionOK, SessionTypeOK
    <3> QED BY <1>20, <2>1, <3>1 DEF R_MarkEmit, SessionOK, SessionTypeOK, Bound, Kept
  <2> QED BY <1>20, <1>r, <2>1, <2>2, TargetDoneOK DEF R_MarkEmit, ControlPCs, RpcPCs
<1>21. CASE R_Inspect
  <2>1. PICK s \in Registered : StartControl("inspect", "inspect", {s})
    BY <1>21 DEF R_Inspect
  <2> QED BY <1>k, <2>1 DEF ControlPCs, RpcPCs
<1>22. CASE R_InspectGone
  <2>1. QueueOK' /\ Kept
    BY <1>22, <1>u DEF R_InspectGone
  <2>2. SessionOK'
    BY <1>22, <1>w, <2>1 DEF R_InspectGone, ControlPCs, RpcPCs, SessionStates
  <2> QED BY <1>22, <1>r, <2>1, <2>2, RequestDone DEF R_InspectGone
<1>23. CASE R_InspectReused
  <2>1. QueueOK' /\ Kept
    BY <1>23, <1>u DEF R_InspectReused
  <2>2. SessionOK'
    BY <1>23, <1>w, <2>1 DEF R_InspectReused, ControlPCs, RpcPCs, SessionStates
  <2> QED BY <1>23, <1>r, <2>1, <2>2, RequestDone DEF R_InspectReused
<1>24. CASE R_InspectNoChange
  <2>1. QueueOK' /\ Kept
    BY <1>24, <1>u DEF R_InspectNoChange
  <2>2. SessionOK'
    BY <1>24, <1>s, <2>1 DEF R_InspectNoChange
  <2> QED BY <1>24, <1>r, <2>1, <2>2, RequestDone DEF R_InspectNoChange
<1>25. CASE R_Reconcile
  <2> QED BY <1>25, <1>k DEF R_Reconcile, ControlPCs, RpcPCs
<1>26. CASE R_ReconcileCancelled
  <2>1. QueueOK' /\ Kept
    BY <1>26, <1>u DEF R_ReconcileCancelled
  <2>2. SessionOK'
    BY <1>26, <1>w, <2>1 DEF R_ReconcileCancelled, ControlPCs, RpcPCs, SessionStates
  <2>3. /\ rpc' \in RpcRecord /\ rpc'.todo = rpc.todo /\ rpc'.snap = rpc.snap
        /\ rpc'.pc = "markRead"
    BY <1>26, <1>r DEF R_ReconcileCancelled, RpcRecord, RpcPCs, TerminalAttemptStates
  <2> QED BY <1>26, <1>r, <2>1, <2>2, <2>3, SameTargets
          DEF R_ReconcileCancelled, ControlPCs, RpcPCs
<1>27. CASE R_ReconcileGone
  <2>0. PICK code \in ReconcileReadings(Target) :
           /\ SaveSession(Target,
                          [TargetSession EXCEPT !.state = ReconciledAs(code)])
           /\ rpc' = [rpc EXCEPT !.pc = "markRead", !.to = ReconciledAs(code)]
    BY <1>27 DEF R_ReconcileGone
  <2>a. ReconciledAs(code) \in {"COMPLETED", "FAILED"}
    BY DEF ReconciledAs
  <2>1. QueueOK' /\ Kept
    BY <1>27, <1>u DEF R_ReconcileGone
  <2>2. SessionOK'
    BY <1>27, <1>w, <2>0, <2>a, <2>1 DEF R_ReconcileGone, ControlPCs, RpcPCs, SessionStates
  <2>3. /\ rpc' \in RpcRecord /\ rpc'.todo = rpc.todo /\ rpc'.snap = rpc.snap
        /\ rpc'.pc = "markRead"
    BY <1>r, <2>0, <2>a DEF RpcRecord, RpcPCs, TerminalAttemptStates
  <2> QED BY <1>27, <1>r, <2>1, <2>2, <2>3, SameTargets
          DEF R_ReconcileGone, ControlPCs, RpcPCs
<1>28. CASE R_ReconcileNoChange
  <2>1. QueueOK' /\ Kept
    BY <1>28, <1>u DEF R_ReconcileNoChange
  <2>2. SessionOK'
    BY <1>28, <1>s, <2>1 DEF R_ReconcileNoChange
  <2> QED BY <1>28, <1>r, <2>1, <2>2, TargetDoneOK DEF R_ReconcileNoChange, ControlPCs, RpcPCs
<1>29. CASE R_ReconcileRetryCancel
  <2>1. QueueOK' /\ Kept
    BY <1>29, <1>u DEF R_ReconcileRetryCancel
  <2>2. SessionOK'
    <3>1. procs' \in [Sessions -> ProcRecord]
      BY <1>29, KillType DEF R_ReconcileRetryCancel, SessionOK, SessionTypeOK
    <3> QED BY <1>29, <2>1, <3>1 DEF R_ReconcileRetryCancel, SessionOK, SessionTypeOK, Bound, Kept
  <2> QED BY <1>29, <1>r, <2>1, <2>2, TargetDoneOK DEF R_ReconcileRetryCancel, ControlPCs, RpcPCs
<1>30. CASE R_ReconcileRediscover
  <2>1. QueueOK' /\ Kept
    BY <1>30, <1>u DEF R_ReconcileRediscover
  <2>2. SessionOK'
    BY <1>30, <1>s, <2>1 DEF R_ReconcileRediscover
  <2>3. /\ rpc' \in RpcRecord /\ rpc'.todo = rpc.todo /\ rpc'.snap = rpc.snap
        /\ rpc'.pc = "rediscover"
    BY <1>30, <1>r DEF R_ReconcileRediscover, RpcRecord, RpcPCs, TerminalAttemptStates
  <2> QED BY <1>30, <1>r, <2>1, <2>2, <2>3, SameTargets
          DEF R_ReconcileRediscover, ControlPCs, RpcPCs
<1>31. CASE R_Rediscover
  <2>1. QueueOK' /\ Kept
    BY <1>31, <1>u DEF R_Rediscover
  <2>2. SessionOK'
    BY <1>31, <1>w, <2>1 DEF R_Rediscover, ControlPCs, RpcPCs, SessionStates
  <2> QED BY <1>31, <1>r, <2>1, <2>2, TargetDoneOK DEF R_Rediscover, ControlPCs, RpcPCs
<1>32. CASE R_ReconcileReused
  <2>1. QueueOK' /\ Kept
    BY <1>32, <1>u DEF R_ReconcileReused
  <2>2. SessionOK'
    BY <1>32, <1>w, <2>1 DEF R_ReconcileReused, ControlPCs, RpcPCs, SessionStates
  <2> QED BY <1>32, <1>r, <2>1, <2>2, TargetDoneOK DEF R_ReconcileReused, ControlPCs, RpcPCs
<1> QED
  BY <1>1, <1>2, <1>3, <1>4, <1>5, <1>6, <1>7, <1>8, <1>9, <1>10, <1>11,
     <1>12, <1>13, <1>14, <1>15, <1>16, <1>17, <1>18, <1>19, <1>20, <1>21,
     <1>22, <1>23, <1>24, <1>25, <1>26, <1>27, <1>28, <1>29, <1>30, <1>31,
     <1>32
     DEF RpcStep

-----------------------------------------------------------------------------
(* Types *)

TypesInv ==
    /\ QueueOK
    /\ SessionOK
    /\ DispatchOK
    /\ MonitorOK
    /\ RpcOK
    /\ crashes \in Nat

LEMMA DispatcherKept ==
    ASSUME DispatchOK, Kept, UNCHANGED dispatchVars
    PROVE  DispatchOK'
BY DEF DispatchOK, DispatchTypeOK, dispatchVars, Kept, Known

LEMMA MonitorKept ==
    ASSUME MonitorOK, Kept, UNCHANGED monitorVars
    PROVE  MonitorOK'
BY DEF MonitorOK, MonitorTypeOK, monitorVars, Kept, Known, Bound

LEMMA RequestKept ==
    ASSUME RpcOK, Kept, UNCHANGED rpcVars
    PROVE  RpcOK'
BY DEF RpcOK, RpcTypeOK, rpcVars, Kept, Known, Bound

(* Time passes for one attempt: nothing but a flag of it changes. *)
LEMMA FlagSaved ==
    ASSUME QueueOK, NEW a \in Attempts, NEW flag \in BOOLEAN,
           attempts[a].state # "ABSENT",
           \/ SaveAttempt(a, [attempts[a] EXCEPT !.expired = flag])
           \/ SaveAttempt(a, [attempts[a] EXCEPT !.held = flag]),
           UNCHANGED <<jobs, clock>>
    PROVE  QueueOK' /\ Kept
<1>1. attempts[a] \in AttemptRecord /\ Known(attempts[a]) /\ clock \in Nat
  BY DEF QueueOK, QueueTypeOK
<1>2. CASE SaveAttempt(a, [attempts[a] EXCEPT !.expired = flag])
  <2> DEFINE rec == [attempts[a] EXCEPT !.expired = flag]
  <2>1. rec \in AttemptRecord /\ Known(rec) /\ SaveAttempt(a, rec)
    BY <1>1, <1>2 DEF AttemptRecord, Known
  <2> HIDE DEF rec
  <2> QED BY <1>1, <2>1, AttemptSaved
<1>3. CASE SaveAttempt(a, [attempts[a] EXCEPT !.held = flag])
  <2> DEFINE rec == [attempts[a] EXCEPT !.held = flag]
  <2>1. rec \in AttemptRecord /\ Known(rec) /\ SaveAttempt(a, rec)
    BY <1>1, <1>3 DEF AttemptRecord, Known
  <2> HIDE DEF rec
  <2> QED BY <1>1, <2>1, AttemptSaved
<1> QED BY <1>2, <1>3

LEMMA EnvironmentTypes ==
    ASSUME QueueOK, SessionOK, Environment
    PROVE  QueueOK' /\ SessionOK' /\ Kept
<1>u. ASSUME UNCHANGED queueVars
      PROVE  QueueOK' /\ Kept
  BY <1>u, QueueKept
<1>s. ASSUME UNCHANGED sessionVars, Kept
      PROVE  SessionOK'
  BY <1>s, SessionsKept
<1>p. ASSUME procs' \in [Sessions -> ProcRecord], Kept,
             UNCHANGED <<sessions, adapter, reused, overdue, events,
                         foreignHit>>
      PROVE  SessionOK'
  BY <1>p DEF SessionOK, SessionTypeOK, Bound, Kept
<1>t. procs \in [Sessions -> ProcRecord]
  BY DEF SessionOK, SessionTypeOK
<1>1. ASSUME NEW s \in Sessions, ProcessExits(s)
      PROVE  QueueOK' /\ SessionOK' /\ Kept
  <2>1. QueueOK' /\ Kept
    BY <1>1, <1>u DEF ProcessExits
  <2>2. PICK code \in ExitStatuses :
           procs' = [procs EXCEPT ![s].state = Dead, ![s].code = code]
    BY <1>1 DEF ProcessExits
  <2>3. /\ Dead \in {"none", "alive", "zombie", "gone"}
        /\ code \in ExitCodes
    BY ControlPlaneAssumption DEF Dead, ExitCodes
  <2>4. procs' \in [Sessions -> ProcRecord]
    BY <1>t, <2>2, <2>3 DEF ProcRecord
  <2> QED BY <1>1, <1>p, <2>1, <2>4 DEF ProcessExits
<1>2. ASSUME NEW s \in Sessions, Reaped(s)
      PROVE  QueueOK' /\ SessionOK' /\ Kept
  <2>1. QueueOK' /\ Kept
    BY <1>2, <1>u DEF Reaped
  <2>2. procs' \in [Sessions -> ProcRecord]
    BY <1>2, <1>t DEF Reaped, ProcRecord
  <2> QED BY <1>2, <1>p, <2>1, <2>2 DEF Reaped
<1>3. ASSUME NEW s \in Sessions, PidTakenAgain(s)
      PROVE  QueueOK' /\ SessionOK' /\ Kept
  <2>1. QueueOK' /\ Kept
    BY <1>3, <1>u DEF PidTakenAgain
  <2> QED BY <1>3, <2>1
          DEF PidTakenAgain, SessionOK, SessionTypeOK, Bound, Kept
<1>4. ASSUME NEW s \in Sessions, DeadlinePasses(s)
      PROVE  QueueOK' /\ SessionOK' /\ Kept
  <2>1. QueueOK' /\ Kept
    BY <1>4, <1>u DEF DeadlinePasses
  <2> QED BY <1>4, <2>1
          DEF DeadlinePasses, SessionOK, SessionTypeOK, Bound, Kept
<1>5. ASSUME NEW a \in Attempts, LeaseExpires(a)
      PROVE  QueueOK' /\ SessionOK' /\ Kept
  <2>1. QueueOK' /\ Kept
    BY <1>5, FlagSaved DEF LeaseExpires
  <2> QED BY <1>5, <1>s, <2>1 DEF LeaseExpires
<1>6. ASSUME NEW a \in Attempts, HoldElapses(a)
      PROVE  QueueOK' /\ SessionOK' /\ Kept
  <2>1. QueueOK' /\ Kept
    BY <1>6, FlagSaved DEF HoldElapses, QueueOK
  <2> QED BY <1>6, <1>s, <2>1 DEF HoldElapses
<1> QED BY <1>1, <1>2, <1>3, <1>4, <1>5, <1>6 DEF Environment

LEMMA CrashTypes ==
    ASSUME TypesInv, CrashRestart
    PROVE  TypesInv'
<1>1. QueueOK' /\ Kept
  BY QueueKept DEF TypesInv, CrashRestart
<1>2. SessionOK'
  BY <1>1 DEF TypesInv, CrashRestart, SessionOK, SessionTypeOK, Bound, Kept
<1>3. DispatchOK'
  <2>1. DispatchIdle = NextEntry({})
    BY DEF NextEntry
  <2> QED BY <2>1, LoopOK DEF TypesInv, CrashRestart, DispatchOK, DispatchTypeOK
<1>4. MonitorOK'
  BY MonitorIdleOK
     DEF TypesInv, CrashRestart, MonitorOK, MonitorTypeOK, MonitorIdle
<1>5. RpcOK'
  BY RequestDone DEF TypesInv, CrashRestart, RpcOK, RpcTypeOK
<1> QED BY <1>1, <1>2, <1>3, <1>4, <1>5 DEF TypesInv, CrashRestart

LEMMA TypesInit ==
    ASSUME Init
    PROVE  TypesInv
<1>1. QueueOK
  BY NullRecords
     DEF Init, QueueInit, QueueOK, QueueTypeOK, AbsentAttempt
<1>2. SessionOK
  <2>1. NoProc \in ProcRecord
    BY DEF NoProc, ProcRecord, ExitCodes
  <2> QED BY NullRecords, <2>1
          DEF Init, SessionInit, SessionOK, SessionTypeOK, AbsentSession
<1>3. DispatchOK
  <2>1. DispatchIdle \in DispatchRecord
    <3>1. NextEntry({}) = DispatchIdle
      BY DEF NextEntry
    <3> QED BY <3>1, NextEntryOK
  <2> QED BY <2>1 DEF Init, DispatchInit, DispatchOK, DispatchTypeOK,
                      DispatchIdle
<1>4. MonitorOK
  BY MonitorIdleOK
     DEF Init, MonitorInit, MonitorOK, MonitorTypeOK, MonitorIdle
<1>5. RpcOK
  BY RpcIdleOK DEF Init, RpcInit, RpcOK, RpcTypeOK, RpcIdle, ControlPCs
<1> QED BY <1>1, <1>2, <1>3, <1>4, <1>5 DEF TypesInv, Init

LEMMA TypesStep ==
    ASSUME TypesInv, [Next]_vars
    PROVE  TypesInv'
<1>1. CASE Dispatch
  <2>1. QueueOK' /\ SessionOK' /\ DispatchOK' /\ Kept
    BY <1>1, DispatcherTypes DEF Dispatch, TypesInv
  <2>2. MonitorOK' /\ RpcOK'
    BY <1>1, <2>1, MonitorKept, RequestKept DEF Dispatch, TypesInv
  <2> QED BY <1>1, <2>1, <2>2 DEF Dispatch, TypesInv
<1>2. CASE Observe
  <2>1. QueueOK' /\ SessionOK' /\ MonitorOK' /\ Kept
    BY <1>2, MonitorTypes DEF Observe, TypesInv
  <2>2. DispatchOK' /\ RpcOK'
    BY <1>2, <2>1, DispatcherKept, RequestKept DEF Observe, TypesInv
  <2> QED BY <1>2, <2>1, <2>2 DEF Observe, TypesInv
<1>3. CASE Serve
  <2>1. QueueOK' /\ SessionOK' /\ RpcOK' /\ Kept
    BY <1>3, RpcTypes DEF Serve, TypesInv
  <2>2. DispatchOK' /\ MonitorOK'
    BY <1>3, <2>1, DispatcherKept, MonitorKept DEF Serve, TypesInv
  <2> QED BY <1>3, <2>1, <2>2 DEF Serve, TypesInv
<1>4. CASE Environment
  <2>1. QueueOK' /\ SessionOK' /\ Kept
    BY <1>4, EnvironmentTypes DEF TypesInv
  <2>2. UNCHANGED <<dispatchVars, monitorVars, rpcVars, crashes>>
    BY <1>4 DEF Environment, ProcessExits, Reaped, PidTakenAgain,
                DeadlinePasses, LeaseExpires, HoldElapses
  <2> QED BY <2>1, <2>2, DispatcherKept, MonitorKept, RequestKept DEF TypesInv
<1>5. CASE CrashRestart
  BY <1>5, CrashTypes
<1>6. CASE UNCHANGED vars
  <2>1. /\ UNCHANGED queueVars /\ UNCHANGED sessionVars
        /\ UNCHANGED <<dispatchVars, monitorVars, rpcVars, crashes>>
    BY <1>6 DEF vars
  <2>2. QueueOK' /\ Kept
    BY <2>1, QueueKept DEF TypesInv
  <2> QED BY <2>1, <2>2, SessionsKept, DispatcherKept, MonitorKept, RequestKept
          DEF TypesInv
<1> QED BY <1>1, <1>2, <1>3, <1>4, <1>5, <1>6 DEF Next

(* The records in the files and the copies the threads hold always have    *)
(* their types, for any number of jobs, attempts, sessions and crashes.    *)
THEOREM TypeCorrectness == Spec => []TypeOK
<1>1. Init => TypesInv
  BY TypesInit
<1>2. TypesInv /\ [Next]_vars => TypesInv'
  BY TypesStep
<1>3. TypesInv => TypeOK
  BY DEF TypesInv, TypeOK, QueueOK, SessionOK, DispatchOK, MonitorOK, RpcOK
<1> QED BY <1>1, <1>2, <1>3, PTL DEF Spec

-----------------------------------------------------------------------------
(* Capacity *)

(* The limit was checked on one state of the store and the claim is made   *)
(* on a later one: between the two nobody else may take a slot.            *)
CapacityInv ==
    /\ GlobalCapacity
    /\ disp.pc = "claim" => Cardinality(Active) < GlobalLimit

(* A record that takes no slot was saved. *)
LEMMA InactiveSaved ==
    ASSUME QueueOK, NEW a \in Attempts, NEW rec, SaveAttempt(a, rec),
           rec.state \notin {"CLAIMED", "RUNNING"}
    PROVE  Active' \subseteq Active
BY DEF QueueOK, QueueTypeOK, SaveAttempt, Active

LEMMA ActiveKept ==
    ASSUME attempts' = attempts
    PROVE  Active' \subseteq Active
BY DEF Active

LEMMA HoldingFinite ==
    ASSUME DispatchOK
    PROVE  /\ Holding \in SUBSET Attempts
           /\ IsFiniteSet(Holding) /\ Cardinality(Holding) \in Nat
           /\ IsFiniteSet(Active) /\ Cardinality(Active) \in Nat
<1>1. Active \in SUBSET Attempts
  BY DEF Active
<1>2. Holding \in SUBSET Attempts
  BY <1>1 DEF Holding, InFlight, DispatchOK
<1> QED BY <1>1, <1>2, QueueAssumption, FS_Subset, FS_CardinalityType

(* No slot was taken. *)
LEMMA NoNewSlot ==
    ASSUME DispatchOK, CapacityInv, Holding' \subseteq Holding,
           disp'.pc = "claim" => disp.pc = "claim" /\ Active' \subseteq Active
    PROVE  CapacityInv'
<1>1. /\ IsFiniteSet(Holding) /\ Cardinality(Holding) \in Nat
      /\ IsFiniteSet(Active) /\ Cardinality(Active) \in Nat
  BY HoldingFinite
<1>2. IsFiniteSet(Holding') /\ Cardinality(Holding') <= Cardinality(Holding)
  BY <1>1, FS_Subset
<1>3. Cardinality(Holding') \in Nat
  BY <1>2, FS_CardinalityType
<1>4. GlobalCapacity'
  BY <1>1, <1>2, <1>3, QueueAssumption DEF CapacityInv, GlobalCapacity
<1>5. ASSUME disp'.pc = "claim"
      PROVE  Cardinality(Active') < GlobalLimit
  <2>1. IsFiniteSet(Active') /\ Cardinality(Active') <= Cardinality(Active)
    BY <1>1, <1>5, FS_Subset
  <2>2. Cardinality(Active') \in Nat
    BY <2>1, FS_CardinalityType
  <2> QED BY <1>1, <1>5, <2>1, <2>2, QueueAssumption DEF CapacityInv
<1> QED BY <1>4, <1>5 DEF CapacityInv

(* Only the dispatcher takes slots. *)
LEMMA OthersTakeNoSlot ==
    ASSUME DispatchOK, CapacityInv, Active' \subseteq Active, disp' = disp
    PROVE  CapacityInv'
<1>1. Holding' \subseteq Holding
  BY DEF Holding, InFlight
<1> QED BY <1>1, NoNewSlot

LEMMA MonitorCapacity ==
    ASSUME QueueOK, MonitorOK, MonitorStep
    PROVE  Active' \subseteq Active
<1>1. CASE M_EndedAttempt
  <2>1. CurAttempt \in Attempts
    BY <1>1, CurrentSession DEF M_EndedAttempt
  <2>2. mon.att \in AttemptRecord
    BY DEF MonitorOK, MonitorTypeOK, MonitorRecord
  <2> QED BY <1>1, <2>1, <2>2, InactiveSaved
          DEF M_EndedAttempt, EndedAs, AttemptRecord
<1>2. CASE M_FinalAttempt
  <2>1. CurAttempt \in Attempts
    BY <1>2, CurrentSession DEF M_FinalAttempt
  <2>2. mon.att \in AttemptRecord /\ mon.out.attempt \in TerminalAttemptStates
    BY DEF MonitorOK, MonitorTypeOK, MonitorRecord, Outcome
  <2> QED BY <1>2, <2>1, <2>2, InactiveSaved
          DEF M_FinalAttempt, TerminalAttemptStates, AttemptRecord
<1>3. CASE attempts' = attempts
  BY <1>3, ActiveKept
<1> QED BY <1>1, <1>2, <1>3
        DEF MonitorStep, queueVars, M_Poll, M_SkipFinished, M_SessionEnded,
            M_Gone, M_Overdue, M_Running, M_Observe, M_Kill, M_AlreadyEmitted,
            M_FinalSession, M_ReadJob, M_WriteJob, M_Emit

LEMMA RpcCapacity ==
    ASSUME QueueOK, RpcOK, RpcStep
    PROVE  Active' \subseteq Active
<1>r. rpc.att \in AttemptRecord /\ rpc.to \in TerminalAttemptStates
  BY DEF RpcOK, RpcTypeOK, RpcRecord
<1>n. \A j : NewAttempt(j).state = "CREATED"
  BY DEF NewAttempt, AbsentAttempt
<1>1. CASE R_SubmitAttempt
  BY <1>1, <1>n, InactiveSaved DEF R_SubmitAttempt, RpcOK
<1>2. CASE R_SubmitQueue
  BY <1>2, <1>r, InactiveSaved DEF R_SubmitQueue, RpcOK, AttemptRecord
<1>3. CASE R_RetryAttempt
  BY <1>3, <1>n, InactiveSaved DEF R_RetryAttempt, RetryIds
<1>4. CASE R_RetryQueue
  BY <1>4, <1>r, InactiveSaved DEF R_RetryQueue, RpcOK, AttemptRecord
<1>5. CASE R_MarkAttempt
  <2>1. TargetAttempt \in Attempts
    BY <1>5, TargetBound DEF R_MarkAttempt, ControlPCs, RpcPCs
  <2> QED BY <1>5, <1>r, <2>1, InactiveSaved
          DEF R_MarkAttempt, TerminalAttemptStates, AttemptRecord
<1>6. CASE attempts' = attempts
  BY <1>6, ActiveKept
<1> QED BY <1>1, <1>2, <1>3, <1>4, <1>5, <1>6
        DEF RpcStep, queueVars, StartControl,
            R_Submit, R_Retry, R_RetryRefused, R_RetryJob, R_Cancel,
            R_CancelMark, R_CancelByAdapter, R_CancelByScope, R_CancelFails,
            R_CancelSave, R_CancelRevert, R_MarkRead, R_MarkJobRead, R_MarkJob,
            R_MarkEmit, R_Inspect, R_InspectGone, R_InspectReused,
            R_InspectNoChange, R_Reconcile, R_ReconcileCancelled,
            R_ReconcileGone, R_ReconcileNoChange, R_ReconcileRetryCancel,
            R_ReconcileRediscover, R_Rediscover, R_ReconcileReused

LEMMA EnvironmentCapacity ==
    ASSUME QueueOK, Environment
    PROVE  Active' \subseteq Active
<1>1. ASSUME NEW a \in Attempts, LeaseExpires(a) \/ HoldElapses(a)
      PROVE  Active' \subseteq Active
  <2>1. attempts[a] \in AttemptRecord
    BY DEF QueueOK, QueueTypeOK
  <2>2. \A b \in Attempts : attempts'[b].state = attempts[b].state
    BY <1>1, <2>1
       DEF LeaseExpires, HoldElapses, SaveAttempt, QueueOK, QueueTypeOK,
           AttemptRecord
  <2> QED BY <2>2 DEF Active
<1>2. CASE attempts' = attempts
  BY <1>2, ActiveKept
<1> QED BY <1>1, <1>2
        DEF Environment, queueVars, ProcessExits, Reaped, PidTakenAgain,
            DeadlinePasses

LEMMA DispatcherCapacity ==
    ASSUME QueueOK, DispatchOK, CapacityInv, DispatcherStep
    PROVE  CapacityInv'
<1>d. disp \in DispatchRecord
  BY DEF DispatchOK, DispatchTypeOK
(* The loop goes on without a slot for the entry it is done with. *)
<1>l. ASSUME NEW Q \in SUBSET QueueEntry, disp' = NextEntry(Q),
             Active' \subseteq Active
      PROVE  CapacityInv'
  <2>1. disp'.pc \in {"idle", "examine"}
    BY <1>l, NextEntryOK
  <2>2. Holding' \subseteq Holding
    BY <1>l, <2>1 DEF Holding, InFlight
  <2> QED BY <2>1, <2>2, NoNewSlot
(* The slot of the attempt in flight is kept or given back. *)
<1>f. ASSUME InFlight, disp'.cur = disp.cur, disp'.pc # "claim",
             Active' \subseteq Active \cup {disp.cur}
      PROVE  CapacityInv'
  <2>1. Holding' \subseteq Holding
    BY <1>f DEF Holding
  <2> QED BY <1>f, <2>1, NoNewSlot
(* A copy of the attempt in flight is saved, in any state. *)
<1>s. ASSUME NEW rec, SaveAttempt(disp.cur, rec)
      PROVE  Active' \subseteq Active \cup {disp.cur}
  BY <1>s DEF SaveAttempt, Active, QueueOK, QueueTypeOK
<1>q. /\ disp.queue \in SUBSET QueueEntry
      /\ \A e : disp.queue \ {e} \in SUBSET QueueEntry
  BY <1>d DEF DispatchRecord
<1>1. CASE D_Pass
  <2>1. Active' \subseteq Active
    BY <1>1 DEF D_Pass, Recovered, Released, Active, QueueOK, QueueTypeOK,
                AttemptRecord
  <2>2. disp'.pc \in {"idle", "examine"}
    BY <1>1 DEF D_Pass, NextEntry, DispatchIdle
  <2>3. Holding' \subseteq Holding
    BY <2>1, <2>2 DEF Holding, InFlight
  <2> QED BY <2>2, <2>3, NoNewSlot
<1>2. CASE D_Skip
  BY <1>2, <1>l, <1>q, ActiveKept DEF D_Skip, queueVars
<1>3. CASE D_MayStart
  <2>1. attempts' = attempts /\ disp'.pc = "claim"
    BY <1>3, <1>d DEF D_MayStart, queueVars, DispatchRecord
  <2>2. Active' = Active
    BY <2>1 DEF Active
  <2>3. Holding' \subseteq Holding
    BY <2>1, <2>2 DEF Holding, InFlight
  <2>4. GlobalCapacity'
    <3>1. /\ IsFiniteSet(Holding) /\ Cardinality(Holding) \in Nat
      BY HoldingFinite
    <3>2. Cardinality(Holding') <= Cardinality(Holding)
      BY <2>3, <3>1, FS_Subset
    <3>3. IsFiniteSet(Holding')
      BY <2>3, <3>1, FS_Subset
    <3>4. Cardinality(Holding') \in Nat
      BY <3>3, FS_CardinalityType
    <3> QED BY <3>1, <3>2, <3>4, QueueAssumption DEF CapacityInv, GlobalCapacity
  <2>5. Cardinality(Active') < GlobalLimit
    BY <1>3, <2>2 DEF D_MayStart, CanStart
  <2> QED BY <2>4, <2>5 DEF CapacityInv
<1>4. CASE D_Claim
  <2> DEFINE a == HeadOf(disp.queue).id
  <2>1. /\ disp'.pc = "load" /\ disp'.cur = a
        /\ \E rec : SaveAttempt(a, rec)
    BY <1>4, <1>d DEF D_Claim, DispatchRecord
  <2> HIDE DEF a
  <2>2. Active' \subseteq Active \cup {a}
    BY <2>1 DEF SaveAttempt, Active, QueueOK, QueueTypeOK
  <2>3. Holding' \subseteq Active \cup {a}
    BY <2>1, <2>2 DEF Holding, InFlight
  <2>4. /\ IsFiniteSet(Active) /\ Cardinality(Active) \in Nat
        /\ Cardinality(Active) < GlobalLimit
    BY <1>4, HoldingFinite DEF D_Claim, CapacityInv
  <2>5. /\ IsFiniteSet(Active \cup {a})
        /\ Cardinality(Active \cup {a}) \in Nat
        /\ Cardinality(Active \cup {a}) <= Cardinality(Active) + 1
    BY <2>4, FS_AddElement, FS_CardinalityType
  <2>6. /\ Cardinality(Holding') <= Cardinality(Active \cup {a})
        /\ IsFiniteSet(Holding')
    BY <2>3, <2>5, FS_Subset
  <2>7. Cardinality(Holding') \in Nat
    BY <2>6, FS_CardinalityType
  <2>8. Cardinality(Holding') <= GlobalLimit
    BY <2>4, <2>5, <2>6, <2>7, QueueAssumption
  <2> QED BY <2>1, <2>8 DEF CapacityInv, GlobalCapacity
<1>5. CASE D_ClaimRefused
  BY <1>5, <1>l, <1>q, ActiveKept DEF D_ClaimRefused, queueVars
<1>6. CASE D_Load
  BY <1>6, <1>d, <1>f, ActiveKept DEF D_Load, queueVars, InFlight, DispatchRecord
<1>7. CASE D_NotClaimed
  BY <1>7, <1>l, <1>q, ActiveKept DEF D_NotClaimed, queueVars
<1>8. CASE D_Hold
  BY <1>8, <1>d, <1>f, <1>s DEF D_Hold, InFlight, DispatchRecord
<1>9. CASE D_HoldRelease
  <2>1. disp.cur \in Attempts
    BY <1>9 DEF D_HoldRelease, DispatchOK
  <2>2. attempts[disp.cur] \in AttemptRecord
    BY <2>1 DEF QueueOK, QueueTypeOK
  <2>3. Active' \subseteq Active
    BY <1>9, <2>1, <2>2, InactiveSaved, ActiveKept
       DEF D_HoldRelease, Released, AttemptRecord
  <2> QED BY <1>9, <1>l, <1>q, <2>3 DEF D_HoldRelease
<1>10. CASE D_RepoUnavailable
  <2>1. NextEntry({}) = DispatchIdle
    BY DEF NextEntry
  <2> QED BY <1>10, <1>l, <2>1, ActiveKept DEF D_RepoUnavailable, queueVars
<1>11. CASE D_Worktree
  BY <1>11, <1>d, <1>f, ActiveKept
     DEF D_Worktree, queueVars, InFlight, DispatchRecord
<1>12. CASE D_WorktreeFails
  BY <1>12, <1>d, <1>f, ActiveKept
     DEF D_WorktreeFails, queueVars, InFlight, DispatchRecord
<1>13. CASE D_Run
  BY <1>13, <1>d, <1>f, <1>s DEF D_Run, InFlight, DispatchRecord
<1>14. CASE D_StartFails
  BY <1>14, <1>d, <1>f, ActiveKept
     DEF D_StartFails, queueVars, InFlight, DispatchRecord
<1>15. CASE D_Start
  BY <1>15, <1>d, <1>f, ActiveKept
     DEF D_Start, queueVars, InFlight, DispatchRecord
<1>16. CASE D_Register
  BY <1>16, <1>d, <1>f, ActiveKept
     DEF D_Register, queueVars, InFlight, DispatchRecord
<1>17. CASE D_Bind
  BY <1>17, <1>d, <1>f, <1>s DEF D_Bind, InFlight, DispatchRecord
<1>18. CASE D_JobRun
  BY <1>18, <1>l, <1>q, ActiveKept DEF D_JobRun
<1>19. CASE D_Fail
  BY <1>19, <1>d, <1>f, <1>s DEF D_Fail, InFlight, DispatchRecord
<1>20. CASE D_FailJob
  BY <1>20, <1>l, <1>q, ActiveKept DEF D_FailJob
<1> QED
  BY <1>1, <1>2, <1>3, <1>4, <1>5, <1>6, <1>7, <1>8, <1>9, <1>10, <1>11,
     <1>12, <1>13, <1>14, <1>15, <1>16, <1>17, <1>18, <1>19, <1>20
     DEF DispatcherStep

LEMMA CapacityInit ==
    ASSUME Init
    PROVE  CapacityInv
<1>1. Active = {} /\ ~InFlight /\ disp.pc = "idle"
  BY DEF Init, QueueInit, Active, AbsentAttempt, DispatchInit, DispatchIdle,
         InFlight
<1>2. Holding = {}
  BY <1>1 DEF Holding
<1> QED BY <1>1, <1>2, FS_EmptySet, QueueAssumption DEF CapacityInv, GlobalCapacity

LEMMA CapacityStep ==
    ASSUME TypesInv, CapacityInv, [Next]_vars
    PROVE  CapacityInv'
<1>1. CASE Dispatch
  BY <1>1, DispatcherCapacity DEF Dispatch, TypesInv
<1>2. CASE Observe
  BY <1>2, MonitorCapacity, OthersTakeNoSlot
     DEF Observe, dispatchVars, TypesInv
<1>3. CASE Serve
  BY <1>3, RpcCapacity, OthersTakeNoSlot DEF Serve, dispatchVars, TypesInv
<1>4. CASE Environment
  <2>1. disp' = disp
    BY <1>4 DEF Environment, ProcessExits, Reaped, PidTakenAgain,
                DeadlinePasses, LeaseExpires, HoldElapses, dispatchVars
  <2> QED BY <1>4, <2>1, EnvironmentCapacity, OthersTakeNoSlot DEF TypesInv
<1>5. CASE CrashRestart
  <2>1. attempts' = attempts /\ disp'.pc = "idle"
    BY <1>5 DEF CrashRestart, queueVars, DispatchIdle
  <2>2. Holding' \subseteq Holding
    BY <2>1, ActiveKept DEF Holding, InFlight
  <2> QED BY <2>1, <2>2, NoNewSlot DEF TypesInv
<1>6. CASE UNCHANGED vars
  BY <1>6, ActiveKept, OthersTakeNoSlot
     DEF vars, queueVars, dispatchVars, TypesInv
<1> QED BY <1>1, <1>2, <1>3, <1>4, <1>5, <1>6 DEF Next

(* Scheduler.global_limit is never exceeded, counting the slots of claims  *)
(* in flight: although can_start and claim are separate reads, although    *)
(* stale copies are saved back, whatever the other threads do between two  *)
(* steps of the dispatcher and wherever the daemon crashes.                *)
THEOREM GlobalLimitHolds == Spec => []GlobalCapacity
<1>1. Init => TypesInv /\ CapacityInv
  BY TypesInit, CapacityInit
<1>2. TypesInv /\ CapacityInv /\ [Next]_vars => (TypesInv /\ CapacityInv)'
  BY TypesStep, CapacityStep
<1>3. CapacityInv => GlobalCapacity
  BY DEF CapacityInv
<1> QED BY <1>1, <1>2, <1>3, PTL DEF Spec

=============================================================================

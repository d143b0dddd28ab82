---------------------------- MODULE DaemonProofs ----------------------------
(***************************************************************************)
(* What is proved of the components the daemon works with beside its       *)
(* control plane: the payload store, the outbox of lifecycle events and    *)
(* the bus they are streamed from, the admission check of the local lane,  *)
(* and the runtime of managed sessions.  They share no state; each part    *)
(* has its own inductive invariant.                                        *)
(***************************************************************************)
EXTENDS PayloadStore, EventOutbox, EventStream, LocalAdmission, HarnessRuntime,
        SequenceTheorems, FiniteSetTheorems, WellFoundedInduction, TLAPS

-----------------------------------------------------------------------------
(* The payload store.  The runs of a job are given what was submitted      *)
(* whatever the disk does: the hash in the job is the only thing that is   *)
(* believed, and it is written once, with the payload that was submitted.  *)

(* A payload id that was not used yet has neither a job nor runs, which is *)
(* what makes it safe to use.                                              *)
StoreInv ==
    /\ submitted \in [Payloads -> Texts \cup {NoPayload}]
    /\ jobHash \in [Payloads -> Texts \cup {NoPayload, NoJob}]
    /\ given \in [Payloads -> SUBSET Texts]
    /\ submitting \in Payloads \cup {NoPayload}
    /\ submitting # NoPayload => submitted[submitting] # NoPayload
    /\ \A p \in Payloads : jobHash[p] \in {NoJob, submitted[p]}
    /\ \A p \in Payloads : given[p] \subseteq {submitted[p]}
    /\ \A p \in Payloads : submitted[p] = NoPayload => jobHash[p] = NoJob /\ given[p] = {}

LEMMA StoreInitially ==
    ASSUME PayloadInit
    PROVE  StoreInv
BY DEF PayloadInit, StoreInv

(* The text of a trusted file of a job is the one that was submitted.      *)
LEMMA TrustedIsSubmitted ==
    ASSUME StoreInv, NEW p \in Payloads, jobHash[p] # NoJob, Trusted(p)
    PROVE  payloadFiles[p].text = submitted[p] /\ submitted[p] \in Texts
BY DEF StoreInv, Trusted, Readable

LEMMA StoreStep ==
    ASSUME PayloadAssumption, StoreInv, [PayloadNext]_payloadVars
    PROVE  StoreInv'
<1>1. CASE PutPayload
  <2>1. PICK p \in Payloads, t \in Texts :
            /\ submitted[p] = NoPayload
            /\ submitted' = [submitted EXCEPT ![p] = t]
            /\ submitting' = p
    BY <1>1 DEF PutPayload
  <2>2. jobHash' = jobHash /\ given' = given
    BY <1>1 DEF PutPayload
  <2>3. jobHash[p] = NoJob /\ given[p] = {} /\ t # NoPayload
    BY <2>1 DEF StoreInv, PayloadAssumption
  <2> QED BY <2>1, <2>2, <2>3 DEF StoreInv
<1>2. CASE SaveJobOfPayload
  BY <1>2 DEF SaveJobOfPayload, StoreInv
<1>3. CASE SubmitDies
  BY <1>3 DEF SubmitDies, StoreInv
<1>4. CASE GiveToRun
  <2>1. PICK p \in Payloads :
            /\ jobHash[p] # NoJob /\ Trusted(p)
            /\ given' = [given EXCEPT ![p] = @ \cup {payloadFiles[p].text}]
    BY <1>4 DEF GiveToRun
  <2>2. payloadFiles[p].text = submitted[p] /\ submitted[p] \in Texts
    BY <2>1, TrustedIsSubmitted
  <2>3. given' = [given EXCEPT ![p] = given[p] \cup {submitted[p]}]
    BY <2>1, <2>2
  <2>4. UNCHANGED <<jobHash, submitted, submitting>>
    BY <1>4 DEF GiveToRun
  <2>5. jobHash[p] = submitted[p]
    BY <2>1 DEF StoreInv
  <2> QED BY <2>1, <2>2, <2>3, <2>4, <2>5 DEF StoreInv
<1>5. CASE DeletePayload \/ CleanupExpired \/ RetentionEnds \/ AlterFile
  <2>1. UNCHANGED <<jobHash, submitted, given, submitting>>
    BY <1>5 DEF DeletePayload, CleanupExpired, RetentionEnds, AlterFile
  <2> QED BY <2>1 DEF StoreInv
<1>6. CASE UNCHANGED payloadVars
  BY <1>6 DEF payloadVars, StoreInv
<1> QED BY <1>1, <1>2, <1>3, <1>4, <1>5, <1>6 DEF PayloadNext

(* The files of the store are envelopes, whatever the disk does to them.   *)
FilesTyped == payloadFiles \in [Payloads -> Envelope \cup {NoPayload}]

LEMMA FilesInitially ==
    ASSUME PayloadInit
    PROVE  FilesTyped
BY DEF PayloadInit, FilesTyped

LEMMA FilesStep ==
    ASSUME FilesTyped, [PayloadNext]_payloadVars
    PROVE  FilesTyped'
<1> USE DEF FilesTyped
<1>1. CASE PutPayload
  BY <1>1 DEF PutPayload, Envelope
<1>2. CASE SaveJobOfPayload \/ SubmitDies \/ GiveToRun \/ UNCHANGED payloadVars
  BY <1>2 DEF SaveJobOfPayload, SubmitDies, GiveToRun, payloadVars
<1>3. CASE DeletePayload \/ CleanupExpired
  BY <1>3 DEF DeletePayload, CleanupExpired
<1>4. CASE RetentionEnds
  BY <1>4 DEF RetentionEnds, Envelope
<1>5. CASE AlterFile
  BY <1>5 DEF AlterFile, Envelope
<1> QED BY <1>1, <1>2, <1>3, <1>4, <1>5 DEF PayloadNext

LEMMA PayloadTypes ==
    ASSUME StoreInv, FilesTyped
    PROVE  PayloadTypeOK
BY DEF StoreInv, FilesTyped, PayloadTypeOK

(* Every run of a job, the first and those of every retry, is given the    *)
(* instructions that were submitted: dispatch_claimed and retry_job        *)
(* compare the file with the hash in the job, so that no damage to the     *)
(* files, and no exchange of one for another, reaches a run.               *)
THEOREM RunsAreGivenTheSubmission ==
    ASSUME PayloadAssumption
    PROVE  PayloadSpec => []RunsGetWhatWasSubmitted
<1>1. PayloadInit => StoreInv
  BY StoreInitially
<1>2. StoreInv /\ [PayloadNext]_payloadVars => StoreInv'
  BY StoreStep
<1>3. StoreInv => RunsGetWhatWasSubmitted
  BY DEF StoreInv, RunsGetWhatWasSubmitted
<1> QED BY <1>1, <1>2, <1>3, PTL DEF PayloadSpec

-----------------------------------------------------------------------------
(* The outbox.  A copy of the file that is about to replace it says        *)
(* delivered of no event that the webhook has not accepted; the webhook    *)
(* takes nothing back, so that it does not matter how old the copy is.     *)

OutboxRows == Seq([event : Nat, state : RowStates])

Delivered(lines) ==
    \A i \in DOMAIN lines : lines[i].state = "delivered" => lines[i].event \in accepted

OutboxInv ==
    /\ outboxFile \in OutboxRows /\ Delivered(outboxFile)
    /\ emitted \in Nat
    /\ DOMAIN emitter = Emitters
    /\ emitting \subseteq Emitters
    /\ \A e \in Emitters :
          /\ emitter[e].pc \in {"read", "replace"} =>
                /\ emitter[e].mark \in RowStates
                /\ emitter[e].mark = "delivered" => Current(e) \in accepted
          /\ emitter[e].pc = "replace" =>
                emitter[e].lines \in OutboxRows /\ Delivered(emitter[e].lines)

(* Marking the rows of an event keeps the rows and their events.           *)
LEMMA RewrittenRows ==
    ASSUME NEW lines \in OutboxRows, NEW n, NEW s \in RowStates
    PROVE  /\ Rewritten(lines, n, s) \in OutboxRows
           /\ DOMAIN Rewritten(lines, n, s) = DOMAIN lines
           /\ \A i \in DOMAIN lines :
                 /\ Rewritten(lines, n, s)[i].event = lines[i].event
                 /\ Rewritten(lines, n, s)[i].state =
                       IF lines[i].event = n THEN s ELSE lines[i].state
<1> DEFINE Row == [event : Nat, state : RowStates]
           marked == Rewritten(lines, n, s)
<1>0. lines \in Seq(Row)
  BY DEF OutboxRows
<1>1. \A i \in DOMAIN lines : lines[i] \in Row
  <2> HIDE DEF Row
  <2> QED BY <1>0
<1>2. DOMAIN marked = DOMAIN lines
  BY DEF Rewritten
<1>3. ASSUME NEW i \in DOMAIN lines
      PROVE  /\ marked[i] \in Row
             /\ marked[i].event = lines[i].event
             /\ marked[i].state = IF lines[i].event = n THEN s ELSE lines[i].state
  BY <1>1, <1>3 DEF Rewritten
<1>4. marked = [i \in 1..Len(lines) |-> marked[i]] /\ Len(lines) \in Nat
  BY <1>0 DEF Rewritten
<1>5. marked \in Seq(Row)
  <2> HIDE DEF Row, marked
  <2>1. DOMAIN lines = 1..Len(lines)
    BY <1>0
  <2>2. marked \in [1..Len(lines) -> Row]
    BY <2>1, <1>2, <1>3, <1>4
  <2> QED BY <2>2, <1>4, SeqDef
<1> QED BY <1>2, <1>3, <1>5 DEF OutboxRows

LEMMA OutboxInitially ==
    ASSUME OutboxInit
    PROVE  OutboxInv
BY DEF OutboxInit, OutboxInv, OutboxRows, Delivered, IdleEmitter

LEMMA OutboxStep ==
    ASSUME OutboxInv, [OutboxNext]_outboxVars
    PROVE  OutboxInv'
<1>1. ASSUME NEW e \in emitting, AppendEvent(e)
      PROVE  OutboxInv'
  <2> DEFINE row == [event |-> emitted + 1, state |-> "pending"]
  <2>1. outboxFile' = Append(outboxFile, row) /\ emitted' = emitted + 1
    BY <1>1 DEF AppendEvent
  <2>2. UNCHANGED <<emitting, accepted>>
    BY <1>1 DEF AppendEvent
  <2>3. outboxFile' \in OutboxRows /\ Delivered(outboxFile)'
    BY <2>1, <2>2 DEF OutboxInv, Current, OutboxRows, Delivered, RowStates
  <2>4. \A d \in Emitters :
           \/ emitter'[d] = emitter[d]
           \/ emitter'[d].pc = "post"
    BY <1>1 DEF AppendEvent, OutboxInv
  <2>5. DOMAIN emitter' = Emitters
    BY <1>1 DEF AppendEvent, OutboxInv
  <2> QED BY <2>1, <2>2, <2>3, <2>4, <2>5 DEF OutboxInv, Current, Delivered
<1>2. ASSUME NEW e \in emitting, RetryFailed(e)
      PROVE  OutboxInv'
  <2>1. /\ UNCHANGED <<emitting, outboxFile, emitted, accepted>>
        /\ DOMAIN emitter' = Emitters
        /\ \A d \in Emitters : emitter'[d] = emitter[d] \/ emitter'[d].pc = "post"
    BY <1>2 DEF RetryFailed, OutboxInv
  <2> QED BY <2>1 DEF OutboxInv, Current, Delivered
<1>3. ASSUME NEW e \in emitting, Post(e)
      PROVE  OutboxInv'
  <2> DEFINE n == Current(e)
             tries == emitter[e].posts + 1
             marked(s) == [emitter EXCEPT ![e].pc = "read", ![e].mark = s, ![e].posts = 0]
             tried == [emitter EXCEPT ![e].posts = tries]
  <2>1. /\ UNCHANGED <<emitting, outboxFile, emitted>>
        /\ emitter[e].pc = "post" /\ e \in Emitters
        /\ accepted \subseteq accepted'
        /\ \/ n \in accepted' /\ emitter' = marked("delivered")
           \/ emitter' = marked("failed")
           \/ emitter' = tried
    BY <1>3 DEF Post, OutboxInv
  <2>2. Delivered(outboxFile)'
    BY <2>1 DEF OutboxInv, Current, Delivered
  <2>3. DOMAIN emitter' = Emitters /\ \A d \in Emitters \ {e} : emitter'[d] = emitter[d]
    BY <2>1 DEF OutboxInv, Current
  <2>4. \A d \in Emitters \ {e} :
          /\ emitter'[d].pc \in {"read", "replace"} =>
                /\ emitter'[d].mark \in RowStates
                /\ emitter'[d].mark = "delivered" => Current(d)' \in accepted'
          /\ emitter'[d].pc = "replace" =>
                emitter'[d].lines \in OutboxRows /\ Delivered(emitter[d].lines)'
    BY <2>1, <2>3 DEF OutboxInv, Current, Delivered
  <2>5. /\ emitter'[e].pc \in {"read", "replace"} =>
              /\ emitter'[e].mark \in RowStates
              /\ emitter'[e].mark = "delivered" => Current(e)' \in accepted'
        /\ emitter'[e].pc # "replace"
    <3>1. CASE n \in accepted' /\ emitter' = marked("delivered")
      BY <2>1, <3>1 DEF OutboxInv, Current, RowStates
    <3>2. CASE emitter' = marked("failed")
      BY <2>1, <3>2 DEF OutboxInv, Current, RowStates
    <3>3. CASE emitter' = tried
      BY <2>1, <3>3 DEF OutboxInv, Current
    <3> QED BY <2>1, <3>1, <3>2, <3>3
  <2> QED BY <2>1, <2>2, <2>3, <2>4, <2>5 DEF OutboxInv, Current
<1>4. ASSUME NEW e \in emitting, ReadLines(e)
      PROVE  OutboxInv'
  <2> DEFINE copy == Rewritten(outboxFile, Current(e), emitter[e].mark)
  <2>1. /\ emitter' = [emitter EXCEPT ![e].pc = "replace", ![e].lines = copy]
        /\ emitter[e].pc = "read" /\ e \in Emitters
        /\ UNCHANGED <<emitting, outboxFile, emitted, accepted>>
    BY <1>4 DEF ReadLines, OutboxInv
  <2>2. copy \in OutboxRows /\ Delivered(copy)
    BY <2>1, RewrittenRows DEF OutboxInv, Current, Delivered
  <2> HIDE DEF copy
  <2> QED BY <2>1, <2>2 DEF OutboxInv, Current, Delivered
<1>5. ASSUME NEW e \in emitting, ReplaceFile(e)
      PROVE  OutboxInv'
  <2>1. /\ outboxFile' = emitter[e].lines
        /\ emitter[e].pc = "replace" /\ e \in Emitters
        /\ UNCHANGED <<emitting, emitted, accepted>>
        /\ DOMAIN emitter' = Emitters
        /\ \A d \in Emitters : emitter'[d] = emitter[d] \/ emitter'[d].pc \in {"idle", "post"}
    BY <1>5 DEF ReplaceFile, OutboxInv, IdleEmitter
  <2> QED BY <2>1 DEF OutboxInv, Current, Delivered
<1>6. CASE OutboxCrash
  BY <1>6 DEF OutboxCrash, OutboxInv, Delivered, IdleEmitter
<1>7. CASE UNCHANGED outboxVars
  BY <1>7 DEF outboxVars, OutboxInv, Current, Delivered
<1> QED BY <1>1, <1>2, <1>3, <1>4, <1>5, <1>6, <1>7 DEF OutboxNext

(* A row says delivered only when the webhook has accepted its event, for  *)
(* any number of threads that overwrite each other's rows, and whenever    *)
(* the daemon dies.                                                        *)
THEOREM DeliveredIsAlwaysTrue == OutboxSpec => []DeliveredIsTrue
<1>1. OutboxInit => OutboxInv
  BY OutboxInitially
<1>2. OutboxInv /\ [OutboxNext]_outboxVars => OutboxInv'
  BY OutboxStep
<1>3. OutboxInv => DeliveredIsTrue
  BY DEF OutboxInv, Current, Delivered, DeliveredIsTrue
<1> QED BY <1>1, <1>2, <1>3, PTL DEF OutboxSpec

(* The least of a set of numbers is one of them.                           *)
LEMMA MinIsAMember ==
    ASSUME NEW S \in SUBSET Nat, S # {}
    PROVE  Min(S) \in S
<1> DEFINE R == OpToRel(<, Nat)
<1>1. \E x \in S : \A y \in S : ~ (<<y, x>> \in R)
  <2>1. IsWellFoundedOn(R, Nat)
    BY NatLessThanWellFounded
  <2> HIDE DEF R
  <2> QED BY <2>1, WFMin
<1>2. \A x, y \in S : y < x => <<y, x>> \in R
  BY DEF OpToRel
<1> HIDE DEF R
<1>3. \A x, y \in S : ~(y < x) => x <= y
  OBVIOUS
<1>4. \E x \in S : \A y \in S : x <= y
  BY <1>1, <1>2, <1>3
<1> QED BY <1>4 DEF Min

(* The shape of the outbox: the rows of the file, and of every copy of it, *)
(* are of events that were emitted, in the order they were; so are those a *)
(* thread has still to post.                                               *)
InOrder(lines) ==
    /\ \A i \in DOMAIN lines : lines[i].event \in 1..emitted
    /\ \A i, j \in DOMAIN lines : i < j => lines[i].event < lines[j].event

OutboxTyped ==
    /\ webhook \in BOOLEAN
    /\ emitted \in 0..MaxEmitted
    /\ accepted \subseteq 1..emitted
    /\ InOrder(outboxFile)
    /\ \A e \in Emitters :
          /\ emitter[e].pc \in {"idle", "post", "read", "replace"}
          /\ emitter[e].todo \subseteq 1..emitted
          /\ emitter[e].pc # "idle" => emitter[e].todo # {}
          /\ emitter[e].pc = "replace" => InOrder(emitter[e].lines)

LEMMA OutboxTypedInitially ==
    ASSUME OutboxAssumption, OutboxInit
    PROVE  OutboxTyped
BY DEF OutboxAssumption, OutboxInit, OutboxTyped, InOrder, IdleEmitter

LEMMA OutboxTypedStep ==
    ASSUME OutboxAssumption, OutboxInv, OutboxTyped, [OutboxNext]_outboxVars
    PROVE  OutboxTyped'
<1>0. MaxEmitted \in Nat /\ emitted \in Nat
  BY DEF OutboxAssumption, OutboxTyped
<1>1. ASSUME NEW e \in emitting, AppendEvent(e)
      PROVE  OutboxTyped'
  <2> DEFINE row == [event |-> emitted + 1, state |-> "pending"]
  <2>1. outboxFile' = Append(outboxFile, row) /\ emitted' = emitted + 1
        /\ emitted < MaxEmitted /\ UNCHANGED <<webhook, accepted>>
        /\ e \in Emitters
    BY <1>1 DEF AppendEvent, OutboxInv
  <2>2. /\ Len(outboxFile) \in Nat
        /\ DOMAIN outboxFile = 1..Len(outboxFile)
        /\ DOMAIN outboxFile' = 1..(Len(outboxFile) + 1)
        /\ \A i \in DOMAIN outboxFile' :
              outboxFile'[i] = IF i = Len(outboxFile) + 1 THEN row ELSE outboxFile[i]
    BY <2>1 DEF OutboxInv, OutboxRows
  <2>3. InOrder(outboxFile)'
    BY <1>0, <2>1, <2>2 DEF InOrder, OutboxTyped
  <2>4. 1..emitted \subseteq 1..emitted' /\ emitted' \in 0..MaxEmitted
    BY <1>0, <2>1
  <2>5. ASSUME NEW d \in Emitters
        PROVE  /\ emitter'[d].pc \in {"idle", "post", "read", "replace"}
               /\ emitter'[d].todo \subseteq 1..emitted'
               /\ emitter'[d].pc # "idle" => emitter'[d].todo # {}
               /\ emitter'[d].pc = "replace" => InOrder(emitter[d].lines)'
    <3>1. CASE emitter'[d] = emitter[d]
      BY <2>4, <3>1 DEF OutboxTyped, InOrder
    <3>2. CASE emitter'[d].pc = "post" /\ emitter'[d].todo = {emitted + 1}
      BY <1>0, <2>1, <3>2
    <3> QED BY <1>1, <2>1, <3>1, <3>2 DEF AppendEvent, OutboxInv
  <2> QED BY <2>1, <2>3, <2>4, <2>5 DEF OutboxTyped
<1>2. ASSUME NEW e \in emitting, RetryFailed(e)
      PROVE  OutboxTyped'
  <2>1. PICK open \in SUBSET DOMAIN outboxFile :
           /\ open # {}
           /\ emitter' = [emitter EXCEPT ![e].pc = "post",
                                         ![e].todo = {outboxFile[i].event : i \in open}]
    BY <1>2 DEF RetryFailed
  <2>2. UNCHANGED <<webhook, emitting, outboxFile, emitted, accepted>> /\ e \in Emitters
    BY <1>2 DEF RetryFailed, OutboxInv
  <2> DEFINE events == {outboxFile[i].event : i \in open}
  <2>3. events # {} /\ events \subseteq 1..emitted
    BY <2>1 DEF OutboxTyped, InOrder
  <2>6. emitter' = [emitter EXCEPT ![e].pc = "post", ![e].todo = events]
    BY <2>1
  <2> HIDE DEF events
  <2>4. \A d \in Emitters :
          \/ emitter'[d] = emitter[d]
          \/ emitter'[d].pc = "post" /\ emitter'[d].todo = events
    BY <2>2, <2>6 DEF OutboxInv
  <2>5. ASSUME NEW d \in Emitters
        PROVE  /\ emitter'[d].pc \in {"idle", "post", "read", "replace"}
               /\ emitter'[d].todo \subseteq 1..emitted'
               /\ emitter'[d].pc # "idle" => emitter'[d].todo # {}
               /\ emitter'[d].pc = "replace" => InOrder(emitter[d].lines)'
    BY <2>2, <2>3, <2>4 DEF OutboxTyped, InOrder
  <2> QED BY <2>2, <2>5 DEF OutboxTyped, InOrder
<1>3. ASSUME NEW e \in emitting, Post(e)
      PROVE  OutboxTyped'
  <2>1. Current(e) \in 1..emitted
    <3>1. e \in Emitters /\ emitter[e].pc = "post"
      BY <1>3 DEF Post, OutboxInv
    <3>2. emitter[e].todo \subseteq 1..emitted /\ emitter[e].todo # {}
      BY <3>1 DEF OutboxTyped
    <3>3. emitter[e].todo \in SUBSET Nat
      BY <1>0, <3>2
    <3>4. Min(emitter[e].todo) \in emitter[e].todo
      BY <3>2, <3>3, MinIsAMember
    <3> QED BY <3>2, <3>4 DEF Current
  <2>2. UNCHANGED <<webhook, emitting, outboxFile, emitted>> /\ accepted' \subseteq 1..emitted
    BY <1>3, <2>1 DEF Post, OutboxTyped
  <2> DEFINE tries == emitter[e].posts + 1
             marked(s) == [emitter EXCEPT ![e].pc = "read", ![e].mark = s, ![e].posts = 0]
             tried == [emitter EXCEPT ![e].posts = tries]
  <2>4. /\ emitter[e].pc = "post" /\ e \in Emitters
        /\ emitter' \in {marked("delivered"), marked("failed"), tried}
    BY <1>3 DEF Post, OutboxInv
  <2>3. \A d \in Emitters :
          /\ emitter'[d].todo = emitter[d].todo
          /\ \/ emitter'[d].pc = emitter[d].pc /\ emitter'[d].lines = emitter[d].lines
             \/ emitter'[d].pc = "read" /\ emitter[d].pc = "post"
    <3>1. ASSUME NEW s, emitter' = marked(s)
          PROVE  \A d \in Emitters :
                    /\ emitter'[d].todo = emitter[d].todo
                    /\ \/ emitter'[d] = emitter[d]
                       \/ emitter'[d].pc = "read" /\ emitter[d].pc = "post"
      BY <2>4, <3>1 DEF OutboxInv
    <3>2. CASE emitter' = tried
      BY <2>4, <3>2 DEF OutboxInv
    <3> QED BY <2>4, <3>1, <3>2
  <2> QED BY <2>2, <2>3 DEF OutboxTyped, InOrder
<1>4. ASSUME NEW e \in emitting, ReadLines(e)
      PROVE  OutboxTyped'
  <2> DEFINE copy == Rewritten(outboxFile, Current(e), emitter[e].mark)
  <2>1. /\ emitter' = [emitter EXCEPT ![e].pc = "replace", ![e].lines = copy]
        /\ emitter[e].pc = "read" /\ e \in Emitters
        /\ UNCHANGED <<webhook, emitting, outboxFile, emitted, accepted>>
    BY <1>4 DEF ReadLines, OutboxInv
  <2>2. /\ DOMAIN copy = DOMAIN outboxFile
        /\ \A i \in DOMAIN outboxFile : copy[i].event = outboxFile[i].event
    BY <2>1, RewrittenRows DEF OutboxInv
  <2> HIDE DEF copy
  <2>3. InOrder(copy)
    BY <2>2 DEF OutboxTyped, InOrder
  <2>4. \A d \in Emitters :
          \/ emitter'[d] = emitter[d]
          \/ /\ emitter'[d].pc = "replace" /\ emitter'[d].todo = emitter[d].todo
             /\ emitter[d].pc = "read" /\ emitter'[d].lines = copy
    BY <2>1 DEF OutboxInv
  <2> QED BY <2>1, <2>3, <2>4 DEF OutboxTyped, InOrder
<1>5. ASSUME NEW e \in emitting, ReplaceFile(e)
      PROVE  OutboxTyped'
  <2>1. /\ outboxFile' = emitter[e].lines
        /\ emitter[e].pc = "replace" /\ e \in Emitters
        /\ UNCHANGED <<webhook, emitting, emitted, accepted>>
        /\ \A d \in Emitters :
              \/ emitter'[d] = emitter[d]
              \/ emitter'[d].pc = "idle" /\ emitter'[d].todo = {}
              \/ /\ emitter'[d].pc = "post" /\ emitter'[d].todo # {}
                 /\ emitter'[d].todo \subseteq emitter[d].todo
    BY <1>5 DEF ReplaceFile, OutboxInv, IdleEmitter
  <2> QED BY <2>1 DEF OutboxTyped, InOrder
<1>6. CASE OutboxCrash
  BY <1>6 DEF OutboxCrash, OutboxTyped, InOrder, IdleEmitter
<1>7. CASE UNCHANGED outboxVars
  BY <1>7 DEF outboxVars, OutboxTyped, InOrder
<1> QED BY <1>1, <1>2, <1>3, <1>4, <1>5, <1>6, <1>7 DEF OutboxNext

LEMMA OutboxTypes ==
    ASSUME OutboxAssumption, OutboxInv, OutboxTyped
    PROVE  OutboxTypeOK
<1> DEFINE R == [event : Nat, state : RowStates]
<1>1. \A i \in DOMAIN outboxFile : outboxFile[i] \in R
  <2>1. outboxFile \in Seq(R)
    BY DEF OutboxInv, OutboxRows
  <2> HIDE DEF R
  <2> QED BY <2>1
<1>2. ASSUME NEW i \in DOMAIN outboxFile
      PROVE  outboxFile[i] \in EventRow
  <2>1. outboxFile[i] \in R
    BY <1>1
  <2>2. outboxFile[i].event \in 1..MaxEmitted
    BY DEF OutboxAssumption, OutboxTyped, InOrder
  <2> QED BY <2>1, <2>2 DEF EventRow
<1>3. outboxFile \in Seq(EventRow)
  <2>1. outboxFile \in Seq(R)
    BY DEF OutboxInv, OutboxRows
  <2> HIDE DEF R
  <2>2. outboxFile \in [1..Len(outboxFile) -> EventRow] /\ Len(outboxFile) \in Nat
    BY <2>1, <1>2
  <2> QED BY <2>2, SeqDef
<1> QED BY <1>3 DEF OutboxInv, OutboxTyped, OutboxTypeOK, InOrder

(* With one thread, or without a webhook, nobody's copy of the file is     *)
(* older than the last event.                                              *)
Undisturbed == webhook => Cardinality(emitting) = 1

AllEmitted(lines) == [i \in DOMAIN lines |-> lines[i].event] = [i \in 1..emitted |-> i]

KeptInv ==
    Undisturbed =>
        /\ AllEmitted(outboxFile)
        /\ \A e \in Emitters :
              /\ emitter[e].pc # "idle" => webhook /\ e \in emitting
              /\ emitter[e].pc = "replace" => AllEmitted(emitter[e].lines)

LEMMA KeptInitially ==
    ASSUME OutboxInit
    PROVE  KeptInv
BY DEF OutboxInit, KeptInv, AllEmitted, IdleEmitter

(* Every event has its row, in its place. *)
LEMMA EveryEvent ==
    ASSUME NEW lines, NEW k
    PROVE  [i \in DOMAIN lines |-> lines[i].event] = [i \in 1..k |-> i]
              <=> /\ DOMAIN lines = 1..k
                  /\ \A i \in 1..k : lines[i].event = i
<1> DEFINE f == [i \in DOMAIN lines |-> lines[i].event]
           g == [i \in 1..k |-> i]
<1>1. ASSUME f = g
      PROVE  DOMAIN lines = 1..k /\ \A i \in 1..k : lines[i].event = i
  <2>1. DOMAIN f = DOMAIN g
    BY <1>1
  <2>2. DOMAIN lines = 1..k
    BY <2>1
  <2>3. \A i \in 1..k : f[i] = g[i]
    BY <1>1
  <2> QED BY <2>2, <2>3
<1>2. ASSUME DOMAIN lines = 1..k, \A i \in 1..k : lines[i].event = i
      PROVE  f = g
  BY <1>2
<1> QED BY <1>1, <1>2

(* A thread that emits with a webhook, undisturbed, is the only one.       *)
LEMMA OnlyEmitter ==
    ASSUME OutboxAssumption, OutboxInv, Undisturbed, webhook,
           NEW d \in emitting, NEW e \in emitting
    PROVE  d = e
<1>1. IsFiniteSet(emitting) /\ Cardinality(emitting) = 1
  BY FS_Subset DEF OutboxAssumption, OutboxInv, Undisturbed
<1> QED BY <1>1, FS_Singleton

LEMMA KeptStep ==
    ASSUME OutboxAssumption, OutboxInv, OutboxInv', KeptInv, [OutboxNext]_outboxVars
    PROVE  KeptInv'
<1> SUFFICES ASSUME Undisturbed'
             PROVE  /\ AllEmitted(outboxFile)'
                    /\ \A e \in Emitters :
                          /\ emitter'[e].pc # "idle" => webhook' /\ e \in emitting'
                          /\ emitter'[e].pc = "replace" => AllEmitted(emitter[e].lines)'
  BY DEF KeptInv
<1>u. UNCHANGED <<webhook, emitting>>
  BY DEF OutboxNext, outboxVars, AppendEvent, RetryFailed, Post, ReadLines, ReplaceFile,
         OutboxCrash
<1>0. UNCHANGED <<webhook, emitting>> /\ Undisturbed
  BY <1>u DEF Undisturbed
<1>k. /\ AllEmitted(outboxFile)
      /\ \A e \in Emitters :
            /\ emitter[e].pc # "idle" => webhook /\ e \in emitting
            /\ emitter[e].pc = "replace" => AllEmitted(emitter[e].lines)
  BY <1>0 DEF KeptInv
<1>1. ASSUME NEW e \in emitting, AppendEvent(e)
      PROVE  /\ AllEmitted(outboxFile)'
             /\ \A d \in Emitters :
                   /\ emitter'[d].pc # "idle" => webhook' /\ d \in emitting'
                   /\ emitter'[d].pc # "replace"
  <2> DEFINE row == [event |-> emitted + 1, state |-> "pending"]
  <2>1. /\ outboxFile' = Append(outboxFile, row) /\ emitted' = emitted + 1
        /\ emitter[e].pc = "idle" /\ e \in Emitters
        /\ outboxFile \in OutboxRows /\ emitted \in Nat
    BY <1>1 DEF AppendEvent, OutboxInv
  <2>2. DOMAIN outboxFile = 1..emitted /\ \A i \in 1..emitted : outboxFile[i].event = i
    BY <1>k, EveryEvent DEF AllEmitted
  <2>3. Len(outboxFile) = emitted
    <3>1. Len(outboxFile) \in Nat /\ DOMAIN outboxFile = 1..Len(outboxFile)
      BY <2>1 DEF OutboxRows
    <3> QED BY <2>1, <2>2, <3>1
  <2>4. /\ DOMAIN outboxFile' = 1..(emitted + 1)
        /\ \A i \in 1..(emitted + 1) : outboxFile'[i] = IF i = emitted + 1 THEN row ELSE outboxFile[i]
    BY <2>1, <2>3 DEF OutboxRows
  <2>5. AllEmitted(outboxFile)'
    <3>1. \A i \in 1..(emitted + 1) : outboxFile'[i].event = i
      BY <2>1, <2>2, <2>4
    <3> QED BY <2>1, <2>4, <3>1, EveryEvent DEF AllEmitted
  <2>6. \A d \in Emitters : d # e => emitter'[d] = emitter[d]
    BY <1>1 DEF AppendEvent, OutboxInv
  <2>7. CASE webhook
    <3>1. emitter'[e].pc = "post"
      BY <1>1, <2>1, <2>7 DEF AppendEvent, OutboxInv
    <3>2. \A d \in Emitters : d # e => emitter[d].pc = "idle"
      BY <1>0, <1>k, <2>7, OnlyEmitter
    <3> QED BY <1>0, <2>5, <2>6, <2>7, <3>1, <3>2
  <2>8. CASE ~webhook
    BY <1>1, <1>k, <2>5, <2>8 DEF AppendEvent
  <2> QED BY <2>7, <2>8
<1>2. ASSUME NEW e \in emitting, RetryFailed(e) \/ Post(e)
      PROVE  /\ AllEmitted(outboxFile)'
             /\ \A d \in Emitters :
                   /\ emitter'[d].pc # "idle" => webhook' /\ d \in emitting'
                   /\ emitter'[d].pc = "replace" => AllEmitted(emitter[d].lines)'
  <2>1. /\ UNCHANGED <<outboxFile, emitted>> /\ e \in Emitters
        /\ \A d \in Emitters : d # e => emitter'[d] = emitter[d]
    BY <1>2 DEF RetryFailed, Post, OutboxInv
  <2>2. webhook
    BY <1>2, <1>k, <2>1 DEF RetryFailed, Post
  <2>3. emitter'[e].pc \in {"post", "read"}
    <3>1. CASE RetryFailed(e)
      BY <2>1, <3>1 DEF RetryFailed, OutboxInv
    <3>2. CASE Post(e)
      <4> DEFINE tries == emitter[e].posts + 1
                 marked(s) == [emitter EXCEPT ![e].pc = "read", ![e].mark = s,
                                              ![e].posts = 0]
                 tried == [emitter EXCEPT ![e].posts = tries]
      <4>1. /\ emitter[e].pc = "post" /\ DOMAIN emitter = Emitters
            /\ emitter' \in {marked("delivered"), marked("failed"), tried}
        BY <3>2 DEF Post, OutboxInv
      <4>2. \A s : marked(s)[e].pc = "read"
        BY <2>1, <4>1
      <4>3. tried[e].pc = "post"
        BY <2>1, <4>1
      <4> QED BY <4>1, <4>2, <4>3
    <3> QED BY <1>2, <3>1, <3>2
  <2> QED BY <1>0, <1>2, <1>k, <2>1, <2>2, <2>3 DEF AllEmitted
<1>3. ASSUME NEW e \in emitting, ReadLines(e)
      PROVE  /\ AllEmitted(outboxFile)'
             /\ \A d \in Emitters :
                   /\ emitter'[d].pc # "idle" => webhook' /\ d \in emitting'
                   /\ emitter'[d].pc = "replace" => AllEmitted(emitter[d].lines)'
  <2> DEFINE copy == Rewritten(outboxFile, Current(e), emitter[e].mark)
  <2>1. /\ emitter' = [emitter EXCEPT ![e].pc = "replace", ![e].lines = copy]
        /\ emitter[e].pc = "read" /\ e \in Emitters /\ emitter[e].mark \in RowStates
        /\ UNCHANGED <<outboxFile, emitted>>
    BY <1>3 DEF ReadLines, OutboxInv
  <2>2. AllEmitted(copy)
    <3>1. outboxFile \in OutboxRows
      BY DEF OutboxInv
    <3>2. /\ DOMAIN copy = DOMAIN outboxFile
          /\ \A i \in DOMAIN outboxFile : copy[i].event = outboxFile[i].event
      BY <2>1, <3>1, RewrittenRows
    <3>3. DOMAIN outboxFile = 1..emitted /\ \A i \in 1..emitted : outboxFile[i].event = i
      BY <1>k, EveryEvent DEF AllEmitted
    <3> HIDE DEF copy
    <3> QED BY <3>2, <3>3, EveryEvent DEF AllEmitted
  <2>3. /\ emitter'[e].lines = copy
        /\ \A d \in Emitters : d # e => emitter'[d] = emitter[d]
    <3> HIDE DEF copy
    <3> QED BY <2>1, OutboxInv' DEF OutboxInv
  <2>4. webhook
    BY <1>k, <2>1
  <2>5. emitter'[e].lines = copy /\ emitted' = emitted /\ outboxFile' = outboxFile
    BY <2>1, <2>3
  <2> HIDE DEF copy
  <2>6. AllEmitted(emitter[e].lines)'
    BY <2>2, <2>5 DEF AllEmitted
  <2>7. \A d \in Emitters : d # e =>
           (emitter'[d].pc = "replace" => AllEmitted(emitter[d].lines)')
    BY <1>k, <2>3, <2>5 DEF AllEmitted
  <2>8. AllEmitted(outboxFile)'
    BY <1>k, <2>5 DEF AllEmitted
  <2>9. \A d \in Emitters : emitter'[d].pc # "idle" => webhook' /\ d \in emitting'
    BY <1>0, <1>3, <1>k, <2>3, <2>4
  <2> QED BY <2>6, <2>7, <2>8, <2>9
<1>4. ASSUME NEW e \in emitting, ReplaceFile(e)
      PROVE  /\ AllEmitted(outboxFile)'
             /\ \A d \in Emitters :
                   /\ emitter'[d].pc # "idle" => webhook' /\ d \in emitting'
                   /\ emitter'[d].pc = "replace" => AllEmitted(emitter[d].lines)'
  <2>1. /\ outboxFile' = emitter[e].lines /\ emitted' = emitted
        /\ emitter[e].pc = "replace" /\ e \in Emitters
        /\ \A d \in Emitters : d # e => emitter'[d] = emitter[d]
        /\ emitter'[e].pc \in {"idle", "post"}
    BY <1>4 DEF ReplaceFile, OutboxInv, IdleEmitter
  <2> QED BY <1>0, <1>4, <1>k, <2>1 DEF AllEmitted
<1>5. CASE OutboxCrash
  BY <1>k, <1>5 DEF OutboxCrash, AllEmitted, IdleEmitter
<1>6. CASE UNCHANGED outboxVars
  BY <1>k, <1>6 DEF outboxVars, AllEmitted
<1> QED BY <1>1, <1>2, <1>3, <1>4, <1>5, <1>6 DEF OutboxNext

(* Every emitted event has its row before it is posted and whatever is in  *)
(* flight, for one thread or without a webhook.                            *)
THEOREM EventsAreAlwaysKept ==
    ASSUME OutboxAssumption
    PROVE  OutboxSpec => []EventsAreKept
<1>1. OutboxInit => OutboxInv /\ KeptInv
  BY OutboxInitially, KeptInitially
<1>2. OutboxInv /\ [OutboxNext]_outboxVars => OutboxInv'
  BY OutboxStep
<1>3. OutboxInv /\ OutboxInv' /\ KeptInv /\ [OutboxNext]_outboxVars => KeptInv'
  BY KeptStep
<1>4. KeptInv => EventsAreKept
  BY DEF KeptInv, Undisturbed, AllEmitted, EventsAreKept
<1> QED BY <1>1, <1>2, <1>3, <1>4, PTL DEF OutboxSpec

-----------------------------------------------------------------------------
(* The bus.  Everything up to the number a client would resume at, if this *)
(* bus gave it, the client has received or the history has dropped; and    *)
(* what it has fetched leaves out nothing before the last event fetched.   *)

Covered(c, n) == n <= streamSeq /\ \A i \in 1..n : i \in stream[c].seen \/ i \notin streamHistory

WholeBatch(c) ==
    \A j \in stream[c].batch :
        /\ j > stream[c].last
        /\ \A i \in streamHistory : stream[c].last < i /\ i < j => i \in stream[c].batch

ClientInOrder(c) ==
    /\ stream[c].last \in Nat /\ stream[c].resume \in Nat
    /\ stream[c].batch \subseteq 1..streamSeq
    /\ stream[c].own => Covered(c, stream[c].resume)
    /\ stream[c].open /\ stream[c].sound => Covered(c, stream[c].last)
    /\ IF stream[c].open THEN WholeBatch(c) ELSE stream[c].batch = {}

ClientRecord == [open : BOOLEAN, last : Nat, batch : SUBSET Nat, seen : SUBSET Nat,
                 resume : Nat, own : BOOLEAN, sound : BOOLEAN]

StreamBusInv ==
    /\ streamSeq \in Nat
    /\ streamHistory \subseteq 1..streamSeq
    /\ stream \in [StreamClients -> ClientRecord]
    /\ \A c \in StreamClients : ClientInOrder(c)

LEMMA BusInitially ==
    ASSUME EventStreamInit
    PROVE  StreamBusInv
BY DEF EventStreamInit, StreamBusInv, ClientInOrder, ClientRecord, NewClient, Covered, WholeBatch

(* A step of one client does not concern another. *)
LEMMA OneClientMoves ==
    ASSUME StreamBusInv, NEW c \in StreamClients, NEW r \in ClientRecord,
           stream' = [stream EXCEPT ![c] = r],
           UNCHANGED <<streamSeq, streamHistory>>, ClientInOrder(c)'
    PROVE  StreamBusInv'
<1>1. stream' \in [StreamClients -> ClientRecord]
  BY DEF StreamBusInv
<1>2. ASSUME NEW d \in StreamClients, d # c
      PROVE  ClientInOrder(d)'
  <2>1. stream'[d] = stream[d]
    BY <1>2 DEF StreamBusInv
  <2> QED BY <2>1 DEF StreamBusInv, ClientInOrder, Covered, WholeBatch
<1> QED BY <1>1, <1>2 DEF StreamBusInv

LEMMA BusStep ==
    ASSUME EventStreamAssumption, StreamBusInv, [EventStreamNext]_eventStreamVars
    PROVE  StreamBusInv'
<1>t. \A c \in StreamClients : stream[c] \in ClientRecord /\ ClientInOrder(c)
  BY DEF StreamBusInv
<1>1. CASE Publish
  <2>1. /\ streamSeq' = streamSeq + 1 /\ stream' = stream
        /\ streamHistory' \subseteq streamHistory \cup {streamSeq + 1}
        /\ streamSeq \in Nat /\ streamHistory \subseteq 1..streamSeq
    BY <1>1 DEF Publish, StreamBusInv
  <2>2. streamHistory' \subseteq 1..streamSeq'
    BY <2>1
  <2>3. ASSUME NEW c \in StreamClients
        PROVE  ClientInOrder(c)'
    <3>1. ASSUME NEW n \in Nat, Covered(c, n)
          PROVE  Covered(c, n)'
      BY <2>1, <3>1 DEF Covered
    <3>2. WholeBatch(c) => WholeBatch(c)'
      <4> SUFFICES ASSUME WholeBatch(c), NEW j \in stream[c].batch
                   PROVE  /\ j > stream[c].last
                          /\ \A i \in streamHistory' :
                                stream[c].last < i /\ i < j => i \in stream[c].batch
        BY <2>1 DEF WholeBatch
      <4>1. j \in 1..streamSeq
        BY <1>t DEF ClientInOrder
      <4> QED BY <2>1, <4>1 DEF WholeBatch
    <3> QED BY <1>t, <2>1, <3>1, <3>2 DEF ClientInOrder
  <2> QED BY <2>1, <2>2, <2>3 DEF StreamBusInv
<1>2. CASE RestartBus
  <2>1. streamSeq' = 0 /\ streamHistory' = {}
    BY <1>2 DEF RestartBus
  <2>2. ASSUME NEW c \in StreamClients
        PROVE  stream'[c] \in ClientRecord /\ ClientInOrder(c)'
    <3> DEFINE own == (stream[c].resume = 0)
    <3>1. stream'[c] = [stream[c] EXCEPT !.open = FALSE, !.last = 0, !.batch = {},
                                         !.seen = {}, !.own = own]
      BY <1>2 DEF RestartBus
    <3>2. own \in BOOLEAN /\ (own => stream[c].resume = 0) /\ stream[c].resume \in Nat
      BY <1>t DEF ClientRecord
    <3> HIDE DEF own
    <3> DEFINE r == [open |-> FALSE, last |-> 0, batch |-> {}, seen |-> {},
                     resume |-> stream[c].resume, own |-> own, sound |-> stream[c].sound]
    <3>r. stream'[c] = r
      BY <1>t, <3>1 DEF ClientRecord
    <3>3. /\ stream'[c] \in ClientRecord /\ stream'[c].batch = {} /\ ~stream'[c].open
          /\ stream'[c].resume = stream[c].resume /\ stream'[c].last = 0
      BY <1>t, <3>r, <3>2 DEF ClientRecord
    <3>4. stream'[c].own => own
      BY <3>r
    <3> QED BY <2>1, <3>2, <3>3, <3>4 DEF ClientInOrder, Covered
  <2>3. stream' = [c \in StreamClients |-> stream'[c]]
    BY <1>2 DEF RestartBus
  <2> QED BY <2>1, <2>2, <2>3 DEF StreamBusInv
<1>3. ASSUME NEW c \in StreamClients, Connect(c)
      PROVE  StreamBusInv'
  <2>1. PICK n \in {0, stream[c].resume} :
            stream' = [stream EXCEPT ![c].open = TRUE, ![c].last = n,
                                     ![c].sound = (n = 0 \/ stream[c].own)]
    BY <1>3 DEF Connect
  <2> DEFINE sound == (n = 0 \/ stream[c].own)
             r == [stream[c] EXCEPT !.open = TRUE, !.last = n, !.sound = sound]
  <2>2. /\ stream' = [stream EXCEPT ![c] = r] /\ stream'[c] = r
        /\ UNCHANGED <<streamSeq, streamHistory>>
    BY <1>3, <2>1 DEF Connect, StreamBusInv
  <2>3. sound \in BOOLEAN /\ n \in Nat /\ (sound => Covered(c, n))
    BY <1>t DEF ClientRecord, ClientInOrder, Covered, StreamBusInv
  <2> HIDE DEF sound
  <2>4. /\ r \in ClientRecord /\ r.open /\ r.last = n /\ r.sound = sound
        /\ r.batch = stream[c].batch /\ r.seen = stream[c].seen
        /\ r.resume = stream[c].resume /\ r.own = stream[c].own
    BY <1>t, <2>3 DEF ClientRecord
  <2>5. stream[c].batch = {}
    BY <1>3, <1>t DEF Connect, ClientInOrder
  <2> HIDE DEF r
  <2>6. ClientInOrder(c)'
    BY <1>t, <2>2, <2>3, <2>4, <2>5 DEF ClientInOrder, Covered, WholeBatch, StreamBusInv
  <2> QED BY <2>2, <2>4, <2>6, OneClientMoves
<1>4. ASSUME NEW c \in StreamClients, Fetch(c)
      PROVE  StreamBusInv'
  <2> DEFINE r == [stream[c] EXCEPT !.batch = EventsSince(stream[c].last)]
  <2>1. /\ stream' = [stream EXCEPT ![c] = r] /\ stream'[c] = r
        /\ UNCHANGED <<streamSeq, streamHistory>> /\ stream[c].open
    BY <1>4 DEF Fetch, StreamBusInv
  <2>2. EventsSince(stream[c].last) \subseteq streamHistory /\ streamHistory \subseteq 1..streamSeq
    BY DEF EventsSince, StreamBusInv
  <2>3. /\ r \in ClientRecord /\ r.open = stream[c].open /\ r.last = stream[c].last
        /\ r.sound = stream[c].sound /\ r.batch = EventsSince(stream[c].last)
        /\ r.seen = stream[c].seen /\ r.resume = stream[c].resume /\ r.own = stream[c].own
    BY <1>t, <2>2 DEF ClientRecord
  <2> HIDE DEF r
  <2>4. WholeBatch(c)'
    BY <2>1, <2>2, <2>3 DEF WholeBatch, EventsSince
  <2>5. ClientInOrder(c)'
    BY <1>t, <2>1, <2>2, <2>3, <2>4 DEF ClientInOrder, Covered, StreamBusInv
  <2> QED BY <2>1, <2>3, <2>5, OneClientMoves
<1>5. ASSUME NEW c \in StreamClients, WriteEvent(c)
      PROVE  StreamBusInv'
  <2>1. PICK i \in stream[c].batch :
           /\ \A j \in stream[c].batch : i <= j
           /\ \/ stream' = [stream EXCEPT ![c].batch = @ \ {i}, ![c].last = i,
                                          ![c].seen = @ \cup {i}, ![c].resume = i,
                                          ![c].own = stream[c].sound]
              \/ stream' = [stream EXCEPT ![c].batch = {}, ![c].last = 0, ![c].open = FALSE]
    BY <1>5 DEF WriteEvent
  <2>2. /\ i \in 1..streamSeq /\ stream[c].open /\ i > stream[c].last
        /\ UNCHANGED <<streamSeq, streamHistory>> /\ streamHistory \subseteq 1..streamSeq
    BY <1>5, <1>t, <2>1 DEF WriteEvent, ClientInOrder, WholeBatch, StreamBusInv
  <2>3. CASE stream' = [stream EXCEPT ![c].batch = @ \ {i}, ![c].last = i,
                                      ![c].seen = @ \cup {i}, ![c].resume = i,
                                      ![c].own = stream[c].sound]
    <3> DEFINE r == [stream[c] EXCEPT !.batch = @ \ {i}, !.last = i, !.seen = @ \cup {i},
                                      !.resume = i, !.own = stream[c].sound]
    <3>1. stream' = [stream EXCEPT ![c] = r] /\ stream'[c] = r
      BY <2>3 DEF StreamBusInv
    <3>2. /\ r \in ClientRecord /\ r.open = stream[c].open /\ r.last = i
          /\ r.sound = stream[c].sound /\ r.batch = stream[c].batch \ {i}
          /\ r.seen = stream[c].seen \cup {i} /\ r.resume = i /\ r.own = stream[c].sound
      BY <1>t, <2>2 DEF ClientRecord, StreamBusInv
    <3> HIDE DEF r
    <3>3. ASSUME stream[c].sound
          PROVE  Covered(c, i)'
      <4> SUFFICES ASSUME NEW k \in 1..i, k \in streamHistory, k # i
                   PROVE  k \in stream[c].seen
        BY <2>2, <3>1, <3>2 DEF Covered, StreamBusInv
      <4>1. stream[c].last \in Nat /\ Covered(c, stream[c].last) /\ WholeBatch(c)
        BY <1>t, <2>2, <3>3 DEF ClientInOrder
      <4>2. CASE k <= stream[c].last
        BY <4>1, <4>2 DEF Covered
      <4>3. CASE k > stream[c].last
        <5>1. k < i
          BY <2>2
        <5>2. k \in stream[c].batch
          BY <2>1, <4>1, <4>3, <5>1 DEF WholeBatch
        <5> QED BY <2>1, <2>2, <5>1, <5>2
      <4> QED BY <2>2, <4>1, <4>2, <4>3
    <3>4. WholeBatch(c)'
      <4> SUFFICES ASSUME NEW j \in stream[c].batch, j # i
                   PROVE  /\ j > i
                          /\ \A k \in streamHistory : i < k /\ k < j => k \in stream[c].batch \ {i}
        BY <2>2, <3>1, <3>2 DEF WholeBatch
      <4>1. /\ stream[c].last \in Nat /\ WholeBatch(c) /\ j \in 1..streamSeq /\ i <= j
            /\ streamSeq \in Nat
        BY <1>t, <2>1, <2>2 DEF ClientInOrder, StreamBusInv
      <4>2. \A k \in streamHistory : k \in Int
        BY <2>2, <4>1
      <4> QED BY <2>2, <4>1, <4>2 DEF WholeBatch
    <3>5. /\ stream'[c].last \in Nat /\ stream'[c].resume \in Nat
          /\ stream'[c].batch \subseteq 1..streamSeq'
      BY <1>t, <2>2, <3>1, <3>2 DEF ClientInOrder, StreamBusInv
    <3>o. stream'[c].open
      BY <2>2, <3>1, <3>2
    <3>6. /\ stream'[c].own => Covered(c, stream[c].resume)'
          /\ stream'[c].sound => Covered(c, stream[c].last)'
      BY <3>1, <3>2, <3>3 DEF Covered
    <3>7. ClientInOrder(c)'
      BY <3>4, <3>5, <3>6, <3>o DEF ClientInOrder
    <3> QED BY <2>2, <3>1, <3>2, <3>7, OneClientMoves
  <2>4. CASE stream' = [stream EXCEPT ![c].batch = {}, ![c].last = 0, ![c].open = FALSE]
    <3> DEFINE r == [stream[c] EXCEPT !.batch = {}, !.last = 0, !.open = FALSE]
    <3>1. stream' = [stream EXCEPT ![c] = r] /\ stream'[c] = r
      BY <2>4 DEF StreamBusInv
    <3> HIDE DEF r
    <3>2. r \in ClientRecord /\ ClientInOrder(c)'
      BY <1>t, <2>2, <3>1 DEF r, ClientRecord, ClientInOrder, Covered, StreamBusInv
    <3> QED BY <2>2, <3>1, <3>2, OneClientMoves
  <2> QED BY <2>1, <2>3, <2>4
<1>6. ASSUME NEW c \in StreamClients, Disconnect(c)
      PROVE  StreamBusInv'
  <2> DEFINE r == [stream[c] EXCEPT !.open = FALSE, !.batch = {}, !.last = 0]
  <2>1. /\ stream' = [stream EXCEPT ![c] = r] /\ stream'[c] = r
        /\ UNCHANGED <<streamSeq, streamHistory>>
    BY <1>6 DEF Disconnect, StreamBusInv
  <2> HIDE DEF r
  <2>2. r \in ClientRecord /\ ClientInOrder(c)'
    BY <1>t, <2>1 DEF r, ClientRecord, ClientInOrder, Covered, StreamBusInv
  <2> QED BY <2>1, <2>2, OneClientMoves
<1>7. CASE UNCHANGED eventStreamVars
  BY <1>7 DEF eventStreamVars, StreamBusInv, ClientInOrder, Covered, WholeBatch
<1> QED BY <1>1, <1>2, <1>3, <1>4, <1>5, <1>6, <1>7 DEF EventStreamNext

(* The bus keeps the last events it published, and numbers them in order. *)
HistoryIsTheEnd == streamHistory = {i \in 1..streamSeq : i + MaxHistory > streamSeq}

StreamOk(s) ==
    /\ s \in [open : BOOLEAN, last : Nat, batch : SUBSET (1..streamSeq),
              seen : SUBSET (1..streamSeq), resume : 0..MaxPublished,
              own : BOOLEAN, sound : BOOLEAN]

StreamShape ==
    /\ streamSeq \in 0..MaxPublished
    /\ busNumber \in 0..MaxRestarts
    /\ HistoryIsTheEnd
    /\ DOMAIN stream = StreamClients
    /\ \A c \in StreamClients : StreamOk(stream[c])

LEMMA StreamShapeInitially ==
    ASSUME EventStreamAssumption, EventStreamInit
    PROVE  StreamShape
<1>1. HistoryIsTheEnd
  BY DEF EventStreamInit, HistoryIsTheEnd
<1>2. streamSeq \in 0..MaxPublished /\ busNumber \in 0..MaxRestarts
  BY DEF EventStreamInit, EventStreamAssumption
<1>3. \A c \in StreamClients : StreamOk(stream[c])
  <2>1. 0 \in 0..MaxPublished
    BY DEF EventStreamAssumption
  <2> QED BY <2>1 DEF EventStreamInit, StreamOk, NewClient
<1> QED BY <1>1, <1>2, <1>3 DEF EventStreamInit, StreamShape

LEMMA StreamShapeStep ==
    ASSUME EventStreamAssumption, StreamShape, [EventStreamNext]_eventStreamVars
    PROVE  StreamShape'
<1>0. /\ MaxPublished \in Nat /\ MaxRestarts \in Nat /\ MaxHistory \in Nat \ {0}
      /\ streamSeq \in Nat /\ busNumber \in Nat
  BY DEF EventStreamAssumption, StreamShape
<1>1. CASE Publish
  <2>1. /\ streamSeq' = streamSeq + 1 /\ streamSeq < MaxPublished
        /\ UNCHANGED <<busNumber, stream>>
    BY <1>1 DEF Publish
  <2>2. HistoryIsTheEnd'
    BY <1>0, <1>1 DEF Publish, StreamShape, HistoryIsTheEnd
  <2>3. 1..streamSeq \subseteq 1..streamSeq' /\ streamSeq' \in 0..MaxPublished
    BY <1>0, <2>1
  <2>4. \A c \in StreamClients : StreamOk(stream[c])'
    BY <2>1, <2>3 DEF StreamShape, StreamOk
  <2> QED BY <2>1, <2>2, <2>3, <2>4 DEF StreamShape
<1>2. CASE RestartBus
  <2>0. /\ busNumber < MaxRestarts /\ busNumber' = busNumber + 1
        /\ streamSeq' = 0 /\ streamHistory' = {}
    BY <1>2, Zenon DEF RestartBus
  <2>1. HistoryIsTheEnd'
    BY <2>0 DEF HistoryIsTheEnd
  <2>2. streamSeq' \in 0..MaxPublished /\ busNumber' \in 0..MaxRestarts
    BY <1>0, <2>0
  <2>3. ASSUME NEW c \in StreamClients
        PROVE  StreamOk(stream[c])'
    <3>1. StreamOk(stream[c])
      BY DEF StreamShape
    <3> DEFINE own == (stream[c].resume = 0)
    <3>2. stream'[c] = [stream[c] EXCEPT !.open = FALSE, !.last = 0, !.batch = {},
                                         !.seen = {}, !.own = own]
      BY <1>2 DEF RestartBus
    <3>3. own \in BOOLEAN
      OBVIOUS
    <3> HIDE DEF own
    <3> DEFINE Shape(n) == [open : BOOLEAN, last : Nat, batch : SUBSET (1..n),
                            seen : SUBSET (1..n), resume : 0..MaxPublished,
                            own : BOOLEAN, sound : BOOLEAN]
    <3>4. stream[c] \in Shape(streamSeq)
      BY <3>1 DEF StreamOk
    <3> DEFINE next(b) == [stream[c] EXCEPT !.open = FALSE, !.last = 0, !.batch = {},
                                            !.seen = {}, !.own = b]
    <3>5. \A b \in BOOLEAN : next(b) \in Shape(streamSeq')
      BY <3>4
    <3> HIDE DEF Shape
    <3>6. stream'[c] \in Shape(streamSeq')
      <4>1. stream'[c] = next(own)
        BY <3>2, Zenon
      <4> HIDE DEF next
      <4> QED BY <3>3, <3>5, <4>1
    <3> QED BY <3>6 DEF StreamOk, Shape
  <2> QED BY <1>2, <2>1, <2>2, <2>3 DEF RestartBus, StreamShape
(* A client moves: its record changes within its shape.                    *)
<1>c. ASSUME NEW c \in StreamClients, NEW s, stream' = [stream EXCEPT ![c] = s],
             StreamOk(s), UNCHANGED <<streamSeq, streamHistory, busNumber>>
      PROVE  StreamShape'
  <2>1. \A d \in StreamClients : stream'[d] = IF d = c THEN s ELSE stream[d]
    BY <1>c DEF StreamShape
  <2>2. \A d \in StreamClients : StreamOk(stream[d])'
    BY <1>c, <2>1 DEF StreamShape, StreamOk
  <2> QED BY <1>c, <2>2 DEF StreamShape, HistoryIsTheEnd
<1>3. ASSUME NEW c \in StreamClients, Connect(c)
      PROVE  StreamShape'
  <2>1. PICK n \in {0, stream[c].resume} :
          stream' = [stream EXCEPT ![c].open = TRUE, ![c].last = n,
                                   ![c].sound = (n = 0 \/ stream[c].own)]
    BY <1>3 DEF Connect
  <2> DEFINE sound == n = 0 \/ stream[c].own
             s == [stream[c] EXCEPT !.open = TRUE, !.last = n, !.sound = sound]
  <2>2. sound \in BOOLEAN /\ n \in Nat
    BY <1>0, <2>1 DEF StreamShape, StreamOk
  <2>3. stream' = [stream EXCEPT ![c] = s]
    BY <2>1
  <2> HIDE DEF sound
  <2>4. StreamOk(s)
    BY <2>2 DEF StreamShape, StreamOk
  <2> HIDE DEF s
  <2> QED BY <1>3, <1>c, <2>3, <2>4 DEF Connect
<1>4. ASSUME NEW c \in StreamClients, Fetch(c)
      PROVE  StreamShape'
  <2> DEFINE s == [stream[c] EXCEPT !.batch = EventsSince(stream[c].last)]
  <2>1. stream' = [stream EXCEPT ![c] = s]
    BY <1>4 DEF Fetch
  <2>2. EventsSince(stream[c].last) \subseteq 1..streamSeq
    BY DEF EventsSince, StreamShape, HistoryIsTheEnd
  <2>3. StreamOk(s)
    BY <2>2 DEF StreamShape, StreamOk
  <2> HIDE DEF s
  <2> QED BY <1>4, <1>c, <2>1, <2>3 DEF Fetch
<1>5. ASSUME NEW c \in StreamClients, WriteEvent(c)
      PROVE  StreamShape'
  <2>1. PICK i \in stream[c].batch :
          \/ stream' = [stream EXCEPT ![c].batch = @ \ {i}, ![c].last = i,
                                      ![c].seen = @ \cup {i}, ![c].resume = i,
                                      ![c].own = stream[c].sound]
          \/ stream' = [stream EXCEPT ![c].batch = {}, ![c].last = 0, ![c].open = FALSE]
    BY <1>5 DEF WriteEvent
  <2>2. i \in 1..streamSeq /\ i \in 0..MaxPublished /\ i \in Nat
    BY <1>0, <2>1 DEF StreamShape, StreamOk
  <2> DEFINE wrote == [stream[c] EXCEPT !.batch = @ \ {i}, !.last = i, !.seen = @ \cup {i},
                                        !.resume = i, !.own = stream[c].sound]
             lost == [stream[c] EXCEPT !.batch = {}, !.last = 0, !.open = FALSE]
  <2>3. StreamOk(wrote) /\ StreamOk(lost)
    BY <2>2 DEF StreamShape, StreamOk
  <2>4. \/ stream' = [stream EXCEPT ![c] = wrote]
        \/ stream' = [stream EXCEPT ![c] = lost]
    BY <2>1
  <2> HIDE DEF wrote, lost
  <2> QED BY <1>5, <1>c, <2>3, <2>4 DEF WriteEvent
<1>6. ASSUME NEW c \in StreamClients, Disconnect(c)
      PROVE  StreamShape'
  <2> DEFINE s == [stream[c] EXCEPT !.open = FALSE, !.batch = {}, !.last = 0]
  <2>1. stream' = [stream EXCEPT ![c] = s]
    BY <1>6 DEF Disconnect
  <2>2. StreamOk(s)
    BY DEF StreamShape, StreamOk
  <2> HIDE DEF s
  <2> QED BY <1>6, <1>c, <2>1, <2>2 DEF Disconnect
<1>7. CASE UNCHANGED eventStreamVars
  BY <1>7 DEF eventStreamVars, StreamShape, StreamOk, HistoryIsTheEnd
<1> QED BY <1>1, <1>2, <1>3, <1>4, <1>5, <1>6, <1>7 DEF EventStreamNext

LEMMA StreamShapeTypes ==
    ASSUME StreamShape
    PROVE  EventStreamTypeOK
BY DEF StreamShape, StreamOk, HistoryIsTheEnd, EventStreamTypeOK

(* Over any number of broken connections of any number of clients, what a  *)
(* client passed over in the stream of one bus it has received, or the     *)
(* history had dropped it.                                                 *)
THEOREM ResumingLeavesNoGap ==
    ASSUME EventStreamAssumption
    PROVE  EventStreamSpec => []ResumeLeavesNoGap
<1>1. EventStreamInit => StreamBusInv
  BY BusInitially
<1>2. StreamBusInv /\ [EventStreamNext]_eventStreamVars => StreamBusInv'
  BY BusStep
<1>3. StreamBusInv => ResumeLeavesNoGap
  BY DEF StreamBusInv, ClientInOrder, Covered, ResumeLeavesNoGap
<1> QED BY <1>1, <1>2, <1>3, PTL DEF EventStreamSpec

-----------------------------------------------------------------------------
(* The admission check.  As long as the lane does not move, what the check *)
(* has read so far is what the lane is.                                    *)

SeenOfLane ==
    ~laneMoved =>
        /\ check.pc \in {"health", "props", "models"} =>
              lane.mode # Absent /\ check.mode = lane.mode
        /\ check.pc \in {"props", "models"} => lane.healthy
        /\ check.pc = "models" =>
              lane.context # Malformed /\ ServedEnough(check.entry, lane.context)

CheckIsRecord ==
    check = [pc |-> check.pc, state |-> check.state, entry |-> check.entry,
             mode |-> check.mode, required |-> check.required]

AdmissionInv == CheckIsRecord /\ SeenOfLane

LEMMA AdmissionInitially ==
    ASSUME AdmissionInit
    PROVE  AdmissionInv
BY DEF AdmissionInit, AdmissionInv, CheckIsRecord, SeenOfLane, Answered

LEMMA AdmissionStep ==
    ASSUME AdmissionInv, [AdmissionNext]_admissionVars
    PROVE  AdmissionInv'
<1>1. CASE ReadContract
  BY <1>1 DEF ReadContract, Answer, Answered, AdmissionInv, CheckIsRecord, SeenOfLane
<1>2. CASE ReadMode
  <2>1. CASE lane.mode = Absent
    BY <1>2, <2>1 DEF ReadMode, Answer, Answered, AdmissionInv, CheckIsRecord, SeenOfLane
  <2>2. CASE lane.mode # Absent
    <3>1. /\ check' = [pc |-> "health", state |-> check.state, entry |-> check.entry,
                       mode |-> lane.mode, required |-> check.required]
          /\ UNCHANGED <<lane, laneMoved>>
      BY <1>2, <2>2 DEF ReadMode, AdmissionInv, CheckIsRecord
    <3> QED BY <2>2, <3>1 DEF AdmissionInv, CheckIsRecord, SeenOfLane
  <2> QED BY <2>1, <2>2
<1>3. CASE ReadHealth
  BY <1>3 DEF ReadHealth, Answer, Answered, GoOn, AdmissionInv, CheckIsRecord, SeenOfLane
<1>4. CASE ReadProps
  BY <1>4 DEF ReadProps, Answer, Answered, GoOn, AdmissionInv, CheckIsRecord, SeenOfLane, ServedEnough
<1>5. CASE ReadModels
  BY <1>5 DEF ReadModels, Answer, Answered, AdmissionInv, CheckIsRecord, SeenOfLane
<1>6. CASE MoveLane
  BY <1>6 DEF MoveLane, AdmissionInv, CheckIsRecord, SeenOfLane
<1>7. CASE UNCHANGED admissionVars
  BY <1>7 DEF admissionVars, AdmissionInv, CheckIsRecord, SeenOfLane, ServedEnough
<1> QED BY <1>1, <1>2, <1>3, <1>4, <1>5, <1>6, <1>7 DEF AdmissionNext

(* The step that answers READY finds the lane serving the route, for any   *)
(* contract, as far as the lane has not moved since the check began.       *)
LEMMA ReadyOnlyIfServed ==
    ASSUME AdmissionInv, [AdmissionNext]_admissionVars, ~laneMoved,
           check.pc # "answer", check'.pc = "answer", check'.state = "READY"
    PROVE  LaneServes(check.entry, check.required)
<1>1. ReadModels
  <2>1. ~ReadContract /\ ~MoveLane /\ ~UNCHANGED admissionVars
    BY DEF ReadContract, MoveLane, admissionVars
  <2>2. ~ReadMode
    <3> SUFFICES ASSUME ReadMode
                 PROVE  FALSE
      OBVIOUS
    <3>1. CASE lane.mode = Absent
      BY <3>1 DEF ReadMode, Answer, Answered
    <3>2. CASE lane.mode # Absent
      <4>1. check' = [check EXCEPT !.pc = "health", !.mode = lane.mode]
        BY <3>2 DEF ReadMode
      <4>2. check'.pc = "health"
        BY <4>1 DEF AdmissionInv, CheckIsRecord
      <4> QED BY <4>2
    <3> QED BY <3>1, <3>2
  <2>3. ~ReadHealth /\ ~ReadProps
    BY DEF ReadHealth, ReadProps, Answer, Answered, GoOn, AdmissionInv, CheckIsRecord
  <2> QED BY <2>1, <2>2, <2>3 DEF AdmissionNext
<1>2. /\ check.pc = "models"
      /\ lane.healthy /\ lane.model # Malformed /\ SameModel(check.entry, lane.model)
      /\ check.entry.mode \in {Absent, check.mode}
      /\ VerifiedEnough(check.entry, check.required)
  BY <1>1 DEF ReadModels, Answer, Answered
<1> QED BY <1>2 DEF AdmissionInv, SeenOfLane, LaneServes, VerifiedEnough

(* What the check has read of the lane is what a lane can answer.          *)
AdmissionTyped ==
    /\ AdmissionTypeOK
    /\ check \in [pc : {"answer", "mode", "health", "props", "models"},
                  state : AdmissionStates, entry : Entry \cup {Absent},
                  mode : LaneModes \cup {Absent}, required : ContextSizes \cup {Absent}]

LEMMA AdmissionTypesInitially ==
    ASSUME AdmissionInit
    PROVE  AdmissionTyped
BY DEF AdmissionInit, AdmissionTyped, AdmissionTypeOK, Answered, Lane, AdmissionStates

LEMMA AdmissionTypesStep ==
    ASSUME AdmissionTyped, [AdmissionNext]_admissionVars
    PROVE  AdmissionTyped'
<1> USE DEF AdmissionTyped, AdmissionTypeOK
<1>a. ASSUME NEW s \in AdmissionStates, Answer(s), lane' = lane, laneMoved' \in BOOLEAN
      PROVE  AdmissionTyped'
  BY <1>a DEF Answer, Answered
<1>b. ASSUME NEW pc \in {"props", "models"}, GoOn(pc), UNCHANGED <<lane, laneMoved>>,
             check.pc \in {"health", "props"}
      PROVE  AdmissionTyped'
  BY <1>b DEF GoOn
<1>1. CASE ReadContract
  <2>1. CASE Answer("ROUTE_INCOMPATIBLE")
    BY <1>1, <2>1, <1>a DEF ReadContract, AdmissionStates
  <2>2. ASSUME NEW e \in Entry, NEW r \in ContextSizes \cup {Absent},
               check' = [pc |-> "mode", state |-> "ROUTE_INCOMPATIBLE", entry |-> e,
                         mode |-> Absent, required |-> r]
        PROVE  AdmissionTyped'
    BY <1>1, <2>2 DEF ReadContract, AdmissionStates
  <2> QED BY <1>1, <2>1, <2>2 DEF ReadContract
<1>2. CASE ReadMode
  <2>1. CASE lane.mode = Absent
    BY <1>2, <2>1, <1>a DEF ReadMode, AdmissionStates
  <2>2. CASE lane.mode # Absent
    <3>1. /\ check' = [check EXCEPT !.pc = "health", !.mode = lane.mode]
          /\ UNCHANGED <<lane, laneMoved>> /\ check.pc = "mode"
      BY <1>2, <2>2 DEF ReadMode
    <3>2. lane.mode \in LaneModes
      BY <2>2 DEF Lane
    <3> QED BY <3>1, <3>2
  <2> QED BY <2>1, <2>2
<1>3. CASE ReadHealth
  <2>1. CASE lane.healthy
    BY <1>3, <2>1, <1>b DEF ReadHealth
  <2>2. CASE ~lane.healthy
    BY <1>3, <2>2, <1>a DEF ReadHealth, AdmissionStates
  <2> QED BY <2>1, <2>2
<1>4. CASE ReadProps
  <2>1. CASE GoOn("models")
    BY <1>4, <2>1, <1>b DEF ReadProps
  <2>2. CASE Answer("ROUTE_INCOMPATIBLE")
    BY <1>4, <2>2, <1>a DEF ReadProps, AdmissionStates
  <2> QED BY <1>4, <2>1, <2>2 DEF ReadProps
<1>5. CASE ReadModels
  BY <1>5, <1>a DEF ReadModels, AdmissionStates
<1>6. CASE MoveLane
  <2>1. lane' \in Lane
    <3>1. CASE \E m \in LaneModes \cup {Absent} : lane' = [lane EXCEPT !.mode = m]
      BY <3>1 DEF Lane
    <3>2. CASE lane' = [lane EXCEPT !.healthy = ~@]
      BY <3>2 DEF Lane
    <3>3. CASE \E c \in ContextSizes \cup {Malformed}, m \in LaneModels \cup {Malformed} :
                  lane' = [lane EXCEPT !.context = c, !.model = m]
      BY <3>3 DEF Lane
    <3> QED BY <1>6, <3>1, <3>2, <3>3 DEF MoveLane
  <2>2. laneMoved' = TRUE /\ check' = check
    BY <1>6 DEF MoveLane
  <2> QED BY <2>1, <2>2
<1>7. CASE UNCHANGED admissionVars
  BY <1>7 DEF admissionVars
<1> QED BY <1>1, <1>2, <1>3, <1>4, <1>5, <1>6, <1>7 DEF AdmissionNext

(* The check is fail-closed for every contract, lane and interleaving.     *)
THEOREM ReadyIsAlwaysEarned == AdmissionSpec => ReadyIsEarned
<1>1. AdmissionInit => AdmissionInv
  BY AdmissionInitially
<1>2. AdmissionInv /\ [AdmissionNext]_admissionVars => AdmissionInv'
  BY AdmissionStep
<1>3. AdmissionInv /\ [AdmissionNext]_admissionVars =>
        [(check.pc # "answer" /\ check'.pc = "answer" /\ check'.state = "READY"
          /\ ~laneMoved)
            => LaneServes(check.entry, check.required)]_admissionVars
  BY ReadyOnlyIfServed
<1> QED BY <1>1, <1>2, <1>3, PTL DEF AdmissionSpec, ReadyIsEarned

-----------------------------------------------------------------------------
(* The runtime of managed sessions.  A session is spawned at most once, by *)
(* the thread that created it; a handle is of that process; and a thread   *)
(* that is about to act on a handle knows what it found out about it.      *)

ShortCall == [pc : {"terminating", "awaiting", "probing", "completed"}, on : ManagedIds]
RecordCall == [pc : {"created", "starting", "looking", "cancelling", "killing", "killed"},
               on : ManagedIds, record : ManagedRecord]
SpawnedCall == [pc : {"spawned"}, on : ManagedIds, record : ManagedRecord, pid : Pids]
CallShapes == ShortCall \cup RecordCall \cup SpawnedCall

Gone(s) == \A p \in Pids : processes[p] # spawned[s]
Stopped(s) == spawned[s] # 0 /\ (spawned[s] \in signalled \/ Gone(s))
OwnTimes == {spawned[s] : s \in ManagedIds}

CallInv(call) ==
    /\ call.pc \in {"created", "starting"} =>
          managed[call.on] # NoSession /\ spawned[call.on] = 0
    /\ call.pc \in {"awaiting", "probing", "killing", "terminating"} =>
          handles[call.on] # NoSession
    /\ call.pc \in {"killing", "terminating"} =>
          StartTime(handles[call.on].pid) \in {0} \cup OwnTimes
    /\ call.pc = "killed" => Stopped(call.on)
    /\ call.pc = "completed" => spawned[call.on] # 0 /\ Gone(call.on)

Beginning(t) == thread[t] # NoSession /\ thread[t].pc \in {"created", "starting"}

ThreadsInv ==
    /\ \A t \in Threads : thread[t] # NoSession => CallInv(thread[t])
    /\ \A t, u \in Threads :
          Beginning(t) /\ Beginning(u) /\ thread[t].on = thread[u].on => t = u

SessionInv(s) ==
    /\ spawned[s] # 0 => managed[s] # NoSession
    /\ handles[s] # NoSession =>
          /\ spawned[s] # 0 /\ handles[s].time = spawned[s]
          /\ \A p \in Pids : processes[p] = spawned[s] => p = handles[s].pid
    /\ managed[s] # NoSession /\ managed[s].state = "CANCELLED" => Stopped(s)

HarnessTyped ==
    /\ processes \in [Pids -> 0..MaxStarts]
    /\ started \in 0..MaxStarts
    /\ managed \in [ManagedIds -> ManagedRecord \cup {NoSession}]
    /\ handles \in [ManagedIds -> Fingerprint \cup {NoSession}]
    /\ spawned \in [ManagedIds -> 0..started]
    /\ signalled \subseteq 1..started
    /\ thread \in [Threads -> CallShapes \cup {NoSession}]

HarnessInv ==
    /\ HarnessTyped
    /\ \A p \in Pids : processes[p] <= started
    /\ signalled \subseteq OwnTimes
    /\ \A s \in ManagedIds : SessionInv(s)
    /\ ThreadsInv

LEMMA HarnessInitially ==
    ASSUME HarnessAssumption, NoSessionAssumption, HarnessInit
    PROVE  HarnessInv
BY DEF HarnessAssumption, HarnessInit, HarnessInv, HarnessTyped, SessionInv, ThreadsInv, Beginning, OwnTimes

(* What a thread does to its own call and to one record: the threads and   *)
(* sessions stay in order if its new call and what it stores are.          *)
LEMMA CallGoesOn ==
    ASSUME HarnessAssumption, NoSessionAssumption, HarnessInv,
           NEW t \in Threads, NEW call \in CallShapes \cup {NoSession}, Calls(t, call),
           UNCHANGED <<processes, started, handles, spawned, signalled>>,
           NEW s \in ManagedIds, NEW record \in ManagedRecord,
           managed' = managed \/ Store(s, record),
           Store(s, record) => record.state # "CANCELLED" \/ Stopped(s),
           call # NoSession =>
              /\ CallInv(call)'
              /\ call.pc \in {"created", "starting"} =>
                    \/ managed[call.on] = NoSession
                    \/ Beginning(t) /\ thread[t].on = call.on
    PROVE  HarnessInv'
<1>1. /\ managed' \in [ManagedIds -> ManagedRecord \cup {NoSession}]
      /\ \A r \in ManagedIds : managed[r] # NoSession => managed'[r] # NoSession
      /\ \A r \in ManagedIds :
            managed'[r] = managed[r] \/ (r = s /\ managed'[r] = record /\ Store(s, record))
  <2>1. CASE managed' = managed
    BY <2>1 DEF HarnessInv, HarnessTyped
  <2>2. CASE Store(s, record)
    <3>1. managed' = [managed EXCEPT ![s] = record] /\ record # NoSession
      BY <2>2 DEF Store, NoSessionAssumption
    <3> QED BY <2>2, <3>1 DEF HarnessInv, HarnessTyped
  <2> QED BY <2>1, <2>2
<1>2. thread' \in [Threads -> CallShapes \cup {NoSession}] /\ thread'[t] = call
  BY DEF HarnessInv, HarnessTyped, Calls
<1>3. \A u \in Threads \ {t} : thread'[u] = thread[u]
  BY DEF HarnessInv, HarnessTyped, Calls
<1>4. /\ HarnessTyped' /\ signalled' \subseteq OwnTimes'
      /\ \A p \in Pids : processes'[p] <= started'
  BY <1>1, <1>2 DEF HarnessInv, HarnessTyped, OwnTimes
<1>5. ASSUME NEW r \in ManagedIds
      PROVE  SessionInv(r)'
  BY <1>1 DEF HarnessInv, SessionInv, Stopped, Gone
<1>6. ASSUME NEW u \in Threads, thread'[u] # NoSession
      PROVE  CallInv(thread[u])'
  <2>1. CASE u = t
    BY <1>2, <1>6, <2>1
  <2>2. CASE u # t
    <3>1. thread'[u] = thread[u] /\ CallInv(thread[u]) /\ thread[u] \in CallShapes
      BY <1>3, <1>6, <2>2 DEF HarnessInv, ThreadsInv, HarnessTyped
    <3>2. thread[u].on \in ManagedIds
      BY <3>1 DEF CallShapes, ShortCall, RecordCall, SpawnedCall
    <3> QED BY <1>1, <3>1, <3>2 DEF CallInv, StartTime, OwnTimes, Stopped, Gone
  <2> QED BY <2>1, <2>2
<1>7. ASSUME NEW u \in Threads, NEW v \in Threads, Beginning(u)', Beginning(v)',
             thread'[u].on = thread'[v].on
      PROVE  u = v
  <2>1. \A w \in Threads \ {t} : Beginning(w)' =>
           Beginning(w) /\ thread'[w].on = thread[w].on /\ managed[thread[w].on] # NoSession
    BY <1>3 DEF Beginning, HarnessInv, ThreadsInv, CallInv
  <2>2. Beginning(t)' => \/ managed[thread'[t].on] = NoSession
                         \/ Beginning(t) /\ thread[t].on = thread'[t].on
    BY <1>2 DEF Beginning
  <2>3. CASE u # t /\ v # t
    BY <1>7, <2>1, <2>3 DEF HarnessInv, ThreadsInv
  <2>4. CASE u = t /\ v # t
    BY <1>7, <2>1, <2>2, <2>4 DEF HarnessInv, ThreadsInv
  <2>5. CASE v = t /\ u # t
    BY <1>7, <2>1, <2>2, <2>5 DEF HarnessInv, ThreadsInv
  <2> QED BY <2>3, <2>4, <2>5
<1> QED BY <1>4, <1>5, <1>6, <1>7 DEF HarnessInv, ThreadsInv


LEMMA HarnessStep ==
    ASSUME HarnessAssumption, NoSessionAssumption, HarnessInv, [HarnessNext]_harnessVars
    PROVE  HarnessInv'
<1>t. /\ HarnessTyped
      /\ \A t \in Threads : thread[t] \in CallShapes \cup {NoSession}
      /\ \A s \in ManagedIds : managed[s] \in ManagedRecord \cup {NoSession}
      /\ \A t \in Threads : thread[t] # NoSession => CallInv(thread[t])
      /\ \A s \in ManagedIds : SessionInv(s)
      /\ NoSession \in CallShapes \cup {NoSession}
  BY DEF HarnessInv, HarnessTyped, ThreadsInv
(* A call that holds a record is at one of these places. *)
<1>r. ASSUME NEW t \in Threads, NEW pc, At(t, pc),
             pc \in {"created", "starting", "looking", "cancelling", "killing", "killed"}
      PROVE  /\ thread[t] = [pc |-> pc, on |-> thread[t].on, record |-> thread[t].record]
             /\ thread[t].on \in ManagedIds /\ thread[t].record \in ManagedRecord
             /\ thread[t].record.owned \in BOOLEAN /\ thread[t].record.handle \in BOOLEAN
             /\ thread[t].record.print \in Fingerprint \cup {NoSession}
             /\ CallInv(thread[t])
  <2>1. thread[t] \in RecordCall
    BY <1>r, <1>t DEF At, CallShapes, ShortCall, SpawnedCall
  <2> QED BY <1>r, <1>t, <2>1 DEF At, RecordCall, ManagedRecord
<1>s. ASSUME NEW t \in Threads, NEW pc, At(t, pc),
             pc \in {"terminating", "awaiting", "probing", "completed"}
      PROVE  /\ thread[t] = [pc |-> pc, on |-> thread[t].on]
             /\ thread[t].on \in ManagedIds /\ CallInv(thread[t])
  <2>1. thread[t] \in ShortCall
    BY <1>s, <1>t DEF At, CallShapes, RecordCall, SpawnedCall
  <2> QED BY <1>s, <1>t, <2>1 DEF At, ShortCall
<1>p. ASSUME NEW t \in Threads, At(t, "spawned")
      PROVE  /\ thread[t].on \in ManagedIds /\ thread[t].record \in ManagedRecord
             /\ thread[t].pid \in Pids
  <2>1. thread[t] \in SpawnedCall
    BY <1>p, <1>t DEF At, CallShapes, RecordCall, ShortCall
  <2> QED BY <2>1 DEF SpawnedCall
<1>c. PICK created \in ManagedRecord : created.state = "CREATED"
  <2>1. [state |-> "CREATED", owned |-> TRUE, handle |-> TRUE, print |-> NoSession] \in ManagedRecord
    BY DEF ManagedRecord, ManagedStates
  <2> QED BY <2>1
(* A thread returns, and may store a record that does not say CANCELLED.   *)
<1>q. ASSUME NEW t \in Threads, Returns(t), NEW s \in ManagedIds, NEW record \in ManagedRecord,
             managed' = managed \/ Store(s, record),
             Store(s, record) => record.state # "CANCELLED" \/ Stopped(s),
             UNCHANGED <<processes, started, handles, spawned, signalled>>
      PROVE  HarnessInv'
  <2>1. PICK call : call = NoSession
    OBVIOUS
  <2>2. Calls(t, call) /\ call \in CallShapes \cup {NoSession}
    BY <1>q, <2>1 DEF Returns
  <2> QED BY <1>q, <2>1, <2>2, CallGoesOn
(* A thread goes on with a call, and may store a record. *)
<1>g. ASSUME NEW t \in Threads, NEW call \in CallShapes, Calls(t, call),
             NEW s \in ManagedIds, NEW record \in ManagedRecord,
             managed' = managed \/ Store(s, record), record.state # "CANCELLED",
             UNCHANGED <<processes, started, handles, spawned, signalled>>,
             CallInv(call)',
             call.pc \in {"created", "starting"} =>
                    \/ managed[call.on] = NoSession
                    \/ Beginning(t) /\ thread[t].on = call.on
      PROVE  HarnessInv'
  BY <1>g, CallGoesOn
(* The same without a record.  (The one that is named is not stored.)      *)
<1>h. ASSUME NEW t \in Threads, NEW call \in CallShapes, Calls(t, call), call.on \in ManagedIds,
             managed' = managed, call.pc \notin {"created", "starting"},
             UNCHANGED <<processes, started, handles, spawned, signalled>>,
             CallInv(call)'
      PROVE  HarnessInv'
  BY <1>c, <1>h, CallGoesOn
<1>1. ASSUME NEW t \in Threads, NEW s \in ManagedIds, Create(t, s)
      PROVE  HarnessInv'
  <2>1. PICK record : record = [state |-> "CREATED", owned |-> TRUE, handle |-> FALSE,
                                print |-> NoSession]
    OBVIOUS
  <2>2. PICK call : call = [pc |-> "created", on |-> s, record |-> record]
    OBVIOUS
  <2>3. record \in ManagedRecord /\ record.state = "CREATED" /\ record # NoSession
    <3>1. record \in ManagedRecord
      BY <2>1 DEF ManagedRecord, ManagedStates
    <3> QED BY <2>1, <3>1 DEF NoSessionAssumption
  <2>4. call \in CallShapes /\ call.pc = "created" /\ call.on = s
    BY <2>2, <2>3 DEF CallShapes, RecordCall
  <2>5. /\ Store(s, record) /\ Calls(t, call) /\ managed[s] = NoSession
        /\ UNCHANGED <<processes, started, handles, spawned, signalled>>
    BY <1>1, <2>1, <2>2 DEF Create
  <2>6. managed'[s] # NoSession /\ spawned'[s] = 0
    BY <1>t, <2>3, <2>5 DEF Store, HarnessTyped, SessionInv
  <2>7. CallInv(call)'
    BY <2>4, <2>6 DEF CallInv
  <2> QED BY <2>3, <2>4, <2>5, <2>7, <1>g
<1>2. ASSUME NEW t \in Threads, Announce(t)
      PROVE  HarnessInv'
  <2> DEFINE s == thread[t].on
  <2>1. At(t, "created") /\ UNCHANGED <<processes, started, handles, spawned, signalled>>
    BY <1>2 DEF Announce
  <2>2. /\ s \in ManagedIds /\ thread[t].record \in ManagedRecord /\ CallInv(thread[t])
        /\ thread[t].pc = "created" /\ thread[t] # NoSession
    BY <1>r, <2>1 DEF At
  <2>3. PICK record : record = [thread[t].record EXCEPT !.state = "STARTING"]
    OBVIOUS
  <2>4. PICK call : call = [pc |-> "starting", on |-> s, record |-> record]
    OBVIOUS
  <2>5. record \in ManagedRecord /\ record.state = "STARTING" /\ record # NoSession
    BY <2>2, <2>3 DEF ManagedRecord, ManagedStates, NoSessionAssumption
  <2>6. call \in CallShapes /\ call.pc = "starting" /\ call.on = s
    BY <2>2, <2>4, <2>5 DEF CallShapes, RecordCall
  <2>7. Store(s, record) /\ Calls(t, call)
    BY <1>2, <2>3, <2>4 DEF Announce
  <2>8. managed'[s] # NoSession /\ spawned'[s] = 0
    BY <1>t, <2>1, <2>2, <2>5, <2>7 DEF Store, HarnessTyped, CallInv
  <2>9. PICK r \in ManagedIds : r = s
    BY <2>2
  <2>10. CallInv(call)'
    BY <2>6, <2>8, <2>9, <2>4 DEF CallInv
  <2>11. Beginning(t) /\ thread[t].on = call.on /\ Store(r, record)
    BY <2>2, <2>6, <2>7, <2>9 DEF Beginning
  <2> QED BY <2>1, <2>5, <2>6, <2>7, <2>10, <2>11, <1>g
<1>3. ASSUME NEW t \in Threads, SpawnFails(t)
      PROVE  HarnessInv'
  <2>1. /\ At(t, "starting") /\ Returns(t)
        /\ Store(thread[t].on, [thread[t].record EXCEPT !.state = "FAILED"])
        /\ UNCHANGED <<processes, started, handles, spawned, signalled>>
    BY <1>3 DEF SpawnFails
  <2>2. /\ thread[t].on \in ManagedIds
        /\ [thread[t].record EXCEPT !.state = "FAILED"] \in ManagedRecord
        /\ [thread[t].record EXCEPT !.state = "FAILED"].state # "CANCELLED"
    BY <1>r, <2>1 DEF ManagedRecord, ManagedStates
  <2> QED BY <2>1, <2>2, <1>q
<1>4. ASSUME NEW t \in Threads, TakePrint(t)
      PROVE  HarnessInv'
  <2> DEFINE record == [thread[t].record EXCEPT !.state = "RUNNING", !.handle = TRUE,
                           !.print = [pid |-> thread[t].pid, time |-> StartTime(thread[t].pid)]]
  <2>1. /\ At(t, "spawned") /\ Returns(t) /\ Store(thread[t].on, record)
        /\ UNCHANGED <<processes, started, handles, spawned, signalled>>
    BY <1>4 DEF TakePrint
  <2>2. thread[t].on \in ManagedIds /\ thread[t].record \in ManagedRecord /\ thread[t].pid \in Pids
    BY <1>p, <2>1
  <2>3. [pid |-> thread[t].pid, time |-> StartTime(thread[t].pid)] \in Fingerprint
    BY <1>t, <2>2 DEF HarnessTyped, StartTime, Fingerprint
  <2>4. record \in ManagedRecord /\ record.state = "RUNNING"
    BY <2>2, <2>3 DEF ManagedRecord, ManagedStates
  <2> HIDE DEF record
  <2> QED BY <2>1, <2>2, <2>4, <1>q
<1>5. ASSUME NEW t \in Threads, NEW s \in ManagedIds, ReadStatus(t, s)
      PROVE  HarnessInv'
  <2>1. PICK call : call = [pc |-> "looking", on |-> s, record |-> managed[s]]
    OBVIOUS
  <2>2. /\ managed[s] \in ManagedRecord /\ managed' = managed /\ Calls(t, call)
        /\ UNCHANGED <<processes, started, handles, spawned, signalled>>
    BY <1>5, <1>t, <2>1 DEF ReadStatus, Mine
  <2>3. call \in CallShapes /\ call.pc = "looking" /\ call.on = s
    BY <2>1, <2>2 DEF CallShapes, RecordCall
  <2>4. CallInv(call)'
    BY <2>3 DEF CallInv
  <2> QED BY <2>2, <2>3, <2>4, <1>h
<1>6. ASSUME NEW t \in Threads, ReportStatus(t)
      PROVE  HarnessInv'
  <2> DEFINE record == [thread[t].record EXCEPT !.state = "LOST"]
  <2>1. /\ At(t, "looking") /\ Returns(t)
        /\ managed' = managed \/ Store(thread[t].on, record)
        /\ UNCHANGED <<processes, started, handles, spawned, signalled>>
    BY <1>6 DEF ReportStatus
  <2>2. thread[t].on \in ManagedIds /\ record \in ManagedRecord /\ record.state = "LOST"
    BY <1>r, <2>1 DEF ManagedRecord, ManagedStates
  <2> HIDE DEF record
  <2> QED BY <2>1, <2>2, <1>q
<1>7. ASSUME NEW t \in Threads, NEW s \in ManagedIds, Cancel(t, s)
      PROVE  HarnessInv'
  <2>1. PICK record : record = [managed[s] EXCEPT !.state = "CANCEL_REQUESTED"]
    OBVIOUS
  <2>2. PICK call : call = [pc |-> "cancelling", on |-> s, record |-> record]
    OBVIOUS
  <2>3. record \in ManagedRecord /\ record.state = "CANCEL_REQUESTED"
    BY <1>7, <1>t, <2>1 DEF Cancel, Mine, ManagedRecord, ManagedStates
  <2>4. call \in CallShapes /\ call.pc = "cancelling"
    BY <2>2, <2>3 DEF CallShapes, RecordCall
  <2>5. /\ Store(s, record) /\ Calls(t, call)
        /\ UNCHANGED <<processes, started, handles, spawned, signalled>>
    BY <1>7, <2>1, <2>2 DEF Cancel
  <2>6. CallInv(call)'
    BY <2>4 DEF CallInv
  <2> QED BY <2>3, <2>4, <2>5, <2>6, <1>g
<1>8. ASSUME NEW t \in Threads, VerifyToCancel(t)
      PROVE  HarnessInv'
  <2> DEFINE s == thread[t].on
  <2>1. At(t, "cancelling") /\ UNCHANGED <<processes, started, handles, spawned, signalled>>
    BY <1>8 DEF VerifyToCancel
  <2>2. /\ thread[t] = [pc |-> "cancelling", on |-> s, record |-> thread[t].record]
        /\ s \in ManagedIds /\ thread[t].record \in ManagedRecord
    BY <1>r, <2>1
  <2>3. CASE thread[t].record.handle /\ FingerprintOk(s)
    <3>1. PICK call : call = [pc |-> "killing", on |-> s, record |-> thread[t].record]
      OBVIOUS
    <3>2. call = [thread[t] EXCEPT !.pc = "killing"]
      BY <2>2, <3>1
    <3>3. managed' = managed /\ Calls(t, call)
      BY <1>8, <2>3, <3>2 DEF VerifyToCancel
    <3>4. call \in CallShapes /\ call.pc = "killing" /\ call.on = s
      BY <2>2, <3>1 DEF CallShapes, RecordCall
    <3>5. handles[s] # NoSession /\ StartTime(handles[s].pid) = spawned[s]
      BY <1>t, <2>2, <2>3 DEF FingerprintOk, SessionInv
    <3>6. CallInv(call)'
      BY <2>1, <2>2, <3>4, <3>5 DEF CallInv, StartTime, OwnTimes
    <3> QED BY <2>1, <2>2, <3>3, <3>4, <3>6, <1>h
  <2>4. CASE ~(thread[t].record.handle /\ FingerprintOk(s))
    <3> DEFINE record == [thread[t].record EXCEPT !.state = "FAILED"]
    <3>1. Store(s, record) /\ Returns(t)
      BY <1>8, <2>4 DEF VerifyToCancel
    <3>2. record \in ManagedRecord /\ record.state = "FAILED"
      BY <2>2 DEF ManagedRecord, ManagedStates
    <3> HIDE DEF record
    <3> QED BY <2>1, <2>2, <3>1, <3>2, <1>q
  <2> QED BY <2>3, <2>4
<1>9. ASSUME NEW t \in Threads, NEW s \in ManagedIds, TimeOut(t, s)
      PROVE  HarnessInv'
  <2>1. PICK call : call = [pc |-> "terminating", on |-> s]
    OBVIOUS
  <2>2. /\ Calls(t, call) /\ FingerprintOk(s)
        /\ UNCHANGED <<processes, started, managed, handles, spawned, signalled>>
    BY <1>9, <2>1 DEF TimeOut
  <2>3. call \in CallShapes /\ call.pc = "terminating" /\ call.on = s
    BY <2>1 DEF CallShapes, ShortCall
  <2>4. handles[s] # NoSession /\ StartTime(handles[s].pid) = spawned[s]
    BY <1>t, <2>2 DEF FingerprintOk, SessionInv
  <2>5. CallInv(call)'
    BY <2>2, <2>3, <2>4 DEF CallInv, StartTime, OwnTimes
  <2> QED BY <2>2, <2>3, <2>5, <1>h
<1>10. ASSUME NEW t \in Threads, StoreCancelled(t)
       PROVE  HarnessInv'
  <2> DEFINE record == [thread[t].record EXCEPT !.state = "CANCELLED"]
  <2>1. /\ At(t, "killed") /\ Returns(t) /\ Store(thread[t].on, record)
        /\ UNCHANGED <<processes, started, handles, spawned, signalled>>
    BY <1>10 DEF StoreCancelled
  <2>2. thread[t].on \in ManagedIds /\ record \in ManagedRecord
    BY <1>r, <2>1 DEF ManagedRecord, ManagedStates
  <2>3. Stopped(thread[t].on)
    BY <1>r, <2>1 DEF CallInv, At
  <2> HIDE DEF record
  <2> QED BY <2>1, <2>2, <2>3, <1>q
<1>11. ASSUME NEW t \in Threads, NEW s \in ManagedIds, Await(t, s)
       PROVE  HarnessInv'
  <2>1. PICK call : call = [pc |-> "awaiting", on |-> s]
    OBVIOUS
  <2>2. /\ Calls(t, call) /\ handles[s] # NoSession
        /\ UNCHANGED <<processes, started, managed, handles, spawned, signalled>>
    BY <1>11, <2>1 DEF Await
  <2>3. call \in CallShapes /\ call.pc = "awaiting" /\ call.on = s
    BY <2>1 DEF CallShapes, ShortCall
  <2>4. CallInv(call)'
    BY <2>2, <2>3 DEF CallInv
  <2> QED BY <2>2, <2>3, <2>4, <1>h
<1>12. ASSUME NEW t \in Threads, CheckPrint(t)
       PROVE  HarnessInv'
  <2> DEFINE s == thread[t].on
  <2>1. At(t, "awaiting") /\ UNCHANGED <<processes, started, managed, handles, spawned, signalled>>
    BY <1>12 DEF CheckPrint
  <2>2. thread[t] = [pc |-> "awaiting", on |-> s] /\ s \in ManagedIds
    BY <1>s, <2>1
  <2>3. CASE FingerprintOk(s)
    <3>1. PICK call : call = [pc |-> "probing", on |-> s]
      OBVIOUS
    <3>2. Calls(t, call)
      <4>1. call = [thread[t] EXCEPT !.pc = "probing"]
        BY <2>2, <3>1
      <4> QED BY <1>12, <2>3, <4>1 DEF CheckPrint
    <3>3. call \in CallShapes /\ call.pc = "probing" /\ call.on = s
      BY <2>2, <3>1 DEF CallShapes, ShortCall
    <3>4. CallInv(call)'
      BY <2>1, <2>3, <3>3 DEF CallInv, FingerprintOk
    <3> QED BY <2>1, <2>2, <3>2, <3>3, <3>4, <1>h
  <2>4. CASE ~FingerprintOk(s)
    <3>1. Returns(t)
      BY <1>12, <2>4 DEF CheckPrint
    <3> QED BY <1>c, <2>1, <2>2, <3>1, <1>q
  <2> QED BY <2>3, <2>4
<1>13. ASSUME NEW t \in Threads, Probe(t)
       PROVE  HarnessInv'
  <2> DEFINE s == thread[t].on
  <2>1. At(t, "probing") /\ UNCHANGED <<processes, started, managed, handles, spawned, signalled>>
    BY <1>13 DEF Probe
  <2>2. /\ thread[t] = [pc |-> "probing", on |-> s] /\ s \in ManagedIds
        /\ handles[s] # NoSession
    BY <1>s, <2>1 DEF CallInv
  <2>3. PICK pc : pc = IF StartTime(handles[s].pid) = 0 THEN "completed" ELSE "awaiting"
    OBVIOUS
  <2>4. PICK call : call = [pc |-> pc, on |-> s]
    OBVIOUS
  <2>5. Calls(t, call)
    <3>1. call = [thread[t] EXCEPT !.pc = pc]
      BY <2>2, <2>4
    <3> QED BY <1>13, <2>3, <3>1 DEF Probe
  <2>6. pc \in {"completed", "awaiting"} /\ call \in CallShapes /\ call.pc = pc /\ call.on = s
    BY <2>2, <2>3, <2>4 DEF CallShapes, ShortCall
  <2>7. SessionInv(s)
    BY <1>t, <2>2
  <2>8. CallInv(call)'
    BY <2>1, <2>2, <2>3, <2>6, <2>7 DEF CallInv, SessionInv, StartTime, Gone
  <2> QED BY <2>1, <2>2, <2>5, <2>6, <2>8, <1>h
<1>14. ASSUME NEW t \in Threads, AwaitReturns(t)
       PROVE  HarnessInv'
  <2>1. /\ At(t, "completed") \/ At(t, "awaiting")
        /\ Returns(t)
        /\ UNCHANGED <<processes, started, managed, handles, spawned, signalled>>
    BY <1>14 DEF AwaitReturns
  <2>2. thread[t].on \in ManagedIds
    BY <1>s, <2>1
  <2> QED BY <1>c, <2>1, <2>2, <1>q
<1>15. ASSUME NEW t \in Threads, NEW s \in ManagedIds, ObserveExternal(t, s)
       PROVE  HarnessInv'
  <2>1. PICK p \in Pids :
           Store(s, [state |-> "RUNNING", owned |-> FALSE, handle |-> FALSE,
                     print |-> [pid |-> p, time |-> StartTime(p)]])
    BY <1>15 DEF ObserveExternal
  <2> DEFINE record == [state |-> "RUNNING", owned |-> FALSE, handle |-> FALSE,
                        print |-> [pid |-> p, time |-> StartTime(p)]]
  <2>2. [pid |-> p, time |-> StartTime(p)] \in Fingerprint
    BY <1>t DEF HarnessTyped, StartTime, Fingerprint
  <2>3. record \in ManagedRecord /\ record.state = "RUNNING"
    BY <2>2 DEF ManagedRecord, ManagedStates
  <2>4. Returns(t) /\ UNCHANGED <<processes, started, handles, spawned, signalled>>
    BY <1>15, <1>t DEF ObserveExternal, Returns, Calls, HarnessTyped
  <2>5. Store(s, record)
    BY <2>1
  <2> HIDE DEF record
  <2> QED BY <2>3, <2>4, <2>5, <1>q
<1>16. ASSUME NEW t \in Threads, Spawn(t)
       PROVE  HarnessInv'
  <2>s. PICK s : s = thread[t].on
    OBVIOUS
  <2> DEFINE k == started + 1
  <2>1. /\ At(t, "starting") /\ started < MaxStarts
        /\ started' = k /\ spawned' = [spawned EXCEPT ![s] = k]
        /\ UNCHANGED <<managed, signalled>>
    BY <1>16, <2>s DEF Spawn
  <2>2. PICK p \in Pids :
           /\ processes[p] = 0
           /\ processes' \in {[processes EXCEPT ![p] = k], processes}
           /\ handles' = [handles EXCEPT ![s] = [pid |-> p, time |-> k]]
           /\ Calls(t, [pc |-> "spawned", on |-> s, record |-> thread[t].record, pid |-> p])
    BY <1>16, <2>s DEF Spawn
  <2>3. /\ s \in ManagedIds /\ thread[t].record \in ManagedRecord /\ CallInv(thread[t])
        /\ thread[t] # NoSession /\ thread[t].pc = "starting"
    BY <1>r, <2>1, <2>s DEF At
  <2>4. managed[s] # NoSession /\ spawned[s] = 0 /\ handles[s] = NoSession
    BY <1>t, <2>3, <2>s DEF CallInv, SessionInv
  <2>5. /\ started \in Nat /\ k \in 1..MaxStarts /\ MaxStarts \in Nat
        /\ \A r \in ManagedIds : spawned[r] \in 0..started
        /\ \A q \in Pids : processes[q] \in 0..started
    BY <1>t, <2>1 DEF HarnessAssumption, HarnessTyped, HarnessInv
  <2>6. /\ \A r \in ManagedIds : spawned'[r] = IF r = s THEN k ELSE spawned[r]
        /\ \A r \in ManagedIds : r # s => handles'[r] = handles[r]
        /\ handles'[s] = [pid |-> p, time |-> k]
    BY <1>t, <2>1, <2>2, <2>3 DEF HarnessTyped
  <2>7. \A q \in Pids : processes'[q] = processes[q] \/ (q = p /\ processes'[q] = k)
    BY <1>t, <2>2 DEF HarnessTyped
  <2>8. [pid |-> p, time |-> k] \in Fingerprint
    BY <2>5 DEF Fingerprint
  <2> DEFINE call == [pc |-> "spawned", on |-> s, record |-> thread[t].record, pid |-> p]
  <2>9. /\ call \in CallShapes /\ call.pc = "spawned"
        /\ thread'[t] = call /\ \A u \in Threads \ {t} : thread'[u] = thread[u]
    BY <1>t, <2>2, <2>3 DEF CallShapes, SpawnedCall, HarnessTyped, Calls
  <2>10. HarnessTyped'
    <3>1. processes' \in [Pids -> 0..MaxStarts]
      BY <1>t, <2>2, <2>5 DEF HarnessTyped
    <3>2. handles' \in [ManagedIds -> Fingerprint \cup {NoSession}]
      BY <1>t, <2>2, <2>8 DEF HarnessTyped
    <3>3. spawned' \in [ManagedIds -> 0..started']
      <4>1. \A r \in ManagedIds : spawned'[r] \in 0..started'
        BY <2>1, <2>5, <2>6
      <4>2. DOMAIN spawned' = ManagedIds /\ spawned' = [r \in ManagedIds |-> spawned'[r]]
        BY <1>t, <2>1 DEF HarnessTyped
      <4> HIDE DEF k
      <4> QED BY <4>1, <4>2
    <3>4. thread' \in [Threads -> CallShapes \cup {NoSession}]
      BY <1>t, <2>2, <2>9 DEF HarnessTyped, Calls
    <3>5. signalled' \subseteq 1..started' /\ started' \in 0..MaxStarts
      BY <1>t, <2>1, <2>5 DEF HarnessTyped
    <3> QED BY <1>t, <2>1, <3>1, <3>2, <3>3, <3>4, <3>5 DEF HarnessTyped
  <2>11. \A q \in Pids : processes'[q] <= started'
    BY <2>1, <2>5, <2>7
  <2>12. OwnTimes \ {0} \subseteq OwnTimes' /\ k \in OwnTimes'
    BY <2>3, <2>4, <2>6 DEF OwnTimes
  <2>13. signalled' \subseteq OwnTimes'
    BY <1>t, <2>1, <2>12 DEF HarnessInv, HarnessTyped
  <2>14. ASSUME NEW r \in ManagedIds, r # s, spawned[r] # 0
         PROVE  /\ \A q \in Pids : processes'[q] = spawned'[r] => processes[q] = spawned[r]
                /\ Stopped(r) => Stopped(r)'
    <3>1. spawned'[r] = spawned[r] /\ spawned[r] # k
      BY <2>5, <2>6, <2>14
    <3>2. \A q \in Pids : processes'[q] = spawned'[r] => processes[q] = spawned[r]
      BY <2>7, <3>1
    <3> QED BY <2>1, <3>1, <3>2 DEF Stopped, Gone
  <2>15. ASSUME NEW r \in ManagedIds
         PROVE  SessionInv(r)'
    <3>1. CASE r = s
      <4>1. \A q \in Pids : processes'[q] = k => q = p
        BY <2>5, <2>7
      <4>2. ~Stopped(s)
        BY <2>4 DEF Stopped
      <4>3. managed' = managed /\ managed[s].state # "CANCELLED"
        BY <1>t, <2>1, <2>3, <2>4, <4>2 DEF SessionInv
      <4>4. spawned'[s] = k /\ k # 0 /\ handles'[s].time = k /\ handles'[s].pid = p
        BY <2>3, <2>5, <2>6
      <4> HIDE DEF k
      <4> QED BY <2>4, <3>1, <4>1, <4>3, <4>4 DEF SessionInv
    <3>2. CASE r # s
      <4>1. SessionInv(r) /\ spawned'[r] = spawned[r] /\ handles'[r] = handles[r]
            /\ managed' = managed
        BY <1>t, <2>1, <2>6, <3>2
      <4> QED BY <2>14, <3>2, <4>1 DEF SessionInv, Stopped
    <3> QED BY <3>1, <3>2
  <2>16. ASSUME NEW u \in Threads, thread'[u] # NoSession
         PROVE  CallInv(thread[u])'
    <3>1. CASE u = t
      BY <2>9, <3>1 DEF CallInv
    <3>2. CASE u # t
      <4> DEFINE r == thread[u].on
      <4>1. thread'[u] = thread[u] /\ CallInv(thread[u]) /\ r \in ManagedIds
        BY <1>t, <2>9, <2>16, <3>2 DEF CallShapes, ShortCall, RecordCall, SpawnedCall
      <4>2. CASE thread[u].pc \in {"created", "starting"}
        <5>1. r # s
          BY <2>3, <2>16, <2>s, <3>2, <4>1, <4>2 DEF HarnessInv, ThreadsInv, Beginning
        <5> QED BY <2>1, <2>6, <4>1, <4>2, <5>1 DEF CallInv
      <4>3. CASE thread[u].pc \in {"awaiting", "probing", "killing", "terminating"}
        <5>1. handles[r] # NoSession /\ r # s
          BY <2>4, <4>1, <4>3 DEF CallInv
        <5>2. handles'[r] = handles[r] /\ handles[r].pid \in Pids
          BY <1>t, <2>6, <4>1, <5>1 DEF HarnessTyped, Fingerprint
        <5>3. thread[u].pc \in {"killing", "terminating"} =>
                 processes'[handles[r].pid] \in {0} \cup OwnTimes'
          BY <2>7, <2>12, <4>1, <5>2 DEF CallInv, StartTime
        <5> QED BY <4>1, <4>3, <5>1, <5>2, <5>3 DEF CallInv, StartTime
      <4>4. CASE thread[u].pc \in {"killed", "completed"}
        <5>1. spawned[r] # 0 /\ r # s
          BY <2>4, <4>1, <4>4 DEF CallInv, Stopped
        <5>2. spawned'[r] = spawned[r]
          BY <2>6, <4>1, <5>1
        <5> QED BY <2>14, <4>1, <4>4, <5>1, <5>2 DEF CallInv, Gone
      <4>5. CASE thread[u].pc \in {"looking", "cancelling", "spawned"}
        BY <4>1, <4>5 DEF CallInv
      <4>6. thread[u].pc \in {"created", "starting", "awaiting", "probing", "killing",
                              "terminating", "killed", "completed", "looking", "cancelling",
                              "spawned"}
        BY <1>t, <2>9, <2>16, <3>2 DEF CallShapes, ShortCall, RecordCall, SpawnedCall
      <4> QED BY <4>2, <4>3, <4>4, <4>5, <4>6
    <3> QED BY <3>1, <3>2
  <2>17. \A u \in Threads : Beginning(u)' => Beginning(u) /\ thread'[u] = thread[u]
    BY <2>9 DEF Beginning
  <2>18. ThreadsInv'
    BY <2>16, <2>17 DEF HarnessInv, ThreadsInv
  <2> QED BY <2>10, <2>11, <2>13, <2>15, <2>18 DEF HarnessInv
(* Processes end and signals are sent; nobody's call changes but, perhaps, *)
(* that of the thread that sent the signal.                                *)
<1>e. ASSUME UNCHANGED <<started, managed, handles, spawned>>,
             processes' \in [Pids -> 0..MaxStarts],
             \A p \in Pids : processes'[p] \in {processes[p], 0},
             signalled \subseteq signalled', signalled' \subseteq OwnTimes \cap (1..started)
      PROVE  /\ \A p \in Pids : processes'[p] <= started'
             /\ signalled' \subseteq OwnTimes'
             /\ \A s \in ManagedIds : SessionInv(s)'
             /\ \A call \in CallShapes : CallInv(call) => CallInv(call)'
  <2>1. \A p \in Pids : processes'[p] <= started'
    BY <1>e, <1>t DEF HarnessInv, HarnessTyped
  <2>2. \A s \in ManagedIds : spawned[s] # 0 =>
           /\ \A p \in Pids : processes'[p] = spawned[s] => processes[p] = spawned[s]
           /\ Stopped(s) => Stopped(s)'
           /\ Gone(s) => Gone(s)'
    BY <1>e DEF Stopped, Gone
  <2>3. ASSUME NEW s \in ManagedIds
        PROVE  SessionInv(s)'
    <3>1. SessionInv(s) /\ UNCHANGED <<managed, handles, spawned>>
      BY <1>e, <1>t
    <3>2. managed[s] # NoSession /\ managed[s].state = "CANCELLED" => Stopped(s)'
      BY <2>2, <3>1 DEF SessionInv, Stopped
    <3>3. handles[s] # NoSession =>
             \A p \in Pids : processes'[p] = spawned[s] => p = handles[s].pid
      BY <2>2, <3>1 DEF SessionInv
    <3> QED BY <3>1, <3>2, <3>3 DEF SessionInv
  <2>4. ASSUME NEW call \in CallShapes, CallInv(call)
        PROVE  CallInv(call)'
    <3>1. call.on \in ManagedIds
      BY DEF CallShapes, ShortCall, RecordCall, SpawnedCall
    <3>2. handles[call.on] # NoSession => handles[call.on].pid \in Pids
      BY <1>t, <3>1 DEF HarnessTyped, Fingerprint
    <3> QED BY <1>e, <2>2, <2>4, <3>1, <3>2 DEF CallInv, StartTime, Stopped, OwnTimes
  <2> QED BY <1>e, <2>1, <2>3, <2>4 DEF OwnTimes
<1>17. ASSUME NEW t \in Threads, Signal(t)
       PROVE  HarnessInv'
  <2>s. PICK s : s = thread[t].on
    OBVIOUS
  <2>t. PICK target : target = Target(s)
    OBVIOUS
  <2>1. /\ At(t, "killing") \/ At(t, "terminating")
        /\ signalled' = signalled \cup ({target} \ {0})
        /\ processes' \in
             {processes, [p \in Pids |-> IF processes[p] = target THEN 0 ELSE processes[p]]}
        /\ IF thread[t].pc = "killing" THEN Calls(t, [thread[t] EXCEPT !.pc = "killed"])
           ELSE Returns(t)
        /\ UNCHANGED <<started, managed, handles, spawned>>
    BY <1>17, <2>s, <2>t DEF Signal
  <2>2. /\ s \in ManagedIds /\ CallInv(thread[t]) /\ thread[t] # NoSession
        /\ thread[t].pc \in {"killing", "terminating"}
        /\ thread[t].pc = "killing" =>
              thread[t] = [pc |-> "killing", on |-> s, record |-> thread[t].record]
              /\ thread[t].record \in ManagedRecord
    BY <1>r, <1>s, <2>1, <2>s DEF At
  <2>3. /\ handles[s] # NoSession /\ handles[s].pid \in Pids /\ SessionInv(s)
        /\ spawned[s] # 0 /\ spawned[s] \in 0..started
    BY <1>t, <2>2, <2>s DEF CallInv, SessionInv, HarnessTyped, Fingerprint
  <2>4. target \in {0} \cup OwnTimes /\ target \in 0..started
    <3>1. CASE Scopes
      BY <2>t, <2>2, <2>3, <3>1 DEF Target, OwnTimes
    <3>2. CASE ~Scopes
      BY <1>t, <2>t, <2>2, <2>3, <2>s, <3>2 DEF Target, CallInv, StartTime, HarnessInv, HarnessTyped
    <3> QED BY <3>1, <3>2
  <2>5. /\ processes' \in [Pids -> 0..MaxStarts]
        /\ \A p \in Pids : processes'[p] \in {processes[p], 0}
    BY <1>t, <2>1 DEF HarnessTyped, HarnessAssumption
  <2>6. signalled' \subseteq OwnTimes \cap (1..started)
    BY <1>t, <2>1, <2>4 DEF HarnessInv, HarnessTyped
  <2>7. /\ \A p \in Pids : processes'[p] <= started'
        /\ signalled' \subseteq OwnTimes'
        /\ \A r \in ManagedIds : SessionInv(r)'
        /\ \A call \in CallShapes : CallInv(call) => CallInv(call)'
    BY <1>e, <2>1, <2>5, <2>6
  <2>8. Stopped(s)'
    <3>1. CASE target = spawned[s]
      BY <2>1, <2>3, <3>1 DEF Stopped
    <3>2. CASE target # spawned[s]
      <4>1. processes[handles[s].pid] # spawned[s]
        BY <2>t, <3>2 DEF Target, StartTime
      <4>2. \A p \in Pids : processes[p] # spawned[s]
        BY <2>3, <4>1 DEF SessionInv
      <4> QED BY <2>1, <2>3, <2>5, <4>2 DEF Stopped, Gone
    <3> QED BY <3>1, <3>2
  <2>9. PICK call : call = IF thread[t].pc = "killing"
                           THEN [pc |-> "killed", on |-> s, record |-> thread[t].record]
                           ELSE NoSession
    OBVIOUS
  <2>10. Calls(t, call) /\ call \in CallShapes \cup {NoSession}
    <3>1. CASE thread[t].pc = "killing"
      <4>1. call = [thread[t] EXCEPT !.pc = "killed"]
        BY <2>2, <2>9, <3>1
      <4>2. call \in RecordCall
        BY <2>2, <2>9, <3>1 DEF RecordCall
      <4> QED BY <2>1, <3>1, <4>1, <4>2 DEF CallShapes
    <3>2. CASE thread[t].pc # "killing"
      BY <2>1, <2>9, <3>2 DEF Returns
    <3> QED BY <3>1, <3>2
  <2>11. call # NoSession => CallInv(call)' /\ call.pc = "killed"
    <3>1. CASE thread[t].pc = "killing"
      <4>1. call.pc = "killed" /\ call.on = s
        BY <2>9, <3>1
      <4> QED BY <2>8, <4>1 DEF CallInv
    <3>2. CASE thread[t].pc # "killing"
      BY <2>9, <3>2
    <3> QED BY <3>1, <3>2
  <2>12. thread'[t] = call /\ \A u \in Threads \ {t} : thread'[u] = thread[u]
    BY <1>t, <2>10 DEF Calls, HarnessTyped
  <2>13. HarnessTyped'
    BY <1>t, <2>1, <2>5, <2>6, <2>10 DEF HarnessTyped, Calls
  <2>14. ThreadsInv'
    <3>1. \A u \in Threads : thread'[u] # NoSession => CallInv(thread[u])'
      <4>1. ASSUME NEW u \in Threads, u # t, thread'[u] # NoSession
            PROVE  CallInv(thread[u])'
        <5>1. PICK other \in CallShapes : other = thread[u] /\ other = thread'[u] /\ CallInv(other)
          BY <1>t, <2>12, <4>1
        <5>2. CallInv(other)'
          BY <2>7, <5>1
        <5> QED BY <5>1, <5>2 DEF CallInv
      <4>2. thread'[t] # NoSession => CallInv(thread[t])'
        BY <2>11, <2>12 DEF CallInv
      <4> QED BY <4>1, <4>2
    <3>2. \A u \in Threads : Beginning(u)' => Beginning(u) /\ thread'[u] = thread[u]
      BY <2>11, <2>12 DEF Beginning
    <3> QED BY <3>1, <3>2 DEF HarnessInv, ThreadsInv
  <2> QED BY <2>7, <2>13, <2>14 DEF HarnessInv
<1>18. ASSUME NEW p \in Pids, ProcessEnds(p)
       PROVE  HarnessInv'
  <2>1. /\ processes' = [processes EXCEPT ![p] = 0]
        /\ UNCHANGED <<started, managed, handles, thread, spawned, signalled>>
    BY <1>18 DEF ProcessEnds
  <2>2. /\ processes' \in [Pids -> 0..MaxStarts]
        /\ \A q \in Pids : processes'[q] \in {processes[q], 0}
        /\ signalled' \subseteq OwnTimes \cap (1..started)
    BY <1>t, <2>1 DEF HarnessInv, HarnessTyped, HarnessAssumption
  <2>3. /\ \A q \in Pids : processes'[q] <= started'
        /\ signalled' \subseteq OwnTimes'
        /\ \A s \in ManagedIds : SessionInv(s)'
        /\ \A call \in CallShapes : CallInv(call) => CallInv(call)'
    BY <1>e, <2>1, <2>2
  <2>4. HarnessTyped'
    BY <1>t, <2>1, <2>2 DEF HarnessTyped
  <2>5. ThreadsInv'
    <3>1. ASSUME NEW u \in Threads, thread'[u] # NoSession
          PROVE  CallInv(thread[u])'
      <4>1. PICK call \in CallShapes : call = thread[u] /\ call = thread'[u] /\ CallInv(call)
        BY <1>t, <2>1, <3>1
      <4>2. CallInv(call)'
        BY <2>3, <4>1
      <4> QED BY <4>1, <4>2 DEF CallInv
    <3> QED BY <2>1, <3>1 DEF HarnessInv, ThreadsInv, Beginning
  <2> QED BY <2>3, <2>4, <2>5 DEF HarnessInv
<1>19. ASSUME NEW p \in Pids, OtherStarts(p)
       PROVE  HarnessInv'
  <2> DEFINE k == started + 1
  <2>1. /\ processes[p] = 0 /\ started < MaxStarts /\ ~\E t \in Threads : AboutTo(t, p)
        /\ processes' = [processes EXCEPT ![p] = k] /\ started' = k
        /\ UNCHANGED <<managed, handles, thread, spawned, signalled>>
    BY <1>19 DEF OtherStarts
  <2>2. /\ started \in Nat /\ k \in 1..MaxStarts /\ MaxStarts \in Nat
        /\ \A r \in ManagedIds : spawned[r] \in 0..started
        /\ \A q \in Pids : processes[q] \in 0..started
        /\ \A q \in Pids : processes'[q] = IF q = p THEN k ELSE processes[q]
    BY <1>t, <2>1 DEF HarnessAssumption, HarnessTyped, HarnessInv
  <2>3. HarnessTyped' /\ signalled' \subseteq OwnTimes' /\ \A q \in Pids : processes'[q] <= started'
    BY <1>t, <2>1, <2>2 DEF HarnessInv, HarnessTyped, OwnTimes
  <2>4. \A s \in ManagedIds :
           /\ \A q \in Pids : processes'[q] = spawned[s] => processes[q] = spawned[s]
           /\ Gone(s) => Gone(s)'
           /\ Stopped(s) => Stopped(s)'
    BY <2>1, <2>2 DEF Gone, Stopped
  <2>5. \A s \in ManagedIds : SessionInv(s)'
    BY <1>t, <2>1, <2>4 DEF SessionInv
  <2>6. ASSUME NEW u \in Threads, thread'[u] # NoSession
        PROVE  CallInv(thread[u])'
    <3> DEFINE r == thread[u].on
    <3>1. thread'[u] = thread[u] /\ CallInv(thread[u]) /\ r \in ManagedIds
      BY <1>t, <2>1, <2>6 DEF CallShapes, ShortCall, RecordCall, SpawnedCall
    <3>2. thread[u].pc \in {"killing", "terminating"} =>
             handles[r].pid \in Pids /\ handles[r].pid # p
      BY <1>t, <2>1, <2>6, <3>1 DEF AboutTo, At, CallInv, HarnessTyped, Fingerprint
    <3> QED BY <2>1, <2>2, <2>4, <3>1, <3>2 DEF CallInv, StartTime, OwnTimes
  <2>7. ThreadsInv'
    BY <2>1, <2>6 DEF HarnessInv, ThreadsInv, Beginning
  <2> QED BY <2>3, <2>5, <2>7 DEF HarnessInv
<1>20. CASE ServerRestarts
  <2>1. /\ \A s \in ManagedIds : handles'[s] = NoSession
        /\ \A t \in Threads : thread'[t] = NoSession
        /\ UNCHANGED <<processes, started, managed, spawned, signalled>>
    BY <1>20 DEF ServerRestarts
  <2>2. HarnessTyped'
    BY <1>20, <1>t DEF ServerRestarts, HarnessTyped
  <2> QED BY <2>1, <2>2, <1>t DEF HarnessInv, ThreadsInv, Beginning, SessionInv, Stopped, Gone, OwnTimes
<1>21. CASE UNCHANGED harnessVars
  BY <1>21 DEF harnessVars, HarnessInv, HarnessTyped, ThreadsInv, Beginning, SessionInv, Stopped,
               Gone, OwnTimes, CallInv, StartTime
<1> QED BY <1>1, <1>2, <1>3, <1>4, <1>5, <1>6, <1>7, <1>8, <1>9, <1>10, <1>11, <1>12, <1>13,
           <1>14, <1>15, <1>16, <1>17, <1>18, <1>19, <1>20, <1>21 DEF HarnessNext

LEMMA HarnessTypes ==
    ASSUME HarnessInv
    PROVE  HarnessTypeOK
<1>1. \A call \in CallShapes : call \in ShortCall \/ call \in RecordCall \/ call \in SpawnedCall
  BY DEF CallShapes
<1>2. DOMAIN thread = Threads /\ \A t \in Threads : thread[t] \in CallShapes \cup {NoSession}
  BY DEF HarnessInv, HarnessTyped
<1> QED BY <1>1, <1>2 DEF HarnessInv, HarnessTyped, HarnessTypeOK, ShortCall, RecordCall, SpawnedCall

(* Only processes that were spawned for a session are ever sent a signal,  *)
(* whatever pids the operating system gives to whom.                       *)
THEOREM OnlyOwnProcessesAreSignalled ==
    ASSUME HarnessAssumption, NoSessionAssumption
    PROVE  HarnessSpec => []OnlyOwnProcessesSignalled
<1>1. HarnessInit => HarnessInv
  BY HarnessInitially
<1>2. HarnessInv /\ [HarnessNext]_harnessVars => HarnessInv'
  BY HarnessStep
<1>3. HarnessInv => OnlyOwnProcessesSignalled
  BY DEF HarnessInv, OwnTimes, OnlyOwnProcessesSignalled
<1> QED BY <1>1, <1>2, <1>3, PTL DEF HarnessSpec

(* A session is recorded as cancelled only after its own process was sent  *)
(* a signal or had ended.                                                  *)
THEOREM CancelledWasAlwaysStopped ==
    ASSUME HarnessAssumption, NoSessionAssumption
    PROVE  HarnessSpec => []CancelledWasStopped
<1>1. HarnessInit => HarnessInv
  BY HarnessInitially
<1>2. HarnessInv /\ [HarnessNext]_harnessVars => HarnessInv'
  BY HarnessStep
<1>3. HarnessInv => CancelledWasStopped
  BY DEF HarnessInv, SessionInv, Stopped, Gone, Mine, CancelledWasStopped
<1> QED BY <1>1, <1>2, <1>3, PTL DEF HarnessSpec

(* await_completion answers "completed" only for a process that is gone.   *)
THEOREM CompletedIsAlwaysGone ==
    ASSUME HarnessAssumption, NoSessionAssumption
    PROVE  HarnessSpec => []CompletedIsGone
<1>1. HarnessInit => HarnessInv
  BY HarnessInitially
<1>2. HarnessInv /\ [HarnessNext]_harnessVars => HarnessInv'
  BY HarnessStep
<1>3. HarnessInv => CompletedIsGone
  BY DEF HarnessInv, ThreadsInv, CallInv, Gone, At, CompletedIsGone
<1> QED BY <1>1, <1>2, <1>3, PTL DEF HarnessSpec

=============================================================================

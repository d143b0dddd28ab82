---------------------------- MODULE EventOutbox ----------------------------
(***************************************************************************)
(* outbox.py: the file of lifecycle events and their delivery to a webhook.*)
(* The requests and the monitor of the daemon emit events in threads of    *)
(* their own.  An event is appended as a row, then posted, and its row is  *)
(* marked by rewriting the whole file from a copy read before.             *)
(***************************************************************************)
EXTENDS Naturals, Sequences, FiniteSets, FiniteSetsExt

CONSTANTS
    Emitters,       \* threads that may emit
    MaxEmitted,     \* bound: events emitted
    MaxPosts,       \* max_retries of the outbox
    ReadLimit       \* how many rows retry_failed looks at

ASSUME OutboxAssumption ==
    /\ IsFiniteSet(Emitters)
    /\ {MaxEmitted, MaxPosts, ReadLimit} \subseteq Nat \ {0}

VARIABLES
    webhook,        \* is a webhook configured?
    emitting,       \* the threads that emit in this deployment
    outboxFile,     \* the rows, in the order of the file
    emitted,        \* how many events were ever appended
    accepted,       \* the events the webhook has accepted
    emitter         \* what every thread is doing

outboxVars == <<webhook, emitting, outboxFile, emitted, accepted, emitter>>

RowStates == {"pending", "delivered", "failed"}
EventRow == [event : 1..MaxEmitted, state : RowStates]

(* todo: the events still to be delivered, in the order of the file, which *)
(* is the order of their numbers; lines: the copy of the file that is      *)
(* about to replace it.                                                    *)
IdleEmitter == [pc |-> "idle", todo |-> {}, posts |-> 0,
                mark |-> "pending", lines |-> <<>>]

Current(e) == Min(emitter[e].todo)

OutboxInit ==
    /\ webhook \in BOOLEAN
    /\ emitting \in SUBSET Emitters \ {{}}
    /\ outboxFile = <<>>
    /\ emitted = 0
    /\ accepted = {}
    /\ emitter = [e \in Emitters |-> IdleEmitter]

(* Mutant of Rewritten: a delivered row is dropped. *)
RewrittenPruned(rows, n, s) ==
    IF s = "delivered" THEN SelectSeq(rows, LAMBDA row : row.event # n)
    ELSE [i \in DOMAIN rows |-> IF rows[i].event = n THEN [rows[i] EXCEPT !.state = s]
                                ELSE rows[i]]

(* Mutant of Rewritten: every row of the file gets the mark. *)
RewrittenAll(rows, n, s) == [i \in DOMAIN rows |-> [rows[i] EXCEPT !.state = s]]

Rewritten(rows, n, s) ==
    [i \in DOMAIN rows |-> IF rows[i].event = n THEN [rows[i] EXCEPT !.state = s]
                           ELSE rows[i]]

AppendEvent(e) ==
    /\ emitter[e].pc = "idle"
    /\ emitted < MaxEmitted
    /\ emitted' = emitted + 1
    /\ outboxFile' = Append(outboxFile, [event |-> emitted + 1, state |-> "pending"])
    /\ emitter' = IF webhook
                  THEN [emitter EXCEPT ![e].pc = "post", ![e].todo = {emitted + 1}]
                  ELSE emitter
    /\ UNCHANGED <<webhook, emitting, accepted>>

(* retry_failed: the last rows that are not delivered, one after another. *)
RetryFailed(e) ==
    LET open == {i \in DOMAIN outboxFile :
                    /\ i + ReadLimit > Len(outboxFile)
                    /\ outboxFile[i].state \in {"failed", "pending"}}
    IN
    /\ emitter[e].pc = "idle"
    /\ webhook /\ open # {}
    /\ emitter' = [emitter EXCEPT ![e].pc = "post",
                                  ![e].todo = {outboxFile[i].event : i \in open}]
    /\ UNCHANGED <<webhook, emitting, outboxFile, emitted, accepted>>

(* One POST.  A post whose answer is lost may have been accepted.          *)
Post(e) ==
    LET tries == emitter[e].posts + 1
        marked(s) == [emitter EXCEPT ![e].pc = "read", ![e].mark = s,
                                     ![e].posts = 0]
        again == IF tries < MaxPosts THEN [emitter EXCEPT ![e].posts = tries]
                 ELSE marked("failed")
    IN
    /\ emitter[e].pc = "post"
    /\ \/ accepted' = accepted \cup {Current(e)} /\ emitter' = marked("delivered")
       \/ accepted' = accepted \cup {Current(e)} /\ emitter' = again
       \/ accepted' = accepted /\ emitter' = again
    /\ UNCHANGED <<webhook, emitting, outboxFile, emitted>>

(* _update_row: read the file, then replace it. *)
ReadLines(e) ==
    /\ emitter[e].pc = "read"
    /\ emitter' = [emitter EXCEPT
                     ![e].pc = "replace",
                     ![e].lines = Rewritten(outboxFile, Current(e), emitter[e].mark)]
    /\ UNCHANGED <<webhook, emitting, outboxFile, emitted, accepted>>

ReplaceFile(e) ==
    /\ emitter[e].pc = "replace"
    /\ outboxFile' = emitter[e].lines
    /\ LET rest == emitter[e].todo \ {Current(e)} IN
       emitter' = [emitter EXCEPT
                     ![e] = IF rest = {} THEN IdleEmitter
                            ELSE [IdleEmitter EXCEPT !.pc = "post", !.todo = rest]]
    /\ UNCHANGED <<webhook, emitting, emitted, accepted>>

(* The daemon dies and is started again: a row may stay pending. *)
OutboxCrash ==
    /\ \E e \in emitting : emitter[e].pc # "idle"
    /\ emitter' = [e \in Emitters |-> IdleEmitter]
    /\ UNCHANGED <<webhook, emitting, outboxFile, emitted, accepted>>

OutboxNext ==
    \/ \E e \in emitting : \/ AppendEvent(e) \/ RetryFailed(e) \/ Post(e)
                           \/ ReadLines(e) \/ ReplaceFile(e)
    \/ OutboxCrash

OutboxSpec == OutboxInit /\ [][OutboxNext]_outboxVars

-----------------------------------------------------------------------------
(* Properties *)

(* The file holds rows of events that were emitted, each at most once.     *)
OutboxTypeOK ==
    /\ webhook \in BOOLEAN /\ emitting \subseteq Emitters
    /\ outboxFile \in Seq(EventRow)
    /\ emitted \in 0..MaxEmitted
    /\ accepted \subseteq 1..emitted
    /\ \A i, j \in DOMAIN outboxFile :
          i < j => outboxFile[i].event < outboxFile[j].event
    /\ \A e \in Emitters :
          /\ emitter[e].pc \in {"idle", "post", "read", "replace"}
          /\ emitter[e].todo \subseteq 1..emitted

(* A row says delivered only when the webhook has accepted its event, also *)
(* when threads overwrite each other's rows and the daemon dies between    *)
(* the post and the mark.                                                  *)
DeliveredIsTrue ==
    \A i \in DOMAIN outboxFile :
        outboxFile[i].state = "delivered" => outboxFile[i].event \in accepted

(* "Every event is persisted BEFORE any webhook attempt": whatever is in   *)
(* flight, every emitted event has its row, and nothing reaches the        *)
(* webhook that has none.  This holds without a webhook, as the daemon is  *)
(* started, and for one thread; two threads with a webhook lose rows to    *)
(* each other's rewrites.                                                  *)
EventsAreKept ==
    (webhook => Cardinality(emitting) = 1) =>
        [i \in DOMAIN outboxFile |-> outboxFile[i].event] = [i \in 1..emitted |-> i]
=============================================================================

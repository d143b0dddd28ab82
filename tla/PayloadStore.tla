---------------------------- MODULE PayloadStore ----------------------------
(***************************************************************************)
(* payload.py and its use by submit, retry and dispatch in service.py: the *)
(* instructions of a job are kept in a file of their own, and the job only *)
(* has the name and the hash of them.  Files may be altered, torn or       *)
(* exchanged on disk; no run may be given anything but what was submitted. *)
(***************************************************************************)
EXTENDS Naturals

CONSTANTS
    Payloads,       \* payload ids, one for every submitted job
    Texts,          \* instructions; the hash of a text is the text
    NoPayload, NoJob

ASSUME PayloadAssumption == NoPayload \notin Texts

VARIABLES
    payloadFiles,   \* the files of the store
    jobHash,        \* the hash in the saved job of a payload
    submitted,      \* what was submitted under a payload id
    given,          \* what the runs of a job were given
    submitting      \* the payload whose job is not saved yet

payloadVars == <<payloadFiles, jobHash, submitted, given, submitting>>

(* sha: content_sha256 of the envelope; whole: the file can be parsed;     *)
(* expired: retention_until has passed.                                    *)
Envelope == [text : Texts, sha : Texts, whole : BOOLEAN, expired : BOOLEAN]

PayloadInit ==
    /\ payloadFiles = [p \in Payloads |-> NoPayload]
    /\ jobHash = [p \in Payloads |-> NoJob]
    /\ submitted = [p \in Payloads |-> NoPayload]
    /\ given = [p \in Payloads |-> {}]
    /\ submitting = NoPayload

(* put: the file appears at once, under a lock. *)
PutPayload ==
    /\ submitting = NoPayload
    /\ \E p \in Payloads, t \in Texts :
          /\ submitted[p] = NoPayload
          /\ payloadFiles' = [payloadFiles EXCEPT
                ![p] = [text |-> t, sha |-> t, whole |-> TRUE, expired |-> FALSE]]
          /\ submitted' = [submitted EXCEPT ![p] = t]
          /\ submitting' = p
    /\ UNCHANGED <<jobHash, given>>

SaveJobOfPayload ==
    /\ submitting # NoPayload
    /\ jobHash' = [jobHash EXCEPT ![submitting] = submitted[submitting]]
    /\ submitting' = NoPayload
    /\ UNCHANGED <<payloadFiles, submitted, given>>

(* A crash in between leaves a payload without a job. *)
SubmitDies ==
    /\ submitting # NoPayload
    /\ submitting' = NoPayload
    /\ UNCHANGED <<payloadFiles, jobHash, submitted, given>>

Readable(p) ==
    /\ payloadFiles[p] # NoPayload
    /\ payloadFiles[p].whole
    /\ payloadFiles[p].text = payloadFiles[p].sha

(* Mutant of Trusted: a file that is consistent in itself is enough. *)
TrustedByItself(p) == Readable(p)

(* get, and the comparison of dispatch_claimed and retry_job with the job. *)
Trusted(p) == Readable(p) /\ payloadFiles[p].sha = jobHash[p]

(* Anything else fails the attempt, or refuses the retry. *)
GiveToRun ==
    /\ \E p \in Payloads :
          /\ jobHash[p] # NoJob /\ Trusted(p)
          /\ given' = [given EXCEPT ![p] = @ \cup {payloadFiles[p].text}]
    /\ UNCHANGED <<payloadFiles, jobHash, submitted, submitting>>

DeletePayload ==
    /\ \E p \in Payloads : payloadFiles' = [payloadFiles EXCEPT ![p] = NoPayload]
    /\ UNCHANGED <<jobHash, submitted, given, submitting>>

(* cleanup_expired leaves files it cannot read for a loud failure later. *)
CleanupExpired ==
    /\ payloadFiles' = [p \in Payloads |->
          IF payloadFiles[p] # NoPayload /\ payloadFiles[p].whole
             /\ payloadFiles[p].expired
          THEN NoPayload ELSE payloadFiles[p]]
    /\ UNCHANGED <<jobHash, submitted, given, submitting>>

RetentionEnds ==
    /\ \E p \in Payloads :
          /\ payloadFiles[p] # NoPayload
          /\ payloadFiles' = [payloadFiles EXCEPT ![p].expired = TRUE]
    /\ UNCHANGED <<jobHash, submitted, given, submitting>>

(* The disk: a file is torn, its text changes, or it is exchanged for one  *)
(* that is consistent in itself.                                           *)
AlterFile ==
    /\ \E p \in Payloads, t \in Texts :
          /\ payloadFiles[p] # NoPayload
          /\ \/ payloadFiles' = [payloadFiles EXCEPT ![p].whole = FALSE]
             \/ payloadFiles' = [payloadFiles EXCEPT ![p].text = t]
             \/ payloadFiles' = [payloadFiles EXCEPT ![p].text = t, ![p].sha = t]
    /\ UNCHANGED <<jobHash, submitted, given, submitting>>

PayloadNext ==
    \/ PutPayload \/ SaveJobOfPayload \/ SubmitDies \/ GiveToRun
    \/ DeletePayload \/ CleanupExpired \/ RetentionEnds \/ AlterFile

PayloadSpec == PayloadInit /\ [][PayloadNext]_payloadVars

-----------------------------------------------------------------------------
(* Properties *)

(* Files are envelopes, and a saved job has the hash of its submission.    *)
PayloadTypeOK ==
    /\ payloadFiles \in [Payloads -> Envelope \cup {NoPayload}]
    /\ submitting \in Payloads \cup {NoPayload}
    /\ \A p \in Payloads : jobHash[p] \in {NoJob, submitted[p]}

(* Every run of a job, the first and those of later retries, is given      *)
(* exactly the submitted instructions, whatever happened to the file:      *)
(* "never falls back to an empty or redacted prompt".                      *)
RunsGetWhatWasSubmitted ==
    \A p \in Payloads : given[p] \subseteq {submitted[p]}

=============================================================================

-------------------------- MODULE AccountableChange --------------------------
(***************************************************************************)
(* Accountable changes (skills/accountable_agent): the record that an      *)
(* agent's change has an approved change request and requirements behind   *)
(* it.  The commands are processes of their own: each loads all records    *)
(* when it starts, reads the linked request from ChangeRequest's files as  *)
(* it goes, and saves its copy of the record at the end.                   *)
(***************************************************************************)
EXTENDS ChangeRequest

CONSTANTS
    Changes,        \* the accountable changes that may be registered
    AcClients,      \* the processes that run their commands
    NoChange        \* no record

\* The request a change is linked to, and the one its evidence packet is about;
\* 0 is none.  A change that is reset and linked anew keeps its old packet.
AcRecord == [status : {"pending", "linked", "validated", "blocked"},
             cr : 0 .. MaxRequests, refs : {"none", "other", "sw"},
             evidence : 0 .. MaxRequests]

ASSUME ChangeAssumption == NoChange \notin AcRecord

VARIABLES
    acFiles,        \* change -> its record under changes/accountable
    acClient        \* client -> the command it runs
acVars == <<acFiles, acClient>>

NoAcCommand == [step |-> "idle", on |-> NoChange, mine |-> NoChange, cmd |-> "none",
              issues |-> FALSE, overtaken |-> FALSE, cited |-> NoRequest]

AcInit ==
    /\ CrInit
    /\ acFiles = [a \in Changes |-> NoChange]
    /\ acClient = [p \in AcClients |-> NoAcCommand]

-----------------------------------------------------------------------------
AcTransitions(s) ==
    CASE s = "pending"   -> {"linked", "blocked"}
      [] s = "linked"    -> {"validated", "blocked"}
      [] s = "validated" -> {}
      [] s = "blocked"   -> {"pending"}

\* _check_bugfix_blocking: a bugfix needs a software requirement, and its
\* verification cases once it is implemented.
BugfixBlocks(r, refs) ==
    r.bugfix /\ \/ refs # "sw"
                \/ r.status \in Implemented /\ "verifications" \notin r.fields

\* pre_flight_check, the gate of a strict registration.
PreFlightPasses(n, refs) ==
    /\ CrReadable(n)
    /\ crFiles[n].status = "approved"
    /\ refs # "none"
    /\ ~BugfixBlocks(crFiles[n], refs)

Free(p) == acClient[p].step = "idle"
CrUnchanged == UNCHANGED crVars

\* A save of record a overtakes every other client that holds a copy of it.
Overtake(a, p) ==
    [q \in AcClients |->
        IF q # p /\ acClient[q].on = a THEN [acClient[q] EXCEPT !.overtaken = TRUE]
        ELSE acClient[q]]

\* register_accountable_change: nothing is saved unless the strict gate passes.
RegisterChange(p) ==
    /\ Free(p)
    /\ \E a \in Changes, n \in 0 .. MaxRequests, refs \in {"none", "other", "sw"},
          strict \in BOOLEAN :
         /\ acFiles[a] = NoChange
         /\ strict => n # 0 /\ PreFlightPasses(n, refs)
         /\ acFiles' = [acFiles EXCEPT ![a] =
                [status |-> IF n # 0 /\ refs # "none" THEN "linked" ELSE "pending",
                 cr |-> n, refs |-> refs, evidence |-> 0]]
    /\ UNCHANGED acClient /\ CrUnchanged

\* Every other command starts by loading the records.
LoadChange(p) ==
    /\ Free(p)
    /\ \E a \in Changes, cmd \in {"validate", "evidence", "reset", "link"} :
         /\ acFiles[a] # NoChange
         /\ acClient' = [acClient EXCEPT ![p] =
                [NoAcCommand EXCEPT !.on = a, !.mine = acFiles[a], !.cmd = cmd,
                   !.step = IF cmd \in {"validate", "evidence"} THEN "status" ELSE "save"]]
    /\ UNCHANGED acFiles /\ CrUnchanged

\* validate_accountability loads the request once for its status and the bugfix
\* rules, and again for the blocking issues of its own validation.
ReadRequestStatus(p) ==
    LET ac == acClient[p]
        n == ac.mine.cr
        found == CrReadable(n) IN
    /\ ac.step = "status"
    /\ acClient' = [acClient EXCEPT ![p].step = IF found THEN "issues" ELSE "decide",
                                    ![p].issues =
            \/ ac.mine.refs = "none"
            \/ ~found
            \/ crFiles[n].status \notin Approved
            \/ BugfixBlocks(crFiles[n], ac.mine.refs)]
    /\ UNCHANGED acFiles /\ CrUnchanged

ReadRequestIssues(p) ==
    LET ac == acClient[p]
        n == ac.mine.cr IN
    /\ ac.step = "issues"
    /\ acClient' = [acClient EXCEPT ![p].step = "decide",
                                    ![p].issues = @ \/ ~CrReadable(n) \/ ~NothingBlocks(crFiles[n])]
    /\ UNCHANGED acFiles /\ CrUnchanged

\* Mutant of StatusAfter: the issues are reported and not acted on.
StatusAfterReport(ac) ==
    IF ac.mine.status = "linked" THEN [ac.mine EXCEPT !.status = "validated"] ELSE ac.mine

\* The end of validate_accountability.  A pending record without an issue (one
\* that was reset) raises: the matrix has no way from pending to validated.
StatusAfter(ac) ==
    IF ac.mine.status \notin {"pending", "linked"} THEN ac.mine
    ELSE [ac.mine EXCEPT !.status = IF ac.issues THEN "blocked" ELSE "validated"]

Decide(p) ==
    LET ac == acClient[p]
        raises == ac.mine.status = "pending" /\ ~ac.issues IN
    /\ ac.step = "decide"
    /\ IF raises
       THEN /\ acClient' = [acClient EXCEPT ![p] = NoAcCommand]
            /\ UNCHANGED acFiles
       ELSE /\ acFiles' = [acFiles EXCEPT ![ac.on] = StatusAfter(ac)]
            /\ acClient' = [Overtake(ac.on, p) EXCEPT ![p] =
                    IF ac.cmd = "evidence" /\ ~ac.issues
                    THEN [ac EXCEPT !.step = "quote", !.mine = StatusAfter(ac)]
                    ELSE NoAcCommand]
    /\ CrUnchanged

\* generate_accountability_evidence goes on to the request's own evidence: the
\* request is loaded, and saved with the reference, whatever was saved between.
\* A request that cannot be read is noted as missing, and the packet is written.
LoadRequestToCite(p) ==
    LET ac == acClient[p]
        n == ac.mine.cr IN
    /\ ac.step = "quote"
    /\ acClient' = [acClient EXCEPT
            ![p].step = IF CrReadable(n) THEN "cite" ELSE "save",
            ![p].cited = IF CrReadable(n) THEN crFiles[n] ELSE NoRequest]
    /\ UNCHANGED acFiles /\ CrUnchanged

SaveCitedRequest(p) ==
    LET ac == acClient[p]
        n == ac.mine.cr IN
    /\ ac.step = "cite"
    /\ acClient' = [acClient EXCEPT ![p].step = "save", ![p].cited = NoRequest]
    /\ crFiles' = [crFiles EXCEPT ![n] =
            [ac.cited EXCEPT !.fields = @ \cup EvidenceOf(ac.cited)]]
    /\ crTainted' = [crTainted EXCEPT ![n] = @ \/ crFiles[n] # ac.cited]
    /\ crClient' = [c \in CrClients |->
            IF crClient[c].on = n THEN [crClient[c] EXCEPT !.disturbed = TRUE]
            ELSE crClient[c]]
    /\ UNCHANGED acFiles

\* reset, link_to_cr and the end of an evidence command.
ResetTo(change) == [change EXCEPT !.status = "pending"]

LinkTo(change, n) ==
    [change EXCEPT !.cr = n, !.status = IF change.refs = "none" THEN @ ELSE "linked"]

Result(ac) ==
    CASE ac.cmd = "reset"    -> {ResetTo(ac.mine)}
      [] ac.cmd = "link"     -> {LinkTo(ac.mine, n) : n \in Numbers}
      [] ac.cmd = "evidence" -> {[ac.mine EXCEPT !.evidence = ac.mine.cr]}

\* Mutant of Allowed: the commands set the status without the matrix.
AllowedAlways(ac, r) == TRUE

Allowed(ac, r) ==
    \/ ac.cmd = "evidence"
    \/ ac.cmd = "link" /\ ac.mine.refs = "none"
    \/ r.status \in AcTransitions(ac.mine.status)

SaveChange(p) ==
    LET ac == acClient[p] IN
    /\ ac.step = "save"
    /\ \E r \in Result(ac) :
         IF Allowed(ac, r)
         THEN /\ acFiles' = [acFiles EXCEPT ![ac.on] = r]
              /\ acClient' = [Overtake(ac.on, p) EXCEPT ![p] = NoAcCommand]
         ELSE /\ acClient' = [acClient EXCEPT ![p] = NoAcCommand]
              /\ UNCHANGED acFiles
    /\ CrUnchanged

AcClientStep(p) ==
    \/ RegisterChange(p)
    \/ LoadChange(p)
    \/ ReadRequestStatus(p)
    \/ ReadRequestIssues(p)
    \/ Decide(p)
    \/ LoadRequestToCite(p)
    \/ SaveCitedRequest(p)
    \/ SaveChange(p)

AcNext ==
    \/ \E p \in AcClients : AcClientStep(p)
    \/ CrNext /\ UNCHANGED acVars

AcSpec == AcInit /\ [][AcNext]_<<crVars, acVars>>

-----------------------------------------------------------------------------
\* Records and commands have their types.
AcTypeOK ==
    /\ acFiles \in [Changes -> AcRecord \cup {NoChange}]
    /\ acClient \in [AcClients ->
            [step : {"idle", "status", "issues", "decide", "quote", "cite", "save"},
             on : Changes \cup {NoChange}, mine : AcRecord \cup {NoChange},
             cmd : {"none", "validate", "evidence", "reset", "link"},
             cited : CrRecord \cup {NoRequest}, issues : BOOLEAN, overtaken : BOOLEAN]]

\* The requests a change relies on: the one it was validated by, and the one its
\* evidence packet is about.
ReliesOn(change) ==
    {change.cr : s \in {change.status} \cap {"validated"}} \cup ({change.evidence} \ {0})

\* Behind every validated change, and behind every evidence packet, stands a
\* change request that a reviewer approved: whatever became of the request
\* after it was read, it carries an approval, unless its file was overwritten by
\* a client that had been overtaken, lost a field to a text, or cannot be read.
AccountedChangesWereApproved ==
    \A a \in Changes : acFiles[a] # NoChange =>
        \A n \in ReliesOn(acFiles[a]) :
            /\ n # 0
            /\ (CrReadable(n) /\ ~crTainted[n] /\ ~crFiles[n].lost)
                 => "approval" \in crFiles[n].fields

\* A record's status moves along the matrix (so a validated change stays
\* validated), unless the client that saves it was overtaken since its load.
AcMovesFollowTheMatrix ==
    [][\A a \in Changes :
        (acFiles[a] # NoChange /\ acFiles'[a].status # acFiles[a].status)
            => \/ acFiles'[a].status \in AcTransitions(acFiles[a].status)
               \/ \E p \in AcClients : acClient[p].on = a /\ acClient[p].overtaken]_acVars
=============================================================================

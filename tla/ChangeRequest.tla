---------------------------- MODULE ChangeRequest ----------------------------
(***************************************************************************)
(* Change requests (skills/change_request, cli/commands/cr.py): one file   *)
(* per request, and commands, each a process of its own, that load the     *)
(* file, note what the command line gives (a reviewer, commits, evidence), *)
(* save, load again, validate the requested transition and save the new    *)
(* status.  Nothing is held from one load to the next save.                *)
(*                                                                         *)
(* A request is its status and the set of fields that hold a value.  Three *)
(* things the program does not keep are recorded: a client is "disturbed"  *)
(* when another one saved its request since it started, a request is       *)
(* tainted once a disturbed client saved it, and it has "lost" something   *)
(* once a command's text took a field from it: front matter ends where a   *)
(* text holds its delimiter, and an empty text is not written.             *)
(***************************************************************************)
EXTENDS Naturals, FiniteSets

CONSTANTS
    CrClients,      \* the processes that run commands
    MaxRequests,    \* bound: how many request numbers are used
    GivenFields,    \* the sets of fields a new request may be given
    NoRequest,      \* no file, and no request in hand
    Torn            \* a file that cannot be read back

CrStatus == {"draft", "submitted", "approved", "in_progress", "implemented",
             "verified", "closed", "rejected", "emergency"}
Refs == {"swReq", "sysReq", "otherRef"}
FieldNames == {"identity", "content", "linkage", "approval", "rejection", "files",
               "verifications", "commits", "evidence", "evidenceOfWork", "incident",
               "postMortem", "rootCause"} \cup Refs
CrRecord == [status : CrStatus, bugfix : BOOLEAN, emergency : BOOLEAN,
             fields : SUBSET FieldNames, lost : BOOLEAN]

\* The texts a command may save, by the names of their fields.
CrTexts == {"title", "requester", "problem", "refs", "reviewer", "comment", "rejection",
          "files", "verifications", "commits", "incident", "rollback"}
Numbers == 1 .. MaxRequests

ASSUME RequestAssumption ==
    /\ MaxRequests \in Nat
    /\ GivenFields \subseteq SUBSET FieldNames
    /\ NoRequest \notin CrRecord /\ Torn \notin CrRecord /\ NoRequest # Torn

VARIABLES
    crFiles,        \* number -> the request in changes/CR-nnn.md
    crClient,       \* client -> the command it runs
    crTainted       \* ghost: number -> a disturbed client saved it
crVars == <<crFiles, crClient, crTainted>>

IdleClient == [step |-> "idle", on |-> 0, to |-> "none", view |-> NoRequest,
               delimiter |-> "none", disturbed |-> FALSE]

CrInit ==
    /\ crFiles = [n \in Numbers |-> NoRequest]
    /\ crClient = [c \in CrClients |-> IdleClient]
    /\ crTainted = [n \in Numbers |-> FALSE]

-----------------------------------------------------------------------------
(* The state machine and the validation rules. *)

Transitions(s) ==
    CASE s = "draft"       -> {"submitted", "rejected"}
      [] s = "submitted"   -> {"approved", "rejected", "draft"}
      [] s = "approved"    -> {"in_progress", "rejected"}
      [] s = "in_progress" -> {"implemented", "rejected"}
      [] s = "implemented" -> {"verified", "rejected"}
      [] s = "verified"    -> {"closed"}
      [] s = "closed"      -> {}
      [] s = "rejected"    -> {"draft"}
      [] s = "emergency"   -> {"submitted"}

\* Mutant of CanTransition: one state may be passed over.
CanReach(r, to) ==
    \E s \in Transitions(r.status) : to = s \/ to \in Transitions(s)

CanTransition(r, to) == to \in Transitions(r.status)

HasRefs(r) == r.fields \cap Refs # {}

\* The mandatory fields by target status.
Submitted == {"submitted", "approved", "in_progress", "implemented", "verified", "closed"}
Approved == Submitted \ {"submitted"}
Implemented == {"implemented", "verified", "closed"}

MandatoryFields(to) ==
    {"identity"} \cup (IF to \in Submitted THEN {"content"} ELSE {})
    \cup (IF to \in Approved THEN {"approval"} ELSE {})
    \cup (IF to \in Implemented THEN {"files", "verifications", "commits"} ELSE {})
    \cup (IF to \in {"verified", "closed"} THEN {"evidence"} ELSE {})
    \cup (IF to = "rejected" THEN {"rejection"} ELSE {})

HasMandatoryFields(r, to) ==
    /\ MandatoryFields(to) \subseteq r.fields
    /\ to \in Submitted => HasRefs(r)
    /\ (to # "draft" /\ r.bugfix) => "linkage" \in r.fields

DerivationMet(r) == "sysReq" \in r.fields => "swReq" \in r.fields

BugfixRulesMet(r) ==
    r.bugfix =>
        /\ {"swReq", "linkage"} \subseteq r.fields
        /\ r.status = "implemented" => "verifications" \in r.fields
        /\ r.emergency => "incident" \in r.fields
        /\ r.status = "closed" => "rootCause" \in r.fields

EmergencyRulesMet(r) ==
    r.emergency =>
        /\ "incident" \in r.fields
        /\ r.status = "emergency" => "postMortem" \in r.fields

\* validate_all: nothing BLOCKING (a missing impact level is only a warning).
NothingBlocks(r) == DerivationMet(r) /\ BugfixRulesMet(r) /\ EmergencyRulesMet(r)

\* validate_for_transition, on the request as it is before the transition.
TransitionValid(r, to) ==
    /\ DerivationMet(r)
    /\ to # "draft" => BugfixRulesMet(r)
    /\ (to = "closed" /\ r.bugfix) => "rootCause" \in r.fields
    /\ EmergencyRulesMet(r)

\* Mutants of MayMove: the fields of the present status, or no matrix.
MayMoveAsItIs(r, to) ==
    TransitionValid(r, to) /\ CanTransition(r, to) /\ HasMandatoryFields(r, r.status)

MayMoveAnywhere(r, to) == TransitionValid(r, to) /\ HasMandatoryFields(r, to)

MayMove(r, to) ==
    /\ TransitionValid(r, to)
    /\ CanTransition(r, to)
    /\ HasMandatoryFields(r, to)

-----------------------------------------------------------------------------
(* The commands. *)

Idle(c) == crClient[c].step = "idle"
CrReadable(n) == n \in Numbers /\ crFiles[n] \notin {NoRequest, Torn}
Numbered == {n \in Numbers : crFiles[n] # NoRequest}
NextNumber == IF Numbered = {} THEN 1
              ELSE 1 + CHOOSE n \in Numbered : \A m \in Numbered : m <= n

\* The order in which the front matter has the fields, the flags and the texts;
\* the status comes between the title and the requester.
Line == [title |-> 0, requester |-> 1, identity |-> 1, problem |-> 2,
         content |-> 3, bugfix |-> 3, linkage |-> 3,
         refs |-> 4, swReq |-> 4, sysReq |-> 4, otherRef |-> 4,
         reviewer |-> 5, approval |-> 6, comment |-> 7, rejection |-> 8,
         files |-> 9, verifications |-> 10, commits |-> 11,
         evidence |-> 12, evidenceOfWork |-> 12, emergency |-> 13, incident |-> 14,
         rollback |-> 15, postMortem |-> 16, rootCause |-> 17]

\* What a save writes: emergency data only with the flag.
Written(r) ==
    IF r.emergency THEN r ELSE [r EXCEPT !.fields = @ \ {"incident", "postMortem"}]

\* The fields that are left when the front matter ends inside a text.  A list
\* keeps the item that was cut, which may make a reference of another kind; any
\* other value may read as null.
FieldsLeft(r, text) ==
    LET before == {f \in r.fields : Line[f] < Line[text]}
        here == {f \in r.fields : Line[f] = Line[text]} IN
    CASE text = "refs" ->
             {before \cup kept \cup {last} : kept \in SUBSET here, last \in Refs}
      [] text \in {"files", "verifications", "commits"} -> {before \cup here}
      [] OTHER -> {before, before \cup here}

CutTo(r, left, text) ==
    LET fix == r.bugfix /\ Line["bugfix"] < Line[text]
        urgent == r.emergency /\ Line["emergency"] < Line[text]
        keepsAll == left = r.fields /\ fix = r.bugfix /\ urgent = r.emergency IN
    [r EXCEPT !.fields = left, !.bugfix = fix, !.emergency = urgent,
              !.lost = @ \/ ~keepsAll]

\* What a load makes of a saved request, one of whose texts may hold the
\* delimiter: the YAML is cut there, wherever in the file that is.  A text in
\* quotes is left open, and a file without a status is no request.
ReadBack(r, text) ==
    LET w == Written(r) IN
    CASE text = "none"  -> {w}
      [] text = "title" -> {Torn}
      [] OTHER -> {Torn} \cup {CutTo(w, left, text) : left \in FieldsLeft(w, text)}

\* A save of request n disturbs every other client that works on it.
Garble(n, c) ==
    [d \in CrClients |->
        IF d # c /\ crClient[d].on = n THEN [crClient[d] EXCEPT !.disturbed = TRUE]
        ELSE crClient[d]]

\* create_cr: a draft, or an emergency at once, with the fields it was given.
Drafted(given, fix, urgent) ==
    [status |-> IF urgent THEN "emergency" ELSE "draft",
     bugfix |-> fix, emergency |-> urgent, fields |-> given, lost |-> FALSE]

TextsGiven(given, urgent) ==
    {"title", "requester", "problem"}
    \cup (IF given \cap Refs # {} THEN {"refs"} ELSE {})
    \cup (IF urgent THEN {"rollback"} \cup (given \cap {"incident"}) ELSE {})

BeginCreate(c) ==
    /\ Idle(c)
    /\ NextNumber \in Numbers
    /\ \E given \in GivenFields, fix, urgent \in BOOLEAN :
         \E text \in TextsGiven(given, urgent) \cup {"none"} :
             crClient' = [crClient EXCEPT ![c] =
                [step |-> "save", on |-> NextNumber, to |-> "none", disturbed |-> FALSE,
                 view |-> Drafted(given, fix, urgent), delimiter |-> text]]
    /\ UNCHANGED <<crFiles, crTainted>>

\* The evidence generator writes down the status it finds.
EvidenceOf(r) ==
    {"evidence"} \cup (IF r.status = "implemented" THEN {"evidenceOfWork"} ELSE {})

\* The commands that note something first: the status they ask for afterwards
\* (`cr evidence` asks for none), the request with the fields they set, and the
\* text that holds the delimiter, if one does.
Noted(to, r, given, texts) ==
    {[to |-> to, view |-> [r EXCEPT !.fields = @ \cup given], delimiter |-> text] :
        text \in texts \cup {"none"}}

\* An empty reviewer or reason takes the place of the one that was there.
Erased(to, r, field, texts) ==
    {[to |-> to, delimiter |-> text,
      view |-> [r EXCEPT !.fields = @ \ {field}, !.lost = @ \/ field \in r.fields]] :
        text \in texts \cup {"none"}}

Notes(r) ==
    LET plan == IF r.emergency THEN {"rollback"} ELSE {} IN
    UNION
      ({Noted("submitted", r, {}, plan),
        Noted("submitted", r, {"postMortem"}, plan),
        Noted("approved", r, {"approval"}, {"reviewer", "comment"}),
        Erased("approved", r, "approval", {"comment"}),
        Noted("rejected", r, {"rejection"}, {"rejection"}),
        Erased("rejected", r, "rejection", {}),
        Noted("verified", r, EvidenceOf(r), {}),
        Noted("closed", r, {"rootCause"}, {}),
        Noted("none", r, EvidenceOf(r), {})}
       \cup {Noted("implemented", r, work, work) :
                work \in {{}, {"files", "commits"}, {"files", "verifications", "commits"}}})

LoadToNote(c) ==
    /\ Idle(c)
    /\ \E n \in Numbers :
         /\ CrReadable(n)
         /\ \E note \in Notes(crFiles[n]) :
              crClient' = [crClient EXCEPT ![c] =
                [step |-> "save", on |-> n, to |-> note.to, disturbed |-> FALSE,
                 view |-> note.view, delimiter |-> note.delimiter]]
    /\ UNCHANGED <<crFiles, crTainted>>

\* The commands that go straight to transition_cr.
LoadToMove(c) ==
    /\ Idle(c)
    /\ \E n \in Numbers, to \in {"submitted", "in_progress", "closed", "draft"} :
         /\ crFiles[n] # NoRequest
         /\ crClient' = [crClient EXCEPT ![c] =
                [step |-> "move", on |-> n, to |-> to, disturbed |-> FALSE,
                 view |-> NoRequest, delimiter |-> "none"]]
    /\ UNCHANGED <<crFiles, crTainted>>

SaveView(c) ==
    LET cl == crClient[c] IN
    /\ cl.step = "save"
    /\ \E file \in ReadBack(cl.view, cl.delimiter) :
         crFiles' = [crFiles EXCEPT ![cl.on] = file]
    /\ crTainted' = [crTainted EXCEPT ![cl.on] = @ \/ cl.disturbed]
    /\ crClient' = [Garble(cl.on, c) EXCEPT ![c] =
            IF cl.to = "none" THEN IdleClient
            ELSE [cl EXCEPT !.step = "move", !.view = NoRequest, !.delimiter = "none"]]

\* transition_cr: load, validate, change the status in memory; an exception
\* ends the command and leaves what it noted in the file.
LoadAndMove(c) ==
    LET cl == crClient[c] IN
    /\ cl.step = "move"
    /\ crClient' = [crClient EXCEPT ![c] =
            IF CrReadable(cl.on) /\ MayMove(crFiles[cl.on], cl.to)
            THEN [cl EXCEPT !.step = "save", !.to = "none",
                            !.view = [crFiles[cl.on] EXCEPT !.status = cl.to]]
            ELSE IdleClient]
    /\ UNCHANGED <<crFiles, crTainted>>

\* A process is killed between two steps, or while it writes.
ClientDies(c) ==
    LET cl == crClient[c] IN
    /\ cl.step # "idle"
    /\ \/ crFiles' = crFiles /\ crClient' = [crClient EXCEPT ![c] = IdleClient]
       \/ /\ cl.step = "save"
          /\ crFiles' = [crFiles EXCEPT ![cl.on] = Torn]
          /\ crClient' = [Garble(cl.on, c) EXCEPT ![c] = IdleClient]
    /\ UNCHANGED crTainted

CrClientStep(c) ==
    \/ BeginCreate(c)
    \/ LoadToNote(c)
    \/ LoadToMove(c)
    \/ SaveView(c)
    \/ LoadAndMove(c)
    \/ ClientDies(c)

CrNext == \E c \in CrClients : CrClientStep(c)
CrSpec == CrInit /\ [][CrNext]_crVars

-----------------------------------------------------------------------------
\* Requests, clients and ghosts have their types.
CrTypeOK ==
    /\ crFiles \in [Numbers -> CrRecord \cup {NoRequest, Torn}]
    /\ crClient \in [CrClients ->
            [step : {"idle", "save", "move"}, on : 0 .. MaxRequests,
             to : CrStatus \cup {"none"}, view : CrRecord \cup {NoRequest},
             delimiter : CrTexts \cup {"none"}, disturbed : BOOLEAN]]
    /\ crTainted \in [Numbers -> BOOLEAN]

\* What a request on disk claims, it has: the fields its status calls for, the
\* linkage of a bugfix, the derived requirement, the root cause of a closed
\* bugfix, the incident and the post-mortem of an emergency that was submitted.
\* Commands save fields before their transition is refused, die between two
\* saves and overwrite each other, and still no such record is written, unless
\* a text took a field from it (VerifiedHasItsEvidence).
SavedRequestsAreComplete ==
    \A n \in Numbers : (CrReadable(n) /\ ~crFiles[n].lost) =>
        LET r == crFiles[n] IN
        /\ r.status \notin {"draft", "emergency"} => HasMandatoryFields(r, r.status)
        /\ r.status \in Submitted =>
             /\ DerivationMet(r)
             /\ r.bugfix => "swReq" \in r.fields
             /\ r.emergency => {"incident", "postMortem"} \subseteq r.fields
        /\ (r.status = "closed" /\ r.bugfix) => "rootCause" \in r.fields

\* Unless two commands overlapped on a request, or a text took a field from it,
\* it is verified on evidence that was generated from its implementation:
\* `cr verify` writes the evidence and only then loads the request again to
\* change its status, and evidence of an earlier status may be in the file.
VerifiedOnEvidenceOfTheWork ==
    \A n \in Numbers :
        (/\ CrReadable(n) /\ ~crTainted[n] /\ ~crFiles[n].lost
         /\ crFiles[n].status \in {"verified", "closed"})
            => "evidenceOfWork" \in crFiles[n].fields

\* The status of a request on disk moves along the matrix of the state machine
\* and to a status whose fields the request has: what a text took from it has to
\* be given again before it goes on.  A client that was overtaken by another
\* since its load may save anything.
MovesFollowTheMatrix ==
    [][\A n \in Numbers :
        (CrReadable(n) /\ CrReadable(n)' /\ crFiles'[n].status # crFiles[n].status)
            => \/ /\ crFiles'[n].status \in Transitions(crFiles[n].status)
                  /\ HasMandatoryFields(crFiles'[n], crFiles'[n].status)
               \/ crTainted'[n]]_crVars

\* test_contracts.py 259, "VERIFIED requires evidence_refs", and the table of
\* mandatory fields (COMPLIANCE_CHANGE_CONTROL_PROCESS.md C.4): a request that
\* reads as verified or closed names its evidence.
VerifiedHasItsEvidence ==
    \A n \in Numbers :
        (CrReadable(n) /\ crFiles[n].status \in {"verified", "closed"})
            => "evidence" \in crFiles[n].fields
=============================================================================

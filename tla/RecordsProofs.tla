--------------------------- MODULE RecordsProofs ---------------------------
(***************************************************************************)
(* What is proved of the records people keep of a change: the change       *)
(* requests and the accountable changes that rely on them, the budget of   *)
(* the assistant, the links between documents, the evidence stream and the *)
(* checks of a pull request.  Each part has its own inductive invariant.   *)
(***************************************************************************)
EXTENDS AccountableChange, AiBudget, TraceLinks, EvidenceLog, CheckPolicy,
        FiniteSetTheorems, SequenceTheorems, WellFoundedInduction, TLAPS

-----------------------------------------------------------------------------

(* Requests.  A file no text took a field from is as complete as it        *)
(* claims to be, so is what a client is about to save, and a client no     *)
(* other has disturbed saves a continuation of what is in the file.        *)

Loads(file) == file \notin {NoRequest, Torn}

(* Stronger than what is claimed of a file on disk in one respect: any     *)
(* emergency that has left the emergency status has its post-mortem.       *)
HasItsFields(r) ==
    /\ r.status \notin {"draft", "emergency"} => HasMandatoryFields(r, r.status)
    /\ (r.status # "emergency" /\ r.emergency) => {"incident", "postMortem"} \subseteq r.fields
    /\ r.status \in Submitted =>
          /\ DerivationMet(r)
          /\ r.bugfix => "swReq" \in r.fields
    /\ (r.status = "closed" /\ r.bugfix) => "rootCause" \in r.fields

Whole(r) == r \in CrRecord /\ (~r.lost => HasItsFields(r))

(* Verified on evidence of the work, and ready to be so.                   *)
Proven(r) ==
    (r.status \in {"verified", "closed"} /\ ~r.lost) => "evidenceOfWork" \in r.fields
Shown(r) == (r.status = "implemented" /\ ~r.lost) => "evidenceOfWork" \in r.fields

(* What an undisturbed save makes of a file: nothing is given back that a  *)
(* text took, an approval is kept or known to be lost, and a status that   *)
(* moved did so by the matrix, with the fields it calls for and no text.   *)
Keeps(view, file) ==
    /\ file.lost => view.lost
    /\ "approval" \in file.fields => ("approval" \in view.fields \/ view.lost)

Continues(view, text, file) ==
    /\ file # Torn
    /\ Loads(file) =>
          /\ Keeps(view, file)
          /\ \/ view.status = file.status
             \/ /\ view.status \in Transitions(file.status)
                /\ HasMandatoryFields(view, view.status) /\ text = "none"

CrClientRecord ==
    [step : {"idle", "save", "move"}, on : 0 .. MaxRequests, to : CrStatus \cup {"none"},
     view : CrRecord \cup {NoRequest}, delimiter : CrTexts \cup {"none"},
     disturbed : BOOLEAN]

SaveOK(cl, files, taints) ==
    cl.step = "save" =>
        /\ cl.on \in Numbers
        /\ Whole(cl.view)
        /\ cl.to = "verified" => Shown(cl.view)
        /\ ~cl.disturbed =>
              /\ Continues(cl.view, cl.delimiter, files[cl.on])
              /\ ~taints[cl.on] => Proven(cl.view)

MoveOK(cl, files) ==
    cl.step = "move" =>
        /\ cl.on \in Numbers /\ cl.to # "none" /\ cl.delimiter = "none"
        /\ (cl.to = "verified" /\ ~cl.disturbed /\ Loads(files[cl.on]))
               => Shown(files[cl.on])

FileOK(file, taint) == Loads(file) => Whole(file) /\ (~taint => Proven(file))

RequestInv ==
    /\ crFiles \in [Numbers -> CrRecord \cup {NoRequest, Torn}]
    /\ crTainted \in [Numbers -> BOOLEAN]
    /\ crClient \in [CrClients -> CrClientRecord]
    /\ \A n \in Numbers : FileOK(crFiles[n], crTainted[n])
    /\ \A c \in CrClients :
          SaveOK(crClient[c], crFiles, crTainted) /\ MoveOK(crClient[c], crFiles)

(* Accountable changes. *)

(* A reviewer approved request n, unless a client that had been overtaken  *)
(* has overwritten it or a text took a field from it.                      *)
WasApproved(n, files, taints) ==
    /\ n \in Numbers /\ files[n] # NoRequest
    /\ (Loads(files[n]) /\ ~taints[n] /\ ~files[n].lost) => "approval" \in files[n].fields

ChangeOK(change, files, taints) ==
    /\ change.status = "validated" => change.refs # "none"
    /\ \A n \in ReliesOn(change) : WasApproved(n, files, taints)

AcCommandOK(ac, records, files, taints) ==
    ac.step # "idle" =>
        /\ ac.on \in Changes /\ ac.mine \in AcRecord /\ records[ac.on] # NoChange
        /\ ChangeOK(ac.mine, files, taints)
        /\ (ac.step \in {"issues", "decide"} /\ ~ac.issues)
               => WasApproved(ac.mine.cr, files, taints) /\ ac.mine.refs # "none"
        /\ ac.step \in {"quote", "cite"} => ac.cmd = "evidence"
        /\ ac.step = "save" => ac.cmd \in {"reset", "link", "evidence"}
        /\ (ac.step \in {"quote", "cite"} \/ (ac.step = "save" /\ ac.cmd = "evidence"))
               => WasApproved(ac.mine.cr, files, taints)
        /\ ac.step = "cite" => Whole(ac.cited)
        /\ ~ac.overtaken => ac.mine = records[ac.on]

ChangeInv ==
    /\ RequestInv
    /\ AcTypeOK
    /\ \A a \in Changes : acFiles[a] # NoChange => ChangeOK(acFiles[a], crFiles, crTainted)
    /\ \A p \in AcClients : AcCommandOK(acClient[p], acFiles, crFiles, crTainted)

-----------------------------------------------------------------------------
(* What the commands make of a whole request. *)

LEMMA StatusesAreStates ==
    Submitted \subseteq CrStatus /\ Approved \subseteq Submitted /\ Implemented \subseteq Approved
BY DEF Submitted, Approved, Implemented, CrStatus

LEMMA EmergencyFieldsAreExtra ==
    ASSUME NEW to
    PROVE  MandatoryFields(to) \cap {"incident", "postMortem"} = {}
BY DEF MandatoryFields

LEMMA DraftsAreWhole ==
    ASSUME RequestAssumption, NEW given \in GivenFields, NEW fix \in BOOLEAN, NEW urgent \in BOOLEAN
    PROVE  /\ Whole(Drafted(given, fix, urgent))
           /\ Proven(Drafted(given, fix, urgent)) /\ Shown(Drafted(given, fix, urgent))
<1> DEFINE r == Drafted(given, fix, urgent)
<1>1. r \in CrRecord /\ r.status \in {"draft", "emergency"} /\ (r.status = "draft" => ~r.emergency)
  BY DEF Drafted, CrRecord, CrStatus, RequestAssumption
<1> HIDE DEF r
<1>2. Whole(r) /\ Proven(r) /\ Shown(r)
  BY <1>1 DEF Whole, HasItsFields, Proven, Shown, Submitted
<1> QED BY <1>2 DEF r

LEMMA NotedIsWhole ==
    ASSUME NEW r, Whole(r), NEW more \in SUBSET (FieldNames \ {"sysReq"})
    PROVE  LET s == [r EXCEPT !.fields = @ \cup more] IN
           /\ Whole(s) /\ s.status = r.status /\ Keeps(s, r)
           /\ Proven(r) => Proven(s)
           /\ Shown(r) => Shown(s)
           /\ s.fields = r.fields \cup more
<1> DEFINE s == [r EXCEPT !.fields = @ \cup more]
<1>1. /\ s \in CrRecord /\ s.status = r.status /\ s.bugfix = r.bugfix /\ s.emergency = r.emergency
      /\ s.fields = r.fields \cup more /\ s.lost = r.lost
  BY DEF Whole, CrRecord
<1> HIDE DEF s
<1>2. \A to : HasMandatoryFields(r, to) => HasMandatoryFields(s, to)
  BY <1>1 DEF HasMandatoryFields, HasRefs
<1>3. DerivationMet(r) => DerivationMet(s)
  BY <1>1 DEF DerivationMet
<1>4. Whole(s) /\ (Proven(r) => Proven(s)) /\ (Shown(r) => Shown(s)) /\ Keeps(s, r)
  BY <1>1, <1>2, <1>3 DEF Whole, HasItsFields, Proven, Shown, Keeps
<1> QED BY <1>1, <1>4 DEF s

(* An erased field is noted as lost. *)
LEMMA ErasedIsWhole ==
    ASSUME NEW r, Whole(r), NEW field
    PROVE  LET s == [r EXCEPT !.fields = @ \ {field}, !.lost = @ \/ field \in r.fields] IN
           /\ Whole(s) /\ s.status = r.status /\ Keeps(s, r)
           /\ Proven(r) => Proven(s)
<1> DEFINE s == [r EXCEPT !.fields = @ \ {field}, !.lost = @ \/ field \in r.fields]
<1>1. /\ s \in CrRecord /\ s.status = r.status /\ s.fields = r.fields \ {field}
      /\ s.lost <=> (r.lost \/ field \in r.fields)
  BY DEF Whole, CrRecord
<1>2. CASE field \in r.fields \/ r.lost
  <2> HIDE DEF s
  <2>1. s.lost
    BY <1>1, <1>2
  <2>2. Whole(s) /\ s.status = r.status /\ Keeps(s, r) /\ Proven(s)
    BY <1>1, <2>1 DEF Whole, Proven, Keeps
  <2> QED BY <2>2 DEF s
<1>3. CASE field \notin r.fields /\ ~r.lost
  <2>1. r.fields \ {field} = r.fields /\ (r.lost \/ field \in r.fields) = r.lost
    BY <1>3 DEF Whole, CrRecord
  <2>2. s = r
    BY <2>1 DEF Whole, CrRecord
  <2> QED BY <2>2 DEF Keeps
<1> QED BY <1>2, <1>3

LEMMA WrittenIsWhole ==
    ASSUME NEW r, Whole(r)
    PROVE  /\ Whole(Written(r)) /\ Written(r).status = r.status
           /\ Keeps(Written(r), r)
           /\ Proven(r) => Proven(Written(r))
           /\ Shown(r) => Shown(Written(r))
           /\ HasMandatoryFields(r, r.status) => HasMandatoryFields(Written(r), r.status)
<1>1. CASE r.emergency
  BY <1>1 DEF Written, Keeps
<1>2. CASE ~r.emergency
  <2> DEFINE s == [r EXCEPT !.fields = @ \ {"incident", "postMortem"}]
  <2>1. /\ s \in CrRecord /\ s.status = r.status /\ s.bugfix = r.bugfix /\ ~s.emergency
        /\ s.fields = r.fields \ {"incident", "postMortem"} /\ s.lost = r.lost
    BY <1>2 DEF Whole, CrRecord
  <2>2. Written(r) = s
    BY <1>2 DEF Written
  <2> HIDE DEF s
  <2>3. HasMandatoryFields(r, r.status) => HasMandatoryFields(s, r.status)
    BY <2>1, EmergencyFieldsAreExtra DEF HasMandatoryFields, HasRefs, Refs
  <2>4. DerivationMet(r) => DerivationMet(s)
    BY <2>1 DEF DerivationMet
  <2>5. Whole(s)
    BY <2>1, <2>3, <2>4 DEF Whole, HasItsFields
  <2> QED BY <2>1, <2>2, <2>3, <2>5 DEF Proven, Shown, Keeps
<1> QED BY <1>1, <1>2 DEF Whole, CrRecord

(* A file that was cut is noted as lost, unless nothing is missing.        *)
LEMMA CutIsWhole ==
    ASSUME NEW r, Whole(r), NEW left \in SUBSET FieldNames, NEW text \in CrTexts
    PROVE  LET s == CutTo(r, left, text) IN
           /\ Whole(s) /\ s.status = r.status /\ Keeps(s, r)
           /\ Proven(r) => Proven(s)
           /\ Shown(r) => Shown(s)
<1> DEFINE s == CutTo(r, left, text)
<1>1. PICK fix \in BOOLEAN : fix = (r.bugfix /\ Line["bugfix"] < Line[text])
  OBVIOUS
<1>2. PICK urgent \in BOOLEAN : urgent = (r.emergency /\ Line["emergency"] < Line[text])
  OBVIOUS
<1>3. PICK all \in BOOLEAN :
         all = (left = r.fields /\ fix = r.bugfix /\ urgent = r.emergency)
  OBVIOUS
<1>4. s = [r EXCEPT !.fields = left, !.bugfix = fix, !.emergency = urgent, !.lost = @ \/ ~all]
  BY <1>1, <1>2, <1>3 DEF CutTo
<1>5. /\ s \in CrRecord /\ s.status = r.status /\ (s.lost <=> (r.lost \/ ~all))
  BY <1>4 DEF Whole, CrRecord
<1>6. CASE all
  <2>1. left = r.fields /\ fix = r.bugfix /\ urgent = r.emergency /\ (r.lost \/ ~all) = r.lost
    BY <1>3, <1>6 DEF Whole, CrRecord
  <2>2. s = [r EXCEPT !.fields = r.fields, !.bugfix = r.bugfix, !.emergency = r.emergency,
                      !.lost = r.lost]
    BY <1>4, <2>1
  <2>3. s = r
    BY <2>2 DEF Whole, CrRecord
  <2> QED BY <2>3 DEF Keeps
<1>7. CASE ~all
  <2> HIDE DEF s
  <2>1. s.lost
    BY <1>5, <1>7
  <2>2. Whole(s) /\ s.status = r.status /\ Keeps(s, r) /\ Proven(s) /\ Shown(s)
    BY <1>5, <2>1 DEF Whole, Proven, Shown, Keeps
  <2> QED BY <2>2 DEF s
<1> QED BY <1>6, <1>7

LEMMA LeftAreFields ==
    ASSUME NEW r \in CrRecord, NEW text, NEW left \in FieldsLeft(r, text)
    PROVE  left \in SUBSET FieldNames
<1> DEFINE before == {f \in r.fields : Line[f] < Line[text]}
           here == {f \in r.fields : Line[f] = Line[text]}
<1>1. before \in SUBSET FieldNames /\ here \in SUBSET FieldNames /\ Refs \subseteq FieldNames
  BY DEF CrRecord, FieldNames
<1> HIDE DEF before, here
<1>2. \/ \E kept \in SUBSET here, last \in Refs : left = before \cup kept \cup {last}
      \/ left = before \cup here
      \/ left = before
  BY DEF FieldsLeft, before, here
<1> QED BY <1>1, <1>2

LEMMA ReadBackIsWhole ==
    ASSUME RequestAssumption, NEW r, Whole(r), NEW text \in CrTexts \cup {"none"},
           NEW file \in ReadBack(r, text)
    PROVE  /\ file # NoRequest
           /\ \/ file = Torn
              \/ /\ Whole(file) /\ file.status = r.status /\ Keeps(file, r)
                 /\ Proven(r) => Proven(file)
                 /\ Shown(r) => Shown(file)
                 /\ (text = "none" /\ HasMandatoryFields(r, r.status))
                       => HasMandatoryFields(file, r.status)
<1>1. PICK w : w = Written(r)
  OBVIOUS
<1>2. /\ Whole(w) /\ w.status = r.status /\ Keeps(w, r)
      /\ Proven(r) => Proven(w)
      /\ Shown(r) => Shown(w)
      /\ HasMandatoryFields(r, r.status) => HasMandatoryFields(w, r.status)
  BY <1>1, WrittenIsWhole
<1>3. Torn # NoRequest /\ NoRequest \notin CrRecord
  BY DEF RequestAssumption
<1>4. CASE file = Torn
  BY <1>3, <1>4
<1>5. CASE file = w /\ text = "none"
  BY <1>2, <1>3, <1>5 DEF Whole
<1>6. CASE text \in CrTexts \ {"none"} /\ \E left \in FieldsLeft(w, text) : file = CutTo(w, left, text)
  <2>1. PICK left \in FieldsLeft(w, text) : file = CutTo(w, left, text)
    BY <1>6
  <2>2. left \in SUBSET FieldNames
    BY <1>2, LeftAreFields DEF Whole
  <2>3. /\ Whole(file) /\ file.status = w.status /\ Keeps(file, w)
        /\ Proven(w) => Proven(file)
        /\ Shown(w) => Shown(file)
    BY <1>2, <1>6, <2>1, <2>2, CutIsWhole
  <2>4. Keeps(file, r) /\ file # NoRequest
    BY <1>2, <1>3, <2>3 DEF Keeps, Whole
  <2> QED BY <1>2, <1>6, <2>3, <2>4
<1>7. file \in (CASE text = "none"  -> {w}
                  [] text = "title" -> {Torn}
                  [] OTHER -> {Torn} \cup {CutTo(w, left, text) : left \in FieldsLeft(w, text)})
  BY <1>1 DEF ReadBack
<1>8. \/ file = Torn
      \/ file = w /\ text = "none"
      \/ text # "none" /\ \E left \in FieldsLeft(w, text) : file = CutTo(w, left, text)
  BY <1>7
<1> QED BY <1>4, <1>5, <1>6, <1>8

(* The rules of a transition, with what a whole request has already, give  *)
(* what the new status claims.                                             *)
LEMMA MovedIsWhole ==
    ASSUME NEW r, Whole(r), NEW to \in CrStatus, MayMove(r, to)
    PROVE  LET s == [r EXCEPT !.status = to] IN
           /\ Whole(s) /\ s.status = to /\ Keeps(s, r)
           /\ to \in Transitions(r.status) /\ HasMandatoryFields(s, to)
           /\ (Proven(r) /\ (to = "verified" => Shown(r))) => Proven(s)
<1> DEFINE s == [r EXCEPT !.status = to]
<1>1. /\ s \in CrRecord /\ s.status = to /\ s.bugfix = r.bugfix /\ s.emergency = r.emergency
      /\ s.fields = r.fields /\ s.lost = r.lost
  BY DEF Whole, CrRecord
<1>2. HasMandatoryFields(s, to) /\ DerivationMet(s)
  BY <1>1 DEF MayMove, HasMandatoryFields, HasRefs, TransitionValid, DerivationMet
<1>3. (r.emergency /\ ~r.lost) => {"incident", "postMortem"} \subseteq r.fields
  BY DEF Whole, HasItsFields, MayMove, TransitionValid, EmergencyRulesMet
<1>4. (to \in Submitted /\ r.bugfix) => "swReq" \in r.fields
  BY DEF MayMove, TransitionValid, BugfixRulesMet, Submitted
<1>5. (to = "closed" /\ r.bugfix) => "rootCause" \in r.fields
  BY DEF MayMove, TransitionValid
<1>6. to \in Transitions(r.status)
  BY DEF MayMove, CanTransition
<1>7. /\ to = "verified" => r.status = "implemented"
      /\ to = "closed" => r.status = "verified"
  BY <1>6 DEF Transitions, Whole, CrRecord, CrStatus
<1> HIDE DEF s
<1>8. Whole(s) /\ ((Proven(r) /\ (to = "verified" => Shown(r))) => Proven(s)) /\ Keeps(s, r)
  BY <1>1, <1>2, <1>3, <1>4, <1>5, <1>7 DEF Whole, HasItsFields, Proven, Shown, Keeps
<1> QED BY <1>1, <1>2, <1>6, <1>8 DEF s

(* A set of numbers that is not empty has a largest one. *)
LEMMA Largest ==
    ASSUME NEW n \in Nat, NEW S \in SUBSET (1 .. n), S # {}
    PROVE  \E m \in S : \A k \in S : k <= m
<1>1. PICK R : R = OpToRel(<, Nat)
  OBVIOUS
<1>2. IsWellFoundedOn(R, Nat)
  BY <1>1, NatLessThanWellFounded
<1> DEFINE T == {n - k : k \in S}
<1>3. T \subseteq Nat /\ T # {}
  <2>1. \A k \in S : n - k \in Nat
    OBVIOUS
  <2>2. PICK k : k \in S
    OBVIOUS
  <2>3. n - k \in T
    BY <2>2
  <2> QED BY <2>1, <2>3
<1>4. PICK x \in T : \A y \in T : <<y, x>> \notin R
  <2> HIDE DEF T
  <2> QED BY <1>2, <1>3, WFMin
<1>5. \A y \in T : ~(y < x)
  <2>1. \A y \in Nat : y < x => <<y, x>> \in R
    BY <1>1, <1>3, <1>4 DEF OpToRel
  <2> QED BY <1>3, <1>4, <2>1
<1>6. PICK m \in S : x = n - m
  BY <1>4
<1>7. \A k \in S : k <= m
  <2> TAKE k \in S
  <2>1. ~(n - k < n - m)
    BY <1>5, <1>6
  <2> QED BY <2>1
<1> QED BY <1>7

(* A new request gets a number no file has. *)
LEMMA NextNumberIsFree ==
    ASSUME RequestAssumption, NextNumber \in Numbers
    PROVE  crFiles[NextNumber] = NoRequest
<1>1. CASE Numbered = {}
  BY <1>1 DEF Numbered
<1>2. CASE Numbered # {}
  <2>1. Numbered \in SUBSET (1 .. MaxRequests) /\ MaxRequests \in Nat
    BY DEF Numbered, Numbers, RequestAssumption
  <2> DEFINE top == CHOOSE n \in Numbered : \A m \in Numbered : m <= n
  <2>2. top \in Numbered /\ \A m \in Numbered : m <= top
    <3>1. \E n \in Numbered : \A m \in Numbered : m <= n
      BY <1>2, <2>1, Largest
    <3> QED BY <3>1
  <2>3. NextNumber = 1 + top
    BY <1>2 DEF NextNumber
  <2> HIDE DEF top
  <2>4. NextNumber \notin Numbered
    BY <2>1, <2>2, <2>3
  <2> QED BY <2>4 DEF Numbered
<1> QED BY <1>1, <1>2

(* Those at work on a request that is saved are disturbed, and bound to    *)
(* nothing any more but to save a whole request.                           *)
LEMMA DisturbedOK ==
    ASSUME NEW cl \in CrClientRecord, NEW files, NEW taints,
           SaveOK(cl, files, taints), MoveOK(cl, files), NEW files2, NEW taints2
    PROVE  /\ [cl EXCEPT !.disturbed = TRUE] \in CrClientRecord
           /\ SaveOK([cl EXCEPT !.disturbed = TRUE], files2, taints2)
           /\ MoveOK([cl EXCEPT !.disturbed = TRUE], files2)
<1> DEFINE new == [cl EXCEPT !.disturbed = TRUE]
<1>1. /\ new \in CrClientRecord /\ new.disturbed /\ new.step = cl.step /\ new.on = cl.on
      /\ new.to = cl.to /\ new.view = cl.view /\ new.delimiter = cl.delimiter
  BY DEF CrClientRecord
<1> HIDE DEF new
<1>2. SaveOK(new, files2, taints2) /\ MoveOK(new, files2)
  BY <1>1 DEF SaveOK, MoveOK
<1> QED BY <1>1, <1>2 DEF new

LEMMA IdleClientOK ==
    ASSUME RequestAssumption, NEW files, NEW taints
    PROVE  /\ IdleClient \in CrClientRecord
           /\ SaveOK(IdleClient, files, taints) /\ MoveOK(IdleClient, files)
<1>1. 0 \in 0 .. MaxRequests
  BY DEF RequestAssumption
<1> QED BY <1>1 DEF IdleClient, CrClientRecord, SaveOK, MoveOK

(* A command that only reads. *)
LEMMA ClientReads ==
    ASSUME RequestInv, NEW c \in CrClients, NEW new \in CrClientRecord,
           crClient' = [crClient EXCEPT ![c] = new], UNCHANGED <<crFiles, crTainted>>,
           SaveOK(new, crFiles, crTainted), MoveOK(new, crFiles)
    PROVE  RequestInv'
BY DEF RequestInv

(* A file is saved: what is in it, what its client goes on with.           *)
LEMMA ClientSaves ==
    ASSUME RequestInv, NEW c \in CrClients, NEW n \in Numbers,
           NEW file \in CrRecord \cup {NoRequest, Torn}, NEW taint \in BOOLEAN,
           FileOK(file, taint),
           crFiles' = [crFiles EXCEPT ![n] = file],
           crTainted' = [crTainted EXCEPT ![n] = taint],
           NEW new \in CrClientRecord, crClient' = [Garble(n, c) EXCEPT ![c] = new],
           SaveOK(new, crFiles', crTainted'), MoveOK(new, crFiles')
    PROVE  RequestInv'
<1>1. /\ crFiles' \in [Numbers -> CrRecord \cup {NoRequest, Torn}]
      /\ crTainted' \in [Numbers -> BOOLEAN]
      /\ \A m \in Numbers : FileOK(crFiles'[m], crTainted'[m])
  BY DEF RequestInv
<1>2. \A m \in Numbers \ {n} : crFiles'[m] = crFiles[m] /\ crTainted'[m] = crTainted[m]
  BY DEF RequestInv
<1>3. ASSUME NEW d \in CrClients
      PROVE  /\ crClient'[d] \in CrClientRecord
             /\ SaveOK(crClient'[d], crFiles', crTainted') /\ MoveOK(crClient'[d], crFiles')
  <2>1. CASE d = c
    <3>1. crClient'[d] = new
      BY <2>1 DEF Garble
    <3> QED BY <3>1
  <2>2. CASE d # c
    <3>1. PICK cl : cl = crClient[d]
      OBVIOUS
    <3>2. crClient'[d] = IF cl.on = n THEN [cl EXCEPT !.disturbed = TRUE] ELSE cl
      BY <2>2, <3>1 DEF Garble
    <3>3. cl \in CrClientRecord /\ SaveOK(cl, crFiles, crTainted) /\ MoveOK(cl, crFiles)
      BY <3>1 DEF RequestInv
    <3>4. CASE cl.on = n
      <4>1. crClient'[d] = [cl EXCEPT !.disturbed = TRUE]
        BY <3>2, <3>4
      <4> QED BY <3>3, <4>1, DisturbedOK
    <3>5. CASE cl.on # n
      <4>1. SaveOK(cl, crFiles', crTainted') /\ MoveOK(cl, crFiles')
        BY <1>2, <3>3, <3>5 DEF SaveOK, MoveOK
      <4> QED BY <3>2, <3>3, <3>5, <4>1
    <3> QED BY <3>4, <3>5
  <2> QED BY <2>1, <2>2
<1>4. DOMAIN crClient' = CrClients /\ crClient' = [d \in CrClients |-> crClient'[d]]
  BY DEF Garble
<1>5. crClient' \in [CrClients -> CrClientRecord]
  BY <1>3, <1>4
<1> QED BY <1>1, <1>3, <1>5 DEF RequestInv

LEMMA RequestsInitially ==
    ASSUME RequestAssumption, CrInit
    PROVE  RequestInv
<1>1. \A n \in Numbers : FileOK(crFiles[n], crTainted[n])
  BY DEF CrInit, FileOK, Loads
<1> QED BY <1>1, IdleClientOK DEF CrInit, RequestInv

(* The notes commands make, and for `cr verify` the evidence of the work.  *)
LEMMA NotesAreSound ==
    ASSUME NEW r, Whole(r), NEW note \in Notes(r)
    PROVE  /\ note.to \in CrStatus \cup {"none"} /\ note.delimiter \in CrTexts \cup {"none"}
           /\ Whole(note.view) /\ note.view.status = r.status /\ Keeps(note.view, r)
           /\ Proven(r) => Proven(note.view)
           /\ note.to = "verified" => Shown(note.view)
<1> DEFINE Plain(to, given, text) ==
              note = [to |-> to, view |-> [r EXCEPT !.fields = @ \cup given], delimiter |-> text]
           Erases(to, field, text) ==
              note = [to |-> to, delimiter |-> text,
                      view |-> [r EXCEPT !.fields = @ \ {field}, !.lost = @ \/ field \in r.fields]]
           work == {"postMortem", "approval", "rejection", "files", "verifications", "commits",
                    "rootCause"}
<1>1. PICK e : e = EvidenceOf(r)
  OBVIOUS
<1>2. e \in SUBSET (FieldNames \ {"sysReq"}) /\ (r.status = "implemented" => "evidenceOfWork" \in e)
  BY <1>1 DEF EvidenceOf, FieldNames, Refs
<1>3. work \subseteq FieldNames \ {"sysReq"}
  BY DEF FieldNames, Refs
<1>4. \/ \E to \in {"submitted", "approved", "rejected", "implemented", "closed"},
            given \in SUBSET work, text \in CrTexts \cup {"none"} : Plain(to, given, text)
      \/ \E to \in {"approved", "rejected"}, field \in {"approval", "rejection"},
            text \in CrTexts \cup {"none"} : Erases(to, field, text)
      \/ \E to \in {"verified", "none"} : Plain(to, e, "none")
  <2> DEFINE plan == IF r.emergency THEN {"rollback"} ELSE {}
             Simple ==
               {Noted("submitted", r, {}, plan),
                Noted("submitted", r, {"postMortem"}, plan),
                Noted("approved", r, {"approval"}, {"reviewer", "comment"}),
                Erased("approved", r, "approval", {"comment"}),
                Noted("rejected", r, {"rejection"}, {"rejection"}),
                Erased("rejected", r, "rejection", {}),
                Noted("verified", r, EvidenceOf(r), {}),
                Noted("closed", r, {"rootCause"}, {}),
                Noted("none", r, EvidenceOf(r), {})}
             Works == {Noted("implemented", r, w, w) :
                w \in {{}, {"files", "commits"}, {"files", "verifications", "commits"}}}
  <2>1. plan \in SUBSET CrTexts
    BY DEF CrTexts
  <2>2. PICK set \in Simple \cup Works : note \in set
    <3>1. Notes(r) = UNION (Simple \cup Works)
      BY Zenon DEF Notes
    <3> HIDE DEF Simple, Works
    <3> QED BY <3>1
  <2>3. ASSUME NEW to, NEW given, NEW texts \in SUBSET CrTexts, note \in Noted(to, r, given, texts)
        PROVE  \E text \in texts \cup {"none"} : Plain(to, given, text)
    BY <2>3 DEF Noted
  <2>4. ASSUME NEW to, NEW field, NEW texts \in SUBSET CrTexts, note \in Erased(to, r, field, texts)
        PROVE  \E text \in texts \cup {"none"} : Erases(to, field, text)
    BY <2>4 DEF Erased
  <2> HIDE DEF Plain, Erases, plan
  <2>5. CASE set \in Works
    <3>1. PICK w \in {{}, {"files", "commits"}, {"files", "verifications", "commits"}} :
             set = Noted("implemented", r, w, w)
      BY <2>5
    <3>2. w \in SUBSET CrTexts /\ w \in SUBSET work
      BY DEF CrTexts
    <3>3. PICK text \in w \cup {"none"} : Plain("implemented", w, text)
      BY <2>2, <2>3, <3>1, <3>2
    <3> QED BY <3>2, <3>3
  <2>6. CASE set \in Simple
    <3>1. CASE set = Noted("submitted", r, {}, plan)
      <4>1. PICK text \in plan \cup {"none"} : Plain("submitted", {}, text)
        BY <2>1, <2>2, <2>3, <3>1
      <4> QED BY <2>1, <4>1
    <3>2. CASE set = Noted("submitted", r, {"postMortem"}, plan)
      <4>1. PICK text \in plan \cup {"none"} : Plain("submitted", {"postMortem"}, text)
        BY <2>1, <2>2, <2>3, <3>2
      <4> QED BY <2>1, <4>1
    <3>3. CASE set = Noted("approved", r, {"approval"}, {"reviewer", "comment"})
      <4>1. {"reviewer", "comment"} \in SUBSET CrTexts
        BY DEF CrTexts
      <4>2. PICK text \in {"reviewer", "comment"} \cup {"none"} :
               Plain("approved", {"approval"}, text)
        BY <2>1, <2>2, <2>3, <3>3, <4>1
      <4> QED BY <4>1, <4>2
    <3>4. CASE set = Erased("approved", r, "approval", {"comment"})
      <4>1. {"comment"} \in SUBSET CrTexts
        BY DEF CrTexts
      <4>2. PICK text \in {"comment"} \cup {"none"} : Erases("approved", "approval", text)
        BY <2>1, <2>2, <2>4, <3>4, <4>1
      <4> QED BY <4>1, <4>2
    <3>5. CASE set = Noted("rejected", r, {"rejection"}, {"rejection"})
      <4>1. {"rejection"} \in SUBSET CrTexts
        BY DEF CrTexts
      <4>2. PICK text \in {"rejection"} \cup {"none"} : Plain("rejected", {"rejection"}, text)
        BY <2>1, <2>2, <2>3, <3>5, <4>1
      <4> QED BY <4>1, <4>2
    <3>6. CASE set = Erased("rejected", r, "rejection", {})
      <4>1. PICK text \in {} \cup {"none"} : Erases("rejected", "rejection", text)
        BY <2>1, <2>2, <2>4, <3>6
      <4> QED BY <4>1
    <3>7. CASE set = Noted("verified", r, EvidenceOf(r), {})
      <4>1. PICK text \in {} \cup {"none"} : Plain("verified", e, text)
        BY <1>1, <2>1, <2>2, <2>3, <3>7
      <4> QED BY <4>1
    <3>8. CASE set = Noted("closed", r, {"rootCause"}, {})
      <4>1. PICK text \in {} \cup {"none"} : Plain("closed", {"rootCause"}, text)
        BY <2>1, <2>2, <2>3, <3>8
      <4> QED BY <4>1
    <3>9. CASE set = Noted("none", r, EvidenceOf(r), {})
      <4>1. PICK text \in {} \cup {"none"} : Plain("none", e, text)
        BY <1>1, <2>1, <2>2, <2>3, <3>9
      <4> QED BY <4>1
    <3> QED BY <2>6, <3>1, <3>2, <3>3, <3>4, <3>5, <3>6, <3>7, <3>8, <3>9
  <2> QED BY <2>2, <2>5, <2>6
<1>5. CASE \E to \in {"submitted", "approved", "rejected", "implemented", "closed"},
              given \in SUBSET work, text \in CrTexts \cup {"none"} : Plain(to, given, text)
  <2>1. PICK to \in {"submitted", "approved", "rejected", "implemented", "closed"},
             given \in SUBSET work, text \in CrTexts \cup {"none"} : Plain(to, given, text)
    BY <1>5
  <2>2. PICK s : s = [r EXCEPT !.fields = @ \cup given]
    OBVIOUS
  <2>3. note.to = to /\ note.view = s /\ note.delimiter = text
    BY <2>1, <2>2
  <2>4. Whole(s) /\ s.status = r.status /\ Keeps(s, r) /\ (Proven(r) => Proven(s))
    BY <1>3, <2>2, NotedIsWhole
  <2> QED BY <2>1, <2>3, <2>4 DEF CrStatus
<1>6. CASE \E to \in {"approved", "rejected"}, field \in {"approval", "rejection"},
              text \in CrTexts \cup {"none"} : Erases(to, field, text)
  <2>1. PICK to \in {"approved", "rejected"}, field \in {"approval", "rejection"},
             text \in CrTexts \cup {"none"} : Erases(to, field, text)
    BY <1>6
  <2>2. PICK s : s = [r EXCEPT !.fields = @ \ {field}, !.lost = @ \/ field \in r.fields]
    OBVIOUS
  <2>3. note.to = to /\ note.view = s /\ note.delimiter = text
    BY <2>1, <2>2
  <2>4. Whole(s) /\ s.status = r.status /\ Keeps(s, r) /\ (Proven(r) => Proven(s))
    BY <2>2, ErasedIsWhole
  <2> QED BY <2>1, <2>3, <2>4 DEF CrStatus
<1>7. CASE \E to \in {"verified", "none"} : Plain(to, e, "none")
  <2>1. PICK to \in {"verified", "none"} : Plain(to, e, "none")
    BY <1>7
  <2>2. PICK s : s = [r EXCEPT !.fields = @ \cup e]
    OBVIOUS
  <2>3. note.to = to /\ note.view = s /\ note.delimiter = "none"
    BY <2>1, <2>2
  <2>4. /\ Whole(s) /\ s.status = r.status /\ Keeps(s, r) /\ (Proven(r) => Proven(s))
        /\ s.fields = r.fields \cup e
    BY <1>2, <2>2, NotedIsWhole
  <2>5. Shown(s)
    BY <1>2, <2>4 DEF Shown
  <2> QED BY <2>1, <2>3, <2>4, <2>5 DEF CrStatus
<1> QED BY <1>4, <1>5, <1>6, <1>7

LEMMA CreateKeeps ==
    ASSUME RequestAssumption, RequestInv, NEW c \in CrClients, BeginCreate(c)
    PROVE  RequestInv'
<1>0. PICK given \in GivenFields, fix \in BOOLEAN, urgent \in BOOLEAN :
         \E text \in TextsGiven(given, urgent) \cup {"none"} :
            crClient' = [crClient EXCEPT ![c] =
                [step |-> "save", on |-> NextNumber, to |-> "none", disturbed |-> FALSE,
                 view |-> Drafted(given, fix, urgent), delimiter |-> text]]
  BY DEF BeginCreate
<1>1. PICK text \in TextsGiven(given, urgent) \cup {"none"} :
         crClient' = [crClient EXCEPT ![c] =
            [step |-> "save", on |-> NextNumber, to |-> "none", disturbed |-> FALSE,
             view |-> Drafted(given, fix, urgent), delimiter |-> text]]
  BY <1>0
<1>2. PICK n, r : n = NextNumber /\ r = Drafted(given, fix, urgent)
  OBVIOUS
<1>3. PICK new : new = [step |-> "save", on |-> n, to |-> "none", disturbed |-> FALSE,
                        view |-> r, delimiter |-> text]
  OBVIOUS
<1>4. n \in Numbers /\ crFiles[n] = NoRequest /\ UNCHANGED <<crFiles, crTainted>>
  BY <1>2, NextNumberIsFree DEF BeginCreate
<1>5. Whole(r) /\ Proven(r) /\ Shown(r) /\ r \in CrRecord
  BY <1>2, DraftsAreWhole DEF Whole
<1>6. text \in CrTexts \cup {"none"}
  BY DEF TextsGiven, CrTexts
<1>7. new \in CrClientRecord
  BY <1>3, <1>4, <1>5, <1>6 DEF CrClientRecord, Numbers, RequestAssumption
<1>8. Continues(r, text, crFiles[n])
  BY <1>4 DEF Continues, Loads, RequestAssumption
<1>9. SaveOK(new, crFiles, crTainted) /\ MoveOK(new, crFiles)
  BY <1>3, <1>4, <1>5, <1>8 DEF SaveOK, MoveOK
<1> QED BY <1>1, <1>2, <1>3, <1>4, <1>7, <1>9, ClientReads

LEMMA NoteKeeps ==
    ASSUME RequestAssumption, RequestInv, NEW c \in CrClients, LoadToNote(c)
    PROVE  RequestInv'
<1>1. PICK n \in Numbers : CrReadable(n) /\ \E note \in Notes(crFiles[n]) :
         crClient' = [crClient EXCEPT ![c] =
            [step |-> "save", on |-> n, to |-> note.to, disturbed |-> FALSE,
             view |-> note.view, delimiter |-> note.delimiter]]
  BY DEF LoadToNote
<1>2. PICK file : file = crFiles[n]
  OBVIOUS
<1>3. PICK note \in Notes(file) :
         crClient' = [crClient EXCEPT ![c] =
            [step |-> "save", on |-> n, to |-> note.to, disturbed |-> FALSE,
             view |-> note.view, delimiter |-> note.delimiter]]
  BY <1>1, <1>2
<1>4. PICK to, r, text : to = note.to /\ r = note.view /\ text = note.delimiter
  OBVIOUS
<1>5. PICK new : new = [step |-> "save", on |-> n, to |-> to, disturbed |-> FALSE,
                        view |-> r, delimiter |-> text]
  OBVIOUS
<1>6. /\ Loads(file) /\ file # Torn /\ Whole(file)
      /\ ~crTainted[n] => Proven(file)
  BY <1>1, <1>2 DEF RequestInv, FileOK, CrReadable, Loads
<1>7. /\ to \in CrStatus \cup {"none"} /\ text \in CrTexts \cup {"none"}
      /\ Whole(r) /\ r.status = file.status /\ Keeps(r, file)
      /\ Proven(file) => Proven(r)
      /\ to = "verified" => Shown(r)
  BY <1>4, <1>6, NotesAreSound
<1>8. Continues(r, text, crFiles[n])
  BY <1>2, <1>6, <1>7 DEF Continues
<1>9. new \in CrClientRecord
  BY <1>5, <1>7 DEF CrClientRecord, Numbers, RequestAssumption, Whole
<1>10. SaveOK(new, crFiles, crTainted) /\ MoveOK(new, crFiles)
  BY <1>5, <1>6, <1>7, <1>8 DEF SaveOK, MoveOK
<1>11. UNCHANGED <<crFiles, crTainted>>
  BY DEF LoadToNote
<1> QED BY <1>3, <1>4, <1>5, <1>9, <1>10, <1>11, ClientReads

LEMMA LoadToMoveKeeps ==
    ASSUME RequestAssumption, RequestInv, NEW c \in CrClients, LoadToMove(c)
    PROVE  RequestInv'
<1>1. PICK n \in Numbers, to \in {"submitted", "in_progress", "closed", "draft"} :
         crClient' = [crClient EXCEPT ![c] =
            [step |-> "move", on |-> n, to |-> to, disturbed |-> FALSE, view |-> NoRequest,
             delimiter |-> "none"]]
  BY DEF LoadToMove
<1>2. PICK new : new = [step |-> "move", on |-> n, to |-> to, disturbed |-> FALSE,
                        view |-> NoRequest, delimiter |-> "none"]
  OBVIOUS
<1>3. new \in CrClientRecord
  BY <1>2 DEF CrClientRecord, CrStatus, Numbers, RequestAssumption
<1>4. SaveOK(new, crFiles, crTainted) /\ MoveOK(new, crFiles)
  BY <1>2 DEF SaveOK, MoveOK
<1>5. UNCHANGED <<crFiles, crTainted>>
  BY DEF LoadToMove
<1> QED BY <1>1, <1>2, <1>3, <1>4, <1>5, ClientReads

(* What a client goes on with after it loaded, and after it saved. *)
LEMMA ClientGoesOn ==
    ASSUME NEW cl \in CrClientRecord, NEW r
    PROVE  /\ [cl EXCEPT !.step = "save", !.to = "none", !.view = r]
               = [step |-> "save", on |-> cl.on, to |-> "none", view |-> r,
                  delimiter |-> cl.delimiter, disturbed |-> cl.disturbed]
           /\ [cl EXCEPT !.step = "move", !.view = r, !.delimiter = "none"]
               = [step |-> "move", on |-> cl.on, to |-> cl.to, view |-> r,
                  delimiter |-> "none", disturbed |-> cl.disturbed]
<1> DEFINE AnyClient == [step : {"idle", "save", "move"}, on : 0 .. MaxRequests,
                   to : CrStatus \cup {"none"}, view : CrRecord \cup {NoRequest, r},
                   delimiter : CrTexts \cup {"none"}, disturbed : BOOLEAN]
<1>1. ASSUME NEW s \in AnyClient
      PROVE  s = [step |-> s.step, on |-> s.on, to |-> s.to, view |-> s.view,
                  delimiter |-> s.delimiter, disturbed |-> s.disturbed]
  OBVIOUS
<1>2. PICK s : s = [cl EXCEPT !.step = "save", !.to = "none", !.view = r]
  OBVIOUS
<1>3. /\ s \in AnyClient /\ s.step = "save" /\ s.on = cl.on /\ s.to = "none" /\ s.view = r
      /\ s.delimiter = cl.delimiter /\ s.disturbed = cl.disturbed
  BY <1>2 DEF CrClientRecord
<1>4. PICK m : m = [cl EXCEPT !.step = "move", !.view = r, !.delimiter = "none"]
  OBVIOUS
<1>5. /\ m \in AnyClient /\ m.step = "move" /\ m.on = cl.on /\ m.to = cl.to /\ m.view = r
      /\ m.delimiter = "none" /\ m.disturbed = cl.disturbed
  BY <1>4 DEF CrClientRecord
<1> HIDE DEF AnyClient
<1>6. s = [step |-> "save", on |-> cl.on, to |-> "none", view |-> r,
           delimiter |-> cl.delimiter, disturbed |-> cl.disturbed]
  BY <1>1, <1>3
<1>7. m = [step |-> "move", on |-> cl.on, to |-> cl.to, view |-> r,
           delimiter |-> "none", disturbed |-> cl.disturbed]
  BY <1>1, <1>5
<1> QED BY <1>2, <1>4, <1>6, <1>7

LEMMA MoveKeeps ==
    ASSUME RequestAssumption, RequestInv, NEW c \in CrClients, LoadAndMove(c)
    PROVE  RequestInv'
<1>1. PICK cl, file : cl = crClient[c] /\ file = crFiles[cl.on]
  OBVIOUS
<1>2. cl.step = "move" /\ UNCHANGED <<crFiles, crTainted>>
  BY <1>1 DEF LoadAndMove
<1>3. cl \in CrClientRecord /\ SaveOK(cl, crFiles, crTainted) /\ MoveOK(cl, crFiles)
  BY <1>1 DEF RequestInv
<1>4. CASE CrReadable(cl.on) /\ MayMove(file, cl.to)
  <2>1. PICK r : r = [file EXCEPT !.status = cl.to]
    OBVIOUS
  <2>2. PICK new : new = [step |-> "save", on |-> cl.on, to |-> "none", view |-> r,
                          delimiter |-> "none", disturbed |-> cl.disturbed]
    OBVIOUS
  <2>3. [cl EXCEPT !.step = "save", !.to = "none", !.view = r] = new
    <3>1. cl.delimiter = "none"
      BY <1>2, <1>3 DEF MoveOK
    <3>2. [cl EXCEPT !.step = "save", !.to = "none", !.view = r]
            = [step |-> "save", on |-> cl.on, to |-> "none", view |-> r,
               delimiter |-> cl.delimiter, disturbed |-> cl.disturbed]
      BY <1>3, ClientGoesOn
    <3> QED BY <2>2, <3>1, <3>2
  <2>4. crClient' = [crClient EXCEPT ![c] = new]
    BY <1>1, <1>4, <2>1, <2>3 DEF LoadAndMove
  <2>5. /\ cl.on \in Numbers /\ Loads(file) /\ file # Torn /\ Whole(file) /\ file \in CrRecord
        /\ ~crTainted[cl.on] => Proven(file)
    BY <1>1, <1>4 DEF RequestInv, FileOK, CrReadable, Loads, Whole
  <2>6. cl.to \in CrStatus /\ cl.disturbed \in BOOLEAN /\ cl.on \in 0 .. MaxRequests
    BY <1>2, <1>3 DEF MoveOK, CrClientRecord
  <2>7. /\ Whole(r) /\ r.status = cl.to /\ Keeps(r, file) /\ r \in CrRecord
        /\ cl.to \in Transitions(file.status) /\ HasMandatoryFields(r, cl.to)
        /\ (Proven(file) /\ (cl.to = "verified" => Shown(file))) => Proven(r)
    BY <1>4, <2>1, <2>5, <2>6, MovedIsWhole DEF Whole
  <2>9. Continues(r, "none", crFiles[cl.on])
    BY <1>1, <2>5, <2>7 DEF Continues
  <2>10. (cl.to = "verified" /\ ~cl.disturbed) => Shown(file)
    BY <1>1, <1>2, <1>3, <2>5 DEF MoveOK
  <2>11. new \in CrClientRecord
    BY <2>2, <2>6, <2>7 DEF CrClientRecord
  <2>12. SaveOK(new, crFiles, crTainted) /\ MoveOK(new, crFiles)
    BY <2>2, <2>5, <2>7, <2>9, <2>10 DEF SaveOK, MoveOK
  <2> QED BY <1>2, <2>4, <2>11, <2>12, ClientReads
<1>5. CASE ~(CrReadable(cl.on) /\ MayMove(file, cl.to))
  <2>1. crClient' = [crClient EXCEPT ![c] = IdleClient]
    BY <1>1, <1>5 DEF LoadAndMove
  <2> QED BY <1>2, <2>1, IdleClientOK, ClientReads
<1> QED BY <1>4, <1>5

LEMMA SaveKeeps ==
    ASSUME RequestAssumption, RequestInv, NEW c \in CrClients, SaveView(c)
    PROVE  RequestInv'
<1>0. PICK cl : cl = crClient[c]
  OBVIOUS
<1>1. PICK file \in ReadBack(cl.view, cl.delimiter) :
         cl = crClient[c] /\ crFiles' = [crFiles EXCEPT ![cl.on] = file]
  BY <1>0 DEF SaveView
<1>2. PICK n, taint : n = cl.on /\ taint = (crTainted[n] \/ cl.disturbed)
  OBVIOUS
<1>3. cl \in CrClientRecord /\ SaveOK(cl, crFiles, crTainted)
  BY <1>1 DEF RequestInv
<1>4. /\ cl.step = "save" /\ n \in Numbers /\ Whole(cl.view) /\ cl.disturbed \in BOOLEAN
      /\ cl.to = "verified" => Shown(cl.view)
      /\ (~cl.disturbed /\ ~crTainted[n]) => Proven(cl.view)
      /\ cl.delimiter \in CrTexts \cup {"none"}
  BY <1>1, <1>2, <1>3 DEF SaveView, SaveOK, CrClientRecord
<1>5. \/ file = Torn
      \/ /\ Whole(file)
         /\ Proven(cl.view) => Proven(file)
         /\ Shown(cl.view) => Shown(file)
  BY <1>1, <1>4, ReadBackIsWhole
<1>6. file \in CrRecord \cup {NoRequest, Torn}
  BY <1>5 DEF Whole
<1>7. crTainted[n] \in BOOLEAN
  BY <1>4 DEF RequestInv
<1>8. taint \in BOOLEAN
  BY <1>2, <1>4, <1>7
<1>9. FileOK(file, taint)
  BY <1>2, <1>4, <1>5 DEF FileOK, Loads
<1>10. /\ crFiles' = [crFiles EXCEPT ![n] = file]
       /\ crTainted' = [crTainted EXCEPT ![n] = taint]
  BY <1>1, <1>2 DEF SaveView
<1>11. crFiles'[n] = file
  BY <1>4, <1>10 DEF RequestInv
<1>12. CASE cl.to = "none"
  <2>1. crClient' = [Garble(n, c) EXCEPT ![c] = IdleClient]
    BY <1>1, <1>2, <1>12 DEF SaveView
  <2> QED BY <1>4, <1>6, <1>8, <1>9, <1>10, <2>1, IdleClientOK, ClientSaves
<1>13. CASE cl.to # "none"
  <2>1. PICK new : new = [step |-> "move", on |-> n, to |-> cl.to, view |-> NoRequest,
                          delimiter |-> "none", disturbed |-> cl.disturbed]
    OBVIOUS
  <2>2. [cl EXCEPT !.step = "move", !.view = NoRequest, !.delimiter = "none"] = new
    BY <1>2, <1>3, <2>1, ClientGoesOn
  <2>3. crClient' = [Garble(n, c) EXCEPT ![c] = new]
    BY <1>1, <1>2, <1>13, <2>2 DEF SaveView
  <2>4. new \in CrClientRecord
    BY <1>2, <1>3, <2>1 DEF CrClientRecord
  <2>5. SaveOK(new, crFiles', crTainted') /\ MoveOK(new, crFiles')
    BY <1>4, <1>5, <1>11, <1>13, <2>1 DEF SaveOK, MoveOK, Loads
  <2> QED BY <1>4, <1>6, <1>8, <1>9, <1>10, <2>3, <2>4, <2>5, ClientSaves
<1> QED BY <1>12, <1>13

LEMMA DeathKeeps ==
    ASSUME RequestAssumption, RequestInv, NEW c \in CrClients, ClientDies(c)
    PROVE  RequestInv'
<1>1. CASE crFiles' = crFiles /\ crClient' = [crClient EXCEPT ![c] = IdleClient]
  BY <1>1, IdleClientOK, ClientReads DEF ClientDies
<1>2. CASE /\ crClient[c].step = "save"
           /\ crFiles' = [crFiles EXCEPT ![crClient[c].on] = Torn]
           /\ crClient' = [Garble(crClient[c].on, c) EXCEPT ![c] = IdleClient]
  <2>1. PICK n : n = crClient[c].on
    OBVIOUS
  <2>2. n \in Numbers
    BY <1>2, <2>1 DEF RequestInv, SaveOK
  <2>3. PICK taint \in BOOLEAN : taint = crTainted[n]
    BY <2>2 DEF RequestInv
  <2>4. crTainted' = [crTainted EXCEPT ![n] = taint]
    BY <2>2, <2>3 DEF ClientDies, RequestInv
  <2>5. FileOK(Torn, taint)
    BY DEF FileOK, Loads
  <2> QED BY <1>2, <2>1, <2>2, <2>4, <2>5, IdleClientOK, ClientSaves
<1> QED BY <1>1, <1>2 DEF ClientDies

LEMMA RequestStep ==
    ASSUME RequestAssumption, RequestInv, [CrNext]_crVars
    PROVE  RequestInv'
<1>1. CASE UNCHANGED crVars
  BY <1>1 DEF crVars, RequestInv
<1> QED BY <1>1, CreateKeeps, NoteKeeps, LoadToMoveKeeps, MoveKeeps, SaveKeeps, DeathKeeps
        DEF CrNext, CrClientStep

(* What a step may do to the file of request n: it is torn, overwritten by *)
(* a client that had been overtaken, or continued.                         *)
FileGoes(n) ==
    /\ crTainted[n] => crTainted'[n]
    /\ crFiles[n] # NoRequest => crFiles'[n] # NoRequest
    /\ \/ crFiles'[n] = crFiles[n]
       \/ crFiles'[n] = Torn
       \/ crTainted'[n]
       \/ Continues(crFiles'[n], "none", crFiles[n])

LEMMA RequestsGo ==
    ASSUME RequestAssumption, RequestInv, [CrNext]_crVars, NEW n \in Numbers
    PROVE  FileGoes(n)
<1>0. CASE UNCHANGED <<crFiles, crTainted>>
  BY <1>0 DEF FileGoes
<1>1. ASSUME NEW c \in CrClients, SaveView(c)
      PROVE  FileGoes(n)
  <2>0. PICK cl : cl = crClient[c]
    OBVIOUS
  <2>1. PICK file \in ReadBack(cl.view, cl.delimiter) :
           cl = crClient[c] /\ crFiles' = [crFiles EXCEPT ![cl.on] = file]
    BY <1>1, <2>0 DEF SaveView
  <2>2. /\ cl.step = "save" /\ cl.on \in Numbers /\ Whole(cl.view)
        /\ cl.delimiter \in CrTexts \cup {"none"}
        /\ ~cl.disturbed => Continues(cl.view, cl.delimiter, crFiles[cl.on])
    BY <1>1, <2>1 DEF RequestInv, CrClientRecord, SaveOK, SaveView
  <2>3. \/ file = Torn
        \/ /\ file.status = cl.view.status /\ Keeps(file, cl.view)
           /\ (cl.delimiter = "none" /\ HasMandatoryFields(cl.view, cl.view.status))
                  => HasMandatoryFields(file, cl.view.status)
    BY <2>1, <2>2, ReadBackIsWhole
  <2>4. file # NoRequest
    BY <2>1, <2>2, ReadBackIsWhole
  <2>5. /\ crFiles' = [crFiles EXCEPT ![cl.on] = file]
        /\ crTainted' = [crTainted EXCEPT ![cl.on] = @ \/ cl.disturbed]
    BY <1>1, <2>1 DEF SaveView
  <2>6. CASE n # cl.on
    BY <2>5, <2>6 DEF FileGoes, RequestInv
  <2>7. CASE n = cl.on
    <3>1. crFiles'[n] = file /\ (crTainted'[n] <=> (crTainted[n] \/ cl.disturbed))
      BY <2>5, <2>7 DEF RequestInv
    <3>2. (~cl.disturbed /\ file # Torn) => Continues(file, "none", crFiles[n])
      BY <2>2, <2>3, <2>7 DEF Continues, Keeps
    <3> QED BY <2>4, <3>1, <3>2 DEF FileGoes
  <2> QED BY <2>6, <2>7
<1>2. ASSUME NEW c \in CrClients, ClientDies(c)
      PROVE  FileGoes(n)
  BY <1>2 DEF ClientDies, FileGoes, RequestInv, RequestAssumption
<1>3. ASSUME NEW c \in CrClients,
             BeginCreate(c) \/ LoadToNote(c) \/ LoadToMove(c) \/ LoadAndMove(c)
      PROVE  FileGoes(n)
  BY <1>0, <1>3 DEF BeginCreate, LoadToNote, LoadToMove, LoadAndMove
<1> QED BY <1>0, <1>1, <1>2, <1>3 DEF CrNext, CrClientStep, crVars

LEMMA ApprovalStays ==
    ASSUME NEW n \in Numbers, FileGoes(n), WasApproved(n, crFiles, crTainted)
    PROVE  WasApproved(n, crFiles', crTainted')
BY DEF FileGoes, WasApproved, Continues, Keeps, Loads

LEMMA ChangeStaysOK ==
    ASSUME NEW change, ChangeOK(change, crFiles, crTainted), \A n \in Numbers : FileGoes(n)
    PROVE  ChangeOK(change, crFiles', crTainted')
<1> SUFFICES ASSUME NEW n \in ReliesOn(change)
             PROVE  WasApproved(n, crFiles', crTainted')
  BY DEF ChangeOK
<1>1. WasApproved(n, crFiles, crTainted)
  BY DEF ChangeOK
<1> QED BY <1>1, ApprovalStays DEF WasApproved

(* Where a status moved, and nobody was overtaken, it moved by the matrix. *)
LEMMA FilesMoveByTheMatrix ==
    ASSUME NEW n \in Numbers, FileGoes(n), CrReadable(n), CrReadable(n)',
           crFiles'[n].status # crFiles[n].status
    PROVE  \/ /\ crFiles'[n].status \in Transitions(crFiles[n].status)
              /\ HasMandatoryFields(crFiles'[n], crFiles'[n].status)
           \/ crTainted'[n]
BY DEF FileGoes, CrReadable, Continues, Loads

AcCommandRecord ==
    [step : {"idle", "status", "issues", "decide", "quote", "cite", "save"},
     on : Changes \cup {NoChange}, mine : AcRecord \cup {NoChange},
     cmd : {"none", "validate", "evidence", "reset", "link"},
     cited : CrRecord \cup {NoRequest}, issues : BOOLEAN, overtaken : BOOLEAN]

LEMMA NoAcCommandOK ==
    ASSUME NEW records, NEW files, NEW taints
    PROVE  NoAcCommand \in AcCommandRecord /\ AcCommandOK(NoAcCommand, records, files, taints)
BY DEF NoAcCommand, AcCommandRecord, AcCommandOK

LEMMA ChangesInitially ==
    ASSUME RequestAssumption, AcInit
    PROVE  ChangeInv
<1>1. acClient \in [AcClients -> AcCommandRecord]
  BY NoAcCommandOK DEF AcInit
<1>2. AcTypeOK
  BY <1>1 DEF AcInit, AcTypeOK, AcCommandRecord
<1> QED BY <1>2, RequestsInitially, NoAcCommandOK DEF ChangeInv, AcInit

(* The commands of others, when the requests go on. *)
LEMMA CommandStaysOK ==
    ASSUME NEW ac, AcCommandOK(ac, acFiles, crFiles, crTainted), \A n \in Numbers : FileGoes(n)
    PROVE  AcCommandOK(ac, acFiles, crFiles', crTainted')
<1>1. WasApproved(ac.mine.cr, crFiles, crTainted) => WasApproved(ac.mine.cr, crFiles', crTainted')
  BY ApprovalStays DEF WasApproved
<1>2. ChangeOK(ac.mine, crFiles, crTainted) => ChangeOK(ac.mine, crFiles', crTainted')
  BY ChangeStaysOK
<1> QED BY <1>1, <1>2 DEF AcCommandOK

LEMMA RequestsOnly ==
    ASSUME ChangeInv, RequestInv', \A n \in Numbers : FileGoes(n), UNCHANGED acVars
    PROVE  ChangeInv'
<1>1. AcTypeOK'
  BY DEF ChangeInv, AcTypeOK, acVars
<1>2. ASSUME NEW a \in Changes, acFiles'[a] # NoChange
      PROVE  ChangeOK(acFiles'[a], crFiles', crTainted')
  BY <1>2, ChangeStaysOK DEF ChangeInv, acVars
<1>3. ASSUME NEW p \in AcClients
      PROVE  AcCommandOK(acClient'[p], acFiles', crFiles', crTainted')
  BY CommandStaysOK DEF ChangeInv, acVars
<1> QED BY <1>1, <1>2, <1>3 DEF ChangeInv

(* A command that only reads. *)
LEMMA AcReads ==
    ASSUME ChangeInv, UNCHANGED crVars, acFiles' = acFiles, NEW p \in AcClients,
           acClient' \in [AcClients -> AcCommandRecord],
           \A q \in AcClients \ {p} : acClient'[q] = acClient[q],
           AcCommandOK(acClient'[p], acFiles, crFiles, crTainted)
    PROVE  ChangeInv'
<1>1. RequestInv'
  BY DEF ChangeInv, RequestInv, crVars
<1>2. AcTypeOK'
  BY DEF ChangeInv, AcTypeOK, AcCommandRecord
<1>3. \A q \in AcClients : AcCommandOK(acClient'[q], acFiles', crFiles', crTainted')
  BY DEF ChangeInv, crVars
<1>4. \A a \in Changes : acFiles'[a] # NoChange => ChangeOK(acFiles'[a], crFiles', crTainted')
  BY DEF ChangeInv, crVars
<1> QED BY <1>1, <1>2, <1>3, <1>4 DEF ChangeInv

LEMMA AcGoesOn ==
    ASSUME ChangeInv, UNCHANGED crVars, acFiles' = acFiles, NEW p \in AcClients,
           NEW new \in AcCommandRecord, acClient' = [acClient EXCEPT ![p] = new],
           AcCommandOK(new, acFiles, crFiles, crTainted)
    PROVE  ChangeInv'
<1>1. acClient \in [AcClients -> AcCommandRecord]
  BY DEF ChangeInv, AcTypeOK, AcCommandRecord
<1>2. acClient'[p] = new /\ \A q \in AcClients \ {p} : acClient'[q] = acClient[q]
  BY <1>1
<1>3. acClient' \in [AcClients -> AcCommandRecord]
  BY <1>1
<1>4. AcCommandOK(acClient'[p], acFiles, crFiles, crTainted)
  BY <1>2
<1> QED BY <1>2, <1>3, <1>4, AcReads

(* A record is saved; copies others hold are overtaken. *)
LEMMA AcSaves ==
    ASSUME ChangeInv, UNCHANGED crVars, NEW p \in AcClients, NEW a \in Changes,
           NEW r \in AcRecord, r # NoChange, ChangeOK(r, crFiles, crTainted),
           acFiles' = [acFiles EXCEPT ![a] = r],
           NEW new \in AcCommandRecord, acClient' = [Overtake(a, p) EXCEPT ![p] = new],
           AcCommandOK(new, acFiles', crFiles, crTainted)
    PROVE  ChangeInv'
<1>1. RequestInv'
  BY DEF ChangeInv, RequestInv, crVars
<1>2. acFiles' \in [Changes -> AcRecord \cup {NoChange}] /\ acClient \in [AcClients -> AcCommandRecord]
  BY DEF ChangeInv, AcTypeOK, AcCommandRecord
<1>3. acFiles'[a] = r /\ \A b \in Changes \ {a} : acFiles'[b] = acFiles[b]
  BY DEF ChangeInv, AcTypeOK
<1>4. ASSUME NEW q \in AcClients
      PROVE  /\ acClient'[q] \in AcCommandRecord
             /\ AcCommandOK(acClient'[q], acFiles', crFiles, crTainted)
  <2>1. CASE q = p
    <3>1. acClient'[q] = new
      BY <2>1 DEF Overtake
    <3> QED BY <3>1
  <2>2. CASE q # p
    <3>1. PICK ac : ac = acClient[q]
      OBVIOUS
    <3>2. ac \in AcCommandRecord /\ AcCommandOK(ac, acFiles, crFiles, crTainted)
      BY <1>2, <3>1 DEF ChangeInv
    <3>3. CASE ac.on = a
      <4>1. acClient'[q] = [ac EXCEPT !.overtaken = TRUE]
        BY <2>2, <3>1, <3>3 DEF Overtake
      <4>2. PICK over : over = [ac EXCEPT !.overtaken = TRUE]
        OBVIOUS
      <4>3. /\ over \in AcCommandRecord /\ over.overtaken /\ over.step = ac.step /\ over.on = ac.on
            /\ over.mine = ac.mine /\ over.cmd = ac.cmd /\ over.cited = ac.cited
            /\ over.issues = ac.issues
        BY <3>2, <4>2 DEF AcCommandRecord
      <4>4. AcCommandOK(over, acFiles', crFiles, crTainted)
        BY <1>3, <3>2, <3>3, <4>3 DEF AcCommandOK
      <4> QED BY <4>1, <4>2, <4>3, <4>4
    <3>4. CASE ac.on # a
      <4>1. acClient'[q] = ac
        BY <2>2, <3>1, <3>4 DEF Overtake
      <4>2. AcCommandOK(ac, acFiles', crFiles, crTainted)
        BY <1>3, <3>2, <3>4 DEF AcCommandOK
      <4> QED BY <3>2, <4>1, <4>2
    <3> QED BY <3>3, <3>4
  <2> QED BY <2>1, <2>2
<1>5. acClient' = [q \in AcClients |-> acClient'[q]]
  BY DEF Overtake
<1>6. acClient' \in [AcClients -> AcCommandRecord]
  BY <1>4, <1>5
<1>7. AcTypeOK'
  BY <1>2, <1>6 DEF AcTypeOK, AcCommandRecord
<1>8. \A b \in Changes : acFiles'[b] # NoChange => ChangeOK(acFiles'[b], crFiles', crTainted')
  BY <1>3 DEF ChangeInv, crVars
<1>9. \A q \in AcClients : AcCommandOK(acClient'[q], acFiles', crFiles', crTainted')
  BY <1>4 DEF crVars
<1> QED BY <1>1, <1>7, <1>8, <1>9 DEF ChangeInv

LEMMA ApprovedCarriesApproval ==
    ASSUME ChangeInv, NEW n, CrReadable(n), crFiles[n].status \in Approved
    PROVE  WasApproved(n, crFiles, crTainted)
<1>1. n \in Numbers /\ Loads(crFiles[n]) /\ Whole(crFiles[n])
  BY DEF CrReadable, ChangeInv, RequestInv, FileOK, Loads
<1>2. /\ crFiles[n].status \notin {"draft", "emergency"}
      /\ "approval" \in MandatoryFields(crFiles[n].status)
  BY DEF Approved, Submitted, MandatoryFields
<1>3. ~crFiles[n].lost => "approval" \in crFiles[n].fields
  BY <1>1, <1>2 DEF Whole, HasItsFields, HasMandatoryFields
<1> QED BY <1>1, <1>3 DEF WasApproved, Loads

LEMMA RegisterKeeps ==
    ASSUME ChangeAssumption, RequestAssumption, ChangeInv, NEW p \in AcClients, RegisterChange(p)
    PROVE  ChangeInv'
<1>1. PICK a \in Changes, n \in 0 .. MaxRequests, refs \in {"none", "other", "sw"} :
         /\ acFiles[a] = NoChange
         /\ acFiles' = [acFiles EXCEPT ![a] =
                [status |-> IF n # 0 /\ refs # "none" THEN "linked" ELSE "pending",
                 cr |-> n, refs |-> refs, evidence |-> 0]]
  BY DEF RegisterChange
<1>2. PICK status \in {"linked", "pending"} :
         status = IF n # 0 /\ refs # "none" THEN "linked" ELSE "pending"
  OBVIOUS
<1>3. PICK r : r = [status |-> status, cr |-> n, refs |-> refs, evidence |-> 0]
  OBVIOUS
<1>4. acFiles' = [acFiles EXCEPT ![a] = r] /\ acClient' = acClient /\ UNCHANGED crVars
  <2>1. acFiles' = [acFiles EXCEPT ![a] = r]
    BY <1>1, <1>2, <1>3
  <2> QED BY <2>1 DEF RegisterChange, CrUnchanged
<1>5. r \in AcRecord /\ ReliesOn(r) = {} /\ r.status # "validated"
  BY <1>3 DEF AcRecord, ReliesOn, RequestAssumption
<1>6. RequestInv'
  BY <1>4 DEF ChangeInv, RequestInv, crVars
<1>7. AcTypeOK'
  BY <1>4, <1>5 DEF ChangeInv, AcTypeOK
<1>8. acFiles'[a] = r /\ \A b \in Changes \ {a} : acFiles'[b] = acFiles[b]
  BY <1>4 DEF ChangeInv, AcTypeOK
<1>9. \A b \in Changes : acFiles'[b] # NoChange => ChangeOK(acFiles'[b], crFiles', crTainted')
  BY <1>4, <1>5, <1>8 DEF ChangeInv, ChangeOK, crVars
<1>10. ASSUME NEW q \in AcClients
       PROVE  AcCommandOK(acClient'[q], acFiles', crFiles', crTainted')
  <2>1. PICK ac : ac = acClient[q]
    OBVIOUS
  <2>2. AcCommandOK(ac, acFiles, crFiles, crTainted)
    BY <2>1 DEF ChangeInv
  <2>3. AcCommandOK(ac, acFiles', crFiles, crTainted)
    BY <1>1, <1>8, <2>2 DEF AcCommandOK
  <2> QED BY <1>4, <2>1, <2>3 DEF crVars
<1> QED BY <1>6, <1>7, <1>9, <1>10 DEF ChangeInv

LEMMA LoadChangeKeeps ==
    ASSUME ChangeAssumption, ChangeInv, NEW p \in AcClients, LoadChange(p)
    PROVE  ChangeInv'
<1>1. PICK a \in Changes, cmd \in {"validate", "evidence", "reset", "link"} :
         /\ acFiles[a] # NoChange
         /\ acClient' = [acClient EXCEPT ![p] =
                [NoAcCommand EXCEPT !.on = a, !.mine = acFiles[a], !.cmd = cmd,
                   !.step = IF cmd \in {"validate", "evidence"} THEN "status" ELSE "save"]]
  BY DEF LoadChange
<1>2. PICK step \in {"status", "save"} :
         step = IF cmd \in {"validate", "evidence"} THEN "status" ELSE "save"
  OBVIOUS
<1>3. PICK new : new = [NoAcCommand EXCEPT !.on = a, !.mine = acFiles[a], !.cmd = cmd, !.step = step]
  OBVIOUS
<1>4. acClient' = [acClient EXCEPT ![p] = new]
  BY <1>1, <1>2, <1>3
<1>5. acFiles[a] \in AcRecord /\ acClient \in [AcClients -> AcCommandRecord]
  BY <1>1 DEF ChangeInv, AcTypeOK, AcCommandRecord
<1>6. /\ new \in AcCommandRecord /\ new.step = step /\ new.on = a /\ new.mine = acFiles[a]
      /\ new.cmd = cmd
  BY <1>3, <1>5 DEF NoAcCommand, AcCommandRecord
<1>7. step = "save" => cmd \in {"reset", "link"}
  BY <1>2
<1>8. AcCommandOK(new, acFiles, crFiles, crTainted)
  BY <1>1, <1>5, <1>6, <1>7 DEF AcCommandOK, ChangeInv
<1>9. UNCHANGED crVars /\ acFiles' = acFiles
  BY DEF LoadChange, CrUnchanged
<1> QED BY <1>4, <1>6, <1>8, <1>9, AcGoesOn

LEMMA ReadStatusKeeps ==
    ASSUME ChangeInv, NEW p \in AcClients, ReadRequestStatus(p)
    PROVE  ChangeInv'
<1>0. PICK ac : ac = acClient[p]
  OBVIOUS
<1>1. acClient \in [AcClients -> AcCommandRecord] /\ AcCommandOK(ac, acFiles, crFiles, crTainted)
  BY <1>0 DEF ChangeInv, AcTypeOK, AcCommandRecord
<1> DEFINE found == CrReadable(ac.mine.cr)
           issues == \/ ac.mine.refs = "none"
                     \/ ~found
                     \/ crFiles[ac.mine.cr].status \notin Approved
                     \/ BugfixBlocks(crFiles[ac.mine.cr], ac.mine.refs)
<1>2. issues \in BOOLEAN
  OBVIOUS
<1>3. ~issues => WasApproved(ac.mine.cr, crFiles, crTainted) /\ ac.mine.refs # "none"
  BY ApprovedCarriesApproval
<1>4. PICK step \in {"issues", "decide"} : step = IF found THEN "issues" ELSE "decide"
  OBVIOUS
<1>5. /\ ac.step = "status"
      /\ acClient' = [acClient EXCEPT ![p].step = step, ![p].issues = issues]
      /\ UNCHANGED crVars /\ acFiles' = acFiles
  BY <1>0, <1>4 DEF ReadRequestStatus, CrUnchanged
<1> HIDE DEF issues, found
<1>6. PICK new : new = [ac EXCEPT !.step = step, !.issues = issues]
  OBVIOUS
<1>7. acClient' = [acClient EXCEPT ![p] = new]
  BY <1>0, <1>5, <1>6
<1>8. ac \in AcCommandRecord
  BY <1>0, <1>1
<1>9. /\ new \in AcCommandRecord /\ new.step = step /\ new.issues = issues /\ new.on = ac.on
      /\ new.mine = ac.mine /\ new.cmd = ac.cmd /\ new.overtaken = ac.overtaken
  BY <1>2, <1>6, <1>8 DEF AcCommandRecord
<1>10. AcCommandOK(new, acFiles, crFiles, crTainted)
  BY <1>1, <1>3, <1>5, <1>9 DEF AcCommandOK
<1> QED BY <1>5, <1>7, <1>9, <1>10, AcGoesOn

LEMMA ReadIssuesKeeps ==
    ASSUME ChangeInv, NEW p \in AcClients, ReadRequestIssues(p)
    PROVE  ChangeInv'
<1>0. PICK ac : ac = acClient[p]
  OBVIOUS
<1>1. acClient \in [AcClients -> AcCommandRecord] /\ AcCommandOK(ac, acFiles, crFiles, crTainted)
  BY <1>0 DEF ChangeInv, AcTypeOK, AcCommandRecord
<1> DEFINE issues == ac.issues \/ ~CrReadable(ac.mine.cr) \/ ~NothingBlocks(crFiles[ac.mine.cr])
<1>2. issues \in BOOLEAN /\ (~issues => ~ac.issues)
  OBVIOUS
<1>3. /\ ac.step = "issues"
      /\ acClient' = [acClient EXCEPT ![p].step = "decide", ![p].issues = issues]
      /\ UNCHANGED crVars /\ acFiles' = acFiles
  BY <1>0 DEF ReadRequestIssues, CrUnchanged
<1> HIDE DEF issues
<1>4. PICK new : new = [ac EXCEPT !.step = "decide", !.issues = issues]
  OBVIOUS
<1>5. acClient' = [acClient EXCEPT ![p] = new]
  BY <1>0, <1>3, <1>4
<1>6. ac \in AcCommandRecord
  BY <1>0, <1>1
<1>7. /\ new \in AcCommandRecord /\ new.step = "decide" /\ new.issues = issues /\ new.on = ac.on
      /\ new.mine = ac.mine /\ new.cmd = ac.cmd /\ new.overtaken = ac.overtaken
  BY <1>2, <1>4, <1>6 DEF AcCommandRecord
<1>8. AcCommandOK(new, acFiles, crFiles, crTainted)
  BY <1>1, <1>2, <1>3, <1>7 DEF AcCommandOK
<1> QED BY <1>3, <1>5, <1>7, <1>8, AcGoesOn

(* What validation and the other commands make of a record. *)
LEMMA ValidatedIsBacked ==
    ASSUME NEW ac \in AcCommandRecord, ac.step = "decide",
           AcCommandOK(ac, acFiles, crFiles, crTainted)
    PROVE  /\ StatusAfter(ac) \in AcRecord
           /\ ChangeOK(StatusAfter(ac), crFiles, crTainted)
           /\ StatusAfter(ac).cr = ac.mine.cr
<1>1. /\ ac.mine \in AcRecord /\ ChangeOK(ac.mine, crFiles, crTainted)
      /\ ~ac.issues => WasApproved(ac.mine.cr, crFiles, crTainted) /\ ac.mine.refs # "none"
  BY DEF AcCommandOK
<1>2. CASE ac.mine.status \notin {"pending", "linked"}
  BY <1>1, <1>2 DEF StatusAfter
<1>3. CASE ac.mine.status \in {"pending", "linked"}
  <2>1. PICK status \in {"blocked", "validated"} :
           /\ status = IF ac.issues THEN "blocked" ELSE "validated"
           /\ status = "validated" => ~ac.issues
    BY DEF AcCommandRecord
  <2>2. PICK r : r = [ac.mine EXCEPT !.status = status]
    OBVIOUS
  <2>3. StatusAfter(ac) = r
    BY <1>3, <2>1, <2>2 DEF StatusAfter
  <2>4. /\ r \in AcRecord /\ r.status = status /\ r.cr = ac.mine.cr
        /\ r.evidence = ac.mine.evidence /\ r.refs = ac.mine.refs
    BY <1>1, <2>2 DEF AcRecord
  <2>5. ASSUME NEW n \in ReliesOn(r)
        PROVE  WasApproved(n, crFiles, crTainted)
    <3>1. n \in ReliesOn(ac.mine) \/ (status = "validated" /\ n = ac.mine.cr)
      BY <2>4 DEF ReliesOn
    <3> QED BY <1>1, <2>1, <3>1 DEF ChangeOK
  <2>6. r.status = "validated" => r.refs # "none"
    BY <1>1, <2>1, <2>4
  <2> QED BY <2>3, <2>4, <2>5, <2>6 DEF ChangeOK
<1> QED BY <1>2, <1>3

LEMMA ResultIsBacked ==
    ASSUME RequestAssumption, NEW ac \in AcCommandRecord, ac.step = "save",
           AcCommandOK(ac, acFiles, crFiles, crTainted), NEW r \in Result(ac),
           Allowed(ac, r)
    PROVE  r \in AcRecord /\ ChangeOK(r, crFiles, crTainted)
<1>1. ac.mine \in AcRecord /\ ChangeOK(ac.mine, crFiles, crTainted)
  BY DEF AcCommandOK
<1>2. CASE ac.cmd = "reset"
  <2>1. r = [ac.mine EXCEPT !.status = "pending"]
    BY <1>2 DEF Result, ResetTo
  <2>2. r \in AcRecord /\ r.status = "pending" /\ r.evidence = ac.mine.evidence
    BY <1>1, <2>1 DEF AcRecord
  <2>3. ReliesOn(r) \subseteq ReliesOn(ac.mine)
    BY <2>2 DEF ReliesOn
  <2> QED BY <1>1, <2>2, <2>3 DEF ChangeOK
<1>3. CASE ac.cmd = "link"
  <2>1. PICK n \in Numbers : r = LinkTo(ac.mine, n)
    BY <1>3 DEF Result
  <2>2. n \in 0 .. MaxRequests
    BY DEF Numbers, RequestAssumption
  <2>3. PICK status : status = IF ac.mine.refs = "none" THEN ac.mine.status ELSE "linked"
    OBVIOUS
  <2>4. r = [ac.mine EXCEPT !.cr = n, !.status = status]
    BY <2>1, <2>3 DEF LinkTo
  <2>5. status \in {"pending", "linked", "validated", "blocked"}
    BY <1>1, <2>3 DEF AcRecord
  <2>6. /\ r \in AcRecord /\ r.status = status /\ r.evidence = ac.mine.evidence /\ r.cr = n
    BY <1>1, <2>2, <2>4, <2>5 DEF AcRecord
  <2>7. status # "validated"
    BY <1>1, <2>3 DEF ChangeOK
  <2>8. ReliesOn(r) \subseteq ReliesOn(ac.mine)
    BY <2>6, <2>7 DEF ReliesOn
  <2> QED BY <1>1, <2>6, <2>7, <2>8 DEF ChangeOK
<1>4. CASE ac.cmd = "evidence"
  <2>1. r = [ac.mine EXCEPT !.evidence = ac.mine.cr]
    BY <1>4 DEF Result
  <2>2. /\ r \in AcRecord /\ r.status = ac.mine.status /\ r.evidence = ac.mine.cr
        /\ r.cr = ac.mine.cr /\ r.refs = ac.mine.refs
    BY <1>1, <2>1 DEF AcRecord
  <2>3. WasApproved(ac.mine.cr, crFiles, crTainted)
    BY <1>4 DEF AcCommandOK
  <2>4. ReliesOn(r) \subseteq ReliesOn(ac.mine) \cup {ac.mine.cr}
    BY <2>2 DEF ReliesOn
  <2> QED BY <1>1, <2>2, <2>3, <2>4 DEF ChangeOK
<1> QED BY <1>2, <1>3, <1>4 DEF AcCommandOK

LEMMA DecideKeeps ==
    ASSUME ChangeAssumption, ChangeInv, NEW p \in AcClients, Decide(p)
    PROVE  ChangeInv'
<1>0. PICK ac : ac = acClient[p]
  OBVIOUS
<1>1. ac \in AcCommandRecord /\ AcCommandOK(ac, acFiles, crFiles, crTainted) /\ ac.step = "decide"
  BY <1>0 DEF ChangeInv, AcTypeOK, AcCommandRecord, Decide
<1>2. UNCHANGED crVars
  BY DEF Decide, CrUnchanged
<1>3. CASE ac.mine.status = "pending" /\ ~ac.issues
  <2>1. acFiles' = acFiles /\ acClient' = [acClient EXCEPT ![p] = NoAcCommand]
    BY <1>0, <1>3 DEF Decide
  <2> QED BY <1>2, <2>1, NoAcCommandOK, AcGoesOn
<1>4. CASE ~(ac.mine.status = "pending" /\ ~ac.issues)
  <2>1. PICK r : r = StatusAfter(ac)
    OBVIOUS
  <2>2. r \in AcRecord /\ ChangeOK(r, crFiles, crTainted) /\ r.cr = ac.mine.cr
    BY <1>1, <2>1, ValidatedIsBacked
  <2>3. PICK a : a = ac.on
    OBVIOUS
  <2>4. a \in Changes /\ r # NoChange
    BY <1>1, <2>2, <2>3 DEF AcCommandOK, ChangeAssumption
  <2>5. acFiles' = [acFiles EXCEPT ![a] = r]
    BY <1>0, <1>4, <2>1, <2>3 DEF Decide
  <2>6. acFiles'[a] = r
    BY <2>4, <2>5 DEF ChangeInv, AcTypeOK
  <2>7. CASE ac.cmd = "evidence" /\ ~ac.issues
    <3>1. PICK new : new = [ac EXCEPT !.step = "quote", !.mine = r]
      OBVIOUS
    <3>2. acClient' = [Overtake(a, p) EXCEPT ![p] = new]
      BY <1>0, <1>4, <2>1, <2>3, <2>7, <3>1 DEF Decide
    <3>3. /\ new \in AcCommandRecord /\ new.step = "quote" /\ new.mine = r /\ new.on = a
          /\ new.cmd = ac.cmd
      BY <1>1, <2>2, <2>3, <3>1 DEF AcCommandRecord
    <3>4. WasApproved(ac.mine.cr, crFiles, crTainted)
      BY <1>1, <2>7 DEF AcCommandOK
    <3>5. AcCommandOK(new, acFiles', crFiles, crTainted)
      BY <2>2, <2>4, <2>6, <2>7, <3>3, <3>4 DEF AcCommandOK
    <3> QED BY <1>2, <2>2, <2>4, <2>5, <3>2, <3>3, <3>5, AcSaves
  <2>8. CASE ~(ac.cmd = "evidence" /\ ~ac.issues)
    <3>1. acClient' = [Overtake(a, p) EXCEPT ![p] = NoAcCommand]
      BY <1>0, <1>4, <2>3, <2>8 DEF Decide
    <3> QED BY <1>2, <2>2, <2>4, <2>5, <3>1, NoAcCommandOK, AcSaves
  <2> QED BY <2>7, <2>8
<1> QED BY <1>3, <1>4

LEMMA LoadToCiteKeeps ==
    ASSUME ChangeInv, NEW p \in AcClients, LoadRequestToCite(p)
    PROVE  ChangeInv'
<1>0. PICK ac : ac = acClient[p]
  OBVIOUS
<1>1. ac \in AcCommandRecord /\ AcCommandOK(ac, acFiles, crFiles, crTainted) /\ ac.step = "quote"
  BY <1>0 DEF ChangeInv, AcTypeOK, AcCommandRecord, LoadRequestToCite
<1>2. UNCHANGED crVars /\ acFiles' = acFiles
  BY DEF LoadRequestToCite, CrUnchanged
<1>3. CASE CrReadable(ac.mine.cr)
  <2>1. PICK file : file = crFiles[ac.mine.cr]
    OBVIOUS
  <2>2. Whole(file) /\ file \in CrRecord
    BY <1>3, <2>1 DEF CrReadable, ChangeInv, RequestInv, FileOK, Loads, Whole
  <2>3. PICK new : new = [ac EXCEPT !.step = "cite", !.cited = file]
    OBVIOUS
  <2>4. acClient' = [acClient EXCEPT ![p].step = "cite", ![p].cited = file]
    BY <1>0, <1>3, <2>1 DEF LoadRequestToCite
  <2>5. acClient' = [acClient EXCEPT ![p] = new]
    BY <1>0, <2>3, <2>4
  <2>6. /\ new \in AcCommandRecord /\ new.step = "cite" /\ new.cited = file /\ new.on = ac.on
        /\ new.mine = ac.mine /\ new.cmd = ac.cmd /\ new.overtaken = ac.overtaken
    BY <1>1, <2>2, <2>3 DEF AcCommandRecord
  <2>7. AcCommandOK(new, acFiles, crFiles, crTainted)
    BY <1>1, <2>2, <2>6 DEF AcCommandOK
  <2> QED BY <1>2, <2>5, <2>6, <2>7, AcGoesOn
<1>4. CASE ~CrReadable(ac.mine.cr)
  <2>3. PICK new : new = [ac EXCEPT !.step = "save", !.cited = NoRequest]
    OBVIOUS
  <2>4. acClient' = [acClient EXCEPT ![p].step = "save", ![p].cited = NoRequest]
    BY <1>0, <1>4 DEF LoadRequestToCite
  <2>5. acClient' = [acClient EXCEPT ![p] = new]
    BY <1>0, <2>3, <2>4
  <2>6. /\ new \in AcCommandRecord /\ new.step = "save" /\ new.on = ac.on
        /\ new.mine = ac.mine /\ new.cmd = ac.cmd /\ new.overtaken = ac.overtaken
    BY <1>1, <2>3 DEF AcCommandRecord
  <2>7. AcCommandOK(new, acFiles, crFiles, crTainted)
    BY <1>1, <2>6 DEF AcCommandOK
  <2> QED BY <1>2, <2>5, <2>6, <2>7, AcGoesOn
<1> QED BY <1>3, <1>4

LEMMA SaveChangeKeeps ==
    ASSUME RequestAssumption, ChangeAssumption, ChangeInv, NEW p \in AcClients, SaveChange(p)
    PROVE  ChangeInv'
<1>0. PICK ac : ac = acClient[p]
  OBVIOUS
<1>1. ac \in AcCommandRecord /\ AcCommandOK(ac, acFiles, crFiles, crTainted) /\ ac.step = "save"
  BY <1>0 DEF ChangeInv, AcTypeOK, AcCommandRecord, SaveChange
<1>2. UNCHANGED crVars
  BY DEF SaveChange, CrUnchanged
<1>3. PICK r \in Result(ac) :
         IF Allowed(ac, r)
         THEN /\ acFiles' = [acFiles EXCEPT ![ac.on] = r]
              /\ acClient' = [Overtake(ac.on, p) EXCEPT ![p] = NoAcCommand]
         ELSE /\ acClient' = [acClient EXCEPT ![p] = NoAcCommand]
              /\ acFiles' = acFiles
  BY <1>0 DEF SaveChange
<1>4. CASE Allowed(ac, r)
  <2>1. r \in AcRecord /\ ChangeOK(r, crFiles, crTainted)
    BY <1>1, <1>4, ResultIsBacked
  <2>2. ac.on \in Changes /\ r # NoChange
    BY <1>1, <2>1 DEF AcCommandOK, ChangeAssumption
  <2> QED BY <1>2, <1>3, <1>4, <2>1, <2>2, NoAcCommandOK, AcSaves
<1>5. CASE ~Allowed(ac, r)
  BY <1>2, <1>3, <1>5, NoAcCommandOK, AcGoesOn
<1> QED BY <1>4, <1>5

(* A request is saved by a command on an accountable change: every client  *)
(* that works on it is disturbed. *)
LEMMA OthersSave ==
    ASSUME RequestInv, NEW n \in Numbers, NEW file \in CrRecord, NEW taint \in BOOLEAN,
           FileOK(file, taint),
           crFiles' = [crFiles EXCEPT ![n] = file],
           crTainted' = [crTainted EXCEPT ![n] = taint],
           crClient' = [c \in CrClients |->
               IF crClient[c].on = n THEN [crClient[c] EXCEPT !.disturbed = TRUE]
               ELSE crClient[c]]
    PROVE  RequestInv'
<1>1. /\ crFiles' \in [Numbers -> CrRecord \cup {NoRequest, Torn}]
      /\ crTainted' \in [Numbers -> BOOLEAN]
      /\ \A m \in Numbers : FileOK(crFiles'[m], crTainted'[m])
  BY DEF RequestInv
<1>2. \A m \in Numbers \ {n} : crFiles'[m] = crFiles[m] /\ crTainted'[m] = crTainted[m]
  BY DEF RequestInv
<1>3. ASSUME NEW d \in CrClients
      PROVE  /\ crClient'[d] \in CrClientRecord
             /\ SaveOK(crClient'[d], crFiles', crTainted') /\ MoveOK(crClient'[d], crFiles')
  <2>1. PICK cl : cl = crClient[d]
    OBVIOUS
  <2>2. crClient'[d] = IF cl.on = n THEN [cl EXCEPT !.disturbed = TRUE] ELSE cl
    BY <2>1
  <2>3. cl \in CrClientRecord /\ SaveOK(cl, crFiles, crTainted) /\ MoveOK(cl, crFiles)
    BY <2>1 DEF RequestInv
  <2>4. CASE cl.on = n
    <3>1. PICK new : new = [cl EXCEPT !.disturbed = TRUE]
      OBVIOUS
    <3>2. new \in CrClientRecord /\ SaveOK(new, crFiles', crTainted') /\ MoveOK(new, crFiles')
      BY <2>3, <3>1, DisturbedOK
    <3> QED BY <2>2, <2>4, <3>1, <3>2
  <2>5. CASE cl.on # n
    <3>1. SaveOK(cl, crFiles', crTainted') /\ MoveOK(cl, crFiles')
      BY <1>2, <2>3, <2>5 DEF SaveOK, MoveOK
    <3> QED BY <2>2, <2>3, <2>5, <3>1
  <2> QED BY <2>4, <2>5
<1>4. DOMAIN crClient' = CrClients /\ crClient' = [d \in CrClients |-> crClient'[d]]
  OBVIOUS
<1>5. crClient' \in [CrClients -> CrClientRecord]
  BY <1>3, <1>4
<1> QED BY <1>1, <1>3, <1>5 DEF RequestInv

LEMMA CiteKeeps ==
    ASSUME RequestAssumption, ChangeInv, NEW p \in AcClients, SaveCitedRequest(p)
    PROVE  ChangeInv' /\ \A m \in Numbers : FileGoes(m)
<1>0. PICK ac, n : ac = acClient[p] /\ n = ac.mine.cr
  OBVIOUS
<1>1. ac \in AcCommandRecord /\ AcCommandOK(ac, acFiles, crFiles, crTainted) /\ ac.step = "cite"
  BY <1>0 DEF ChangeInv, AcTypeOK, AcCommandRecord, SaveCitedRequest
<1>2. n \in Numbers /\ Whole(ac.cited) /\ RequestInv /\ crTainted[n] \in BOOLEAN
  BY <1>0, <1>1 DEF AcCommandOK, WasApproved, ChangeInv, RequestInv
<1>3. PICK more : more = EvidenceOf(ac.cited)
  OBVIOUS
<1>4. PICK file : file = [ac.cited EXCEPT !.fields = @ \cup more]
  OBVIOUS
<1>5. PICK taint \in BOOLEAN : taint = (crTainted[n] \/ crFiles[n] # ac.cited)
  BY <1>2
<1>6. /\ crFiles' = [crFiles EXCEPT ![n] = file]
      /\ crTainted' = [crTainted EXCEPT ![n] = taint]
      /\ acFiles' = acFiles
  <2>1. crFiles' = [crFiles EXCEPT ![n] = file]
    BY <1>0, <1>3, <1>4 DEF SaveCitedRequest
  <2>2. crTainted' = [crTainted EXCEPT ![n] = crTainted[n] \/ crFiles[n] # ac.cited]
    BY <1>0 DEF SaveCitedRequest
  <2>3. crTainted' = [crTainted EXCEPT ![n] = taint]
    BY <1>5, <2>2
  <2> QED BY <2>1, <2>3 DEF SaveCitedRequest
<1>7. crClient' = [c \in CrClients |->
            IF crClient[c].on = n THEN [crClient[c] EXCEPT !.disturbed = TRUE]
            ELSE crClient[c]]
  BY <1>0 DEF SaveCitedRequest
<1>8. more \in SUBSET (FieldNames \ {"sysReq"})
  BY <1>3 DEF EvidenceOf, FieldNames, Refs
<1>9. /\ Whole(file) /\ (Proven(ac.cited) => Proven(file)) /\ file \in CrRecord
      /\ file.status = ac.cited.status /\ Keeps(file, ac.cited)
  BY <1>2, <1>4, <1>8, NotedIsWhole DEF Whole
<1>11. FileOK(file, taint)
  <2>1. FileOK(crFiles[n], crTainted[n]) /\ Loads(ac.cited)
    BY <1>2 DEF RequestInv, Loads, Whole, RequestAssumption
  <2>2. ~taint => Proven(ac.cited)
    BY <1>5, <2>1 DEF FileOK
  <2> QED BY <1>9, <2>2 DEF FileOK
<1>12. RequestInv'
  BY <1>2, <1>6, <1>7, <1>9, <1>11, OthersSave
<1>13. ASSUME NEW m \in Numbers
       PROVE  FileGoes(m)
  <2>1. CASE m # n
    BY <1>6, <2>1, <1>2 DEF FileGoes, RequestInv
  <2>2. CASE m = n
    <3>1. crFiles'[m] = file /\ crTainted'[m] = taint
      BY <1>2, <1>6, <2>2 DEF RequestInv
    <3>2. file # NoRequest /\ ac.cited # Torn
      BY <1>2, <1>9 DEF Whole, RequestAssumption
    <3>3. ~taint => Continues(file, "none", crFiles[m])
      BY <1>5, <1>9, <2>2, <3>2 DEF Continues
    <3> QED BY <1>5, <2>2, <3>1, <3>2, <3>3 DEF FileGoes
  <2> QED BY <2>1, <2>2
<1>14. PICK new : new = [ac EXCEPT !.step = "save", !.cited = NoRequest]
  OBVIOUS
<1>15. acClient' = [acClient EXCEPT ![p] = new]
  BY <1>0, <1>14 DEF SaveCitedRequest
<1>16. /\ new \in AcCommandRecord /\ new.step = "save" /\ new.on = ac.on
       /\ new.mine = ac.mine /\ new.cmd = ac.cmd /\ new.overtaken = ac.overtaken
  BY <1>1, <1>14 DEF AcCommandRecord
<1>17. AcCommandOK(new, acFiles, crFiles, crTainted)
  BY <1>1, <1>16 DEF AcCommandOK
<1>18. acClient \in [AcClients -> AcCommandRecord]
  BY DEF ChangeInv, AcTypeOK, AcCommandRecord
<1>19. AcTypeOK'
  <2>1. acClient' \in [AcClients -> AcCommandRecord]
    BY <1>15, <1>16, <1>18
  <2> QED BY <1>6, <2>1 DEF ChangeInv, AcTypeOK, AcCommandRecord
<1>20. ASSUME NEW a \in Changes, acFiles'[a] # NoChange
       PROVE  ChangeOK(acFiles'[a], crFiles', crTainted')
  BY <1>6, <1>13, <1>20, ChangeStaysOK DEF ChangeInv
<1>21. ASSUME NEW q \in AcClients
       PROVE  AcCommandOK(acClient'[q], acFiles', crFiles', crTainted')
  <2>1. PICK old : old = acClient'[q]
    OBVIOUS
  <2>2. AcCommandOK(old, acFiles, crFiles, crTainted)
    BY <1>15, <1>17, <1>18, <2>1 DEF ChangeInv
  <2> QED BY <1>6, <1>13, <2>1, <2>2, CommandStaysOK
<1> QED BY <1>12, <1>13, <1>19, <1>20, <1>21 DEF ChangeInv

LEMMA ChangeStep ==
    ASSUME RequestAssumption, ChangeAssumption, ChangeInv, [AcNext]_<<crVars, acVars>>
    PROVE  ChangeInv' /\ \A n \in Numbers : FileGoes(n)
<1>1. RequestInv
  BY DEF ChangeInv
<1>2. CASE [CrNext]_crVars /\ UNCHANGED acVars
  <2>1. RequestInv' /\ \A n \in Numbers : FileGoes(n)
    BY <1>1, <1>2, RequestStep, RequestsGo
  <2> QED BY <1>2, <2>1, RequestsOnly
<1>3. ASSUME NEW p \in AcClients,
             \/ RegisterChange(p) \/ LoadChange(p) \/ ReadRequestStatus(p)
             \/ ReadRequestIssues(p) \/ Decide(p) \/ LoadRequestToCite(p) \/ SaveChange(p)
      PROVE  ChangeInv' /\ \A n \in Numbers : FileGoes(n)
  <2>1. UNCHANGED crVars
    BY <1>3 DEF RegisterChange, LoadChange, ReadRequestStatus, ReadRequestIssues, Decide,
                LoadRequestToCite, SaveChange, CrUnchanged
  <2>2. \A n \in Numbers : FileGoes(n)
    BY <2>1 DEF FileGoes, crVars
  <2>3. ChangeInv'
    BY <1>3, RegisterKeeps, LoadChangeKeeps, ReadStatusKeeps, ReadIssuesKeeps, DecideKeeps,
       LoadToCiteKeeps, SaveChangeKeeps
  <2> QED BY <2>2, <2>3
<1> QED BY <1>2, <1>3, CiteKeeps DEF AcNext, AcClientStep

-----------------------------------------------------------------------------
(* What follows of every behaviour. *)

LEMMA InvImpliesComplete ==
    ASSUME RequestInv
    PROVE  SavedRequestsAreComplete
<1> SUFFICES ASSUME NEW n \in Numbers, CrReadable(n), ~crFiles[n].lost
             PROVE  LET r == crFiles[n] IN
                    /\ r.status \notin {"draft", "emergency"} => HasMandatoryFields(r, r.status)
                    /\ r.status \in Submitted =>
                         /\ DerivationMet(r)
                         /\ r.bugfix => "swReq" \in r.fields
                         /\ r.emergency => {"incident", "postMortem"} \subseteq r.fields
                    /\ (r.status = "closed" /\ r.bugfix) => "rootCause" \in r.fields
  BY DEF SavedRequestsAreComplete
<1>1. Whole(crFiles[n])
  BY DEF RequestInv, FileOK, Loads, CrReadable
<1>2. "emergency" \notin Submitted
  BY DEF Submitted
<1> QED BY <1>1, <1>2 DEF Whole, HasItsFields

LEMMA InvImpliesVerified ==
    ASSUME RequestInv
    PROVE  VerifiedOnEvidenceOfTheWork
BY DEF RequestInv, VerifiedOnEvidenceOfTheWork, FileOK, Loads, CrReadable, Proven

LEMMA InvImpliesApproved ==
    ASSUME ChangeInv
    PROVE  AccountedChangesWereApproved
<1> SUFFICES ASSUME NEW a \in Changes, acFiles[a] # NoChange, NEW n \in ReliesOn(acFiles[a])
             PROVE  /\ n # 0
                    /\ (CrReadable(n) /\ ~crTainted[n] /\ ~crFiles[n].lost)
                         => "approval" \in crFiles[n].fields
  BY DEF AccountedChangesWereApproved
<1>1. WasApproved(n, crFiles, crTainted)
  BY DEF ChangeInv, ChangeOK
<1> QED BY <1>1 DEF WasApproved, CrReadable, Loads, Numbers

LEMMA AlwaysChangeInv ==
    ASSUME RequestAssumption, ChangeAssumption
    PROVE  AcSpec => [](ChangeInv /\ RequestInv)
<1>1. AcInit => ChangeInv
  BY ChangesInitially
<1>2. ChangeInv /\ [AcNext]_<<crVars, acVars>> => ChangeInv'
  BY ChangeStep
<1>3. ChangeInv => RequestInv
  BY DEF ChangeInv
<1> QED BY <1>1, <1>2, <1>3, PTL DEF AcSpec

(* A request on disk no text took a field from is as complete as its       *)
(* status claims, whatever clients commands that are refused, killed or    *)
(* overwritten leave behind, and also when commands on accountable changes *)
(* write their references into it.                                         *)
THEOREM RequestsStayComplete ==
    ASSUME RequestAssumption, ChangeAssumption
    PROVE  AcSpec => []SavedRequestsAreComplete
BY AlwaysChangeInv, InvImpliesComplete, PTL

(* A request is verified on evidence generated from its implementation,    *)
(* unless two commands overlapped on it or a text took a field from it.    *)
THEOREM VerifiedOnEvidence ==
    ASSUME RequestAssumption, ChangeAssumption
    PROVE  AcSpec => []VerifiedOnEvidenceOfTheWork
BY AlwaysChangeInv, InvImpliesVerified, PTL

(* Behind every validated change and every evidence packet stands a change *)
(* request that a reviewer approved: it carries the approval still, unless *)
(* two commands overlapped on it or a text took a field from it.           *)
THEOREM AccountedChangesStayApproved ==
    ASSUME RequestAssumption, ChangeAssumption
    PROVE  AcSpec => []AccountedChangesWereApproved
BY AlwaysChangeInv, InvImpliesApproved, PTL

(* The status of a request moves along its matrix and to one whose fields  *)
(* the request has at that moment, also a request that had lost some,      *)
(* unless the client that saves it was overtaken since its load.           *)
THEOREM RequestsFollowTheMatrix ==
    ASSUME RequestAssumption, ChangeAssumption
    PROVE  AcSpec => MovesFollowTheMatrix
<1> DEFINE Moves == \A n \in Numbers :
        (CrReadable(n) /\ CrReadable(n)' /\ crFiles'[n].status # crFiles[n].status)
            => \/ /\ crFiles'[n].status \in Transitions(crFiles[n].status)
                  /\ HasMandatoryFields(crFiles'[n], crFiles'[n].status)
               \/ crTainted'[n]
<1>1. ASSUME ChangeInv, [AcNext]_<<crVars, acVars>>
      PROVE  [Moves]_crVars
  <2>1. \A n \in Numbers : FileGoes(n)
    BY <1>1, ChangeStep
  <2> QED BY <2>1, FilesMoveByTheMatrix
<1> QED BY <1>1, AlwaysChangeInv, PTL DEF AcSpec, MovesFollowTheMatrix

(* The status of an accountable change moves along its matrix, so that a   *)
(* validated change stays so, unless its client was overtaken.             *)
THEOREM ChangesFollowTheMatrix ==
    ASSUME RequestAssumption, ChangeAssumption
    PROVE  AcSpec => AcMovesFollowTheMatrix
<1> DEFINE Moves(a) ==
        (acFiles[a] # NoChange /\ acFiles'[a].status # acFiles[a].status)
            => \/ acFiles'[a].status \in AcTransitions(acFiles[a].status)
               \/ \E p \in AcClients : acClient[p].on = a /\ acClient[p].overtaken
<1>1. ASSUME ChangeInv, [AcNext]_<<crVars, acVars>>
      PROVE  [\A a \in Changes : Moves(a)]_acVars
  <2> SUFFICES ASSUME NEW a \in Changes PROVE Moves(a)
    OBVIOUS
  <2>1. CASE acFiles' = acFiles
    BY <2>1
  <2>2. ASSUME NEW p \in AcClients, RegisterChange(p)
        PROVE  Moves(a)
    BY <1>1, <2>2 DEF RegisterChange, ChangeInv, AcTypeOK
  <2>3. ASSUME NEW p \in AcClients, Decide(p)
        PROVE  Moves(a)
    <3>1. PICK ac : ac = acClient[p]
      OBVIOUS
    <3>2. /\ ac \in AcCommandRecord /\ AcCommandOK(ac, acFiles, crFiles, crTainted)
          /\ ac.step = "decide"
      BY <1>1, <2>3, <3>1 DEF ChangeInv, AcTypeOK, AcCommandRecord, Decide
    <3>3. CASE ac.mine.status = "pending" /\ ~ac.issues
      BY <2>1, <2>3, <3>1, <3>3 DEF Decide
    <3>4. CASE ~(ac.mine.status = "pending" /\ ~ac.issues)
      <4>1. acFiles' = [acFiles EXCEPT ![ac.on] = StatusAfter(ac)]
        BY <2>3, <3>1, <3>4 DEF Decide
      <4>2. CASE ac.on # a \/ ac.overtaken
        BY <1>1, <3>1, <4>1, <4>2 DEF ChangeInv, AcTypeOK
      <4>3. CASE ac.on = a /\ ~ac.overtaken
        <5>1. ac.mine = acFiles[a] /\ ac.mine \in AcRecord /\ acFiles'[a] = StatusAfter(ac)
          BY <1>1, <3>2, <4>1, <4>3 DEF ChangeInv, AcTypeOK, AcCommandOK
        <5>2. \/ StatusAfter(ac) = ac.mine
              \/ StatusAfter(ac).status \in AcTransitions(ac.mine.status)
          BY <3>4, <5>1 DEF StatusAfter, AcTransitions, AcRecord
        <5> QED BY <5>1, <5>2
      <4> QED BY <4>2, <4>3
    <3> QED BY <3>3, <3>4
  <2>4. ASSUME NEW p \in AcClients, SaveChange(p)
        PROVE  Moves(a)
    <3>1. PICK ac : ac = acClient[p]
      OBVIOUS
    <3>2. /\ ac \in AcCommandRecord /\ AcCommandOK(ac, acFiles, crFiles, crTainted)
          /\ ac.step = "save"
      BY <1>1, <2>4, <3>1 DEF ChangeInv, AcTypeOK, AcCommandRecord, SaveChange
    <3>3. PICK r \in Result(ac) :
             IF Allowed(ac, r)
             THEN acFiles' = [acFiles EXCEPT ![ac.on] = r]
             ELSE acFiles' = acFiles
      BY <2>4, <3>1 DEF SaveChange
    <3>4. CASE ac.on # a \/ ac.overtaken \/ ~Allowed(ac, r)
      BY <1>1, <2>1, <3>1, <3>3, <3>4 DEF ChangeInv, AcTypeOK
    <3>5. CASE ac.on = a /\ ~ac.overtaken /\ Allowed(ac, r)
      <4>1. ac.mine = acFiles[a] /\ ac.mine \in AcRecord /\ acFiles'[a] = r
        BY <1>1, <3>2, <3>3, <3>5 DEF ChangeInv, AcTypeOK, AcCommandOK
      <4>2. CASE ac.cmd = "evidence"
        <5>1. r = [ac.mine EXCEPT !.evidence = ac.mine.cr]
          BY <3>3, <4>2 DEF Result
        <5>2. r.status = ac.mine.status
          BY <4>1, <5>1 DEF AcRecord
        <5> QED BY <4>1, <5>2
      <4>3. CASE ac.cmd = "link" /\ ac.mine.refs = "none"
        <5>1. PICK n \in Numbers : r = LinkTo(ac.mine, n)
          BY <3>3, <4>3 DEF Result
        <5>2. PICK status : status = ac.mine.status
          OBVIOUS
        <5>3. r = [ac.mine EXCEPT !.cr = n, !.status = status]
          BY <4>3, <5>1, <5>2 DEF LinkTo
        <5>4. r.status = ac.mine.status
          BY <4>1, <5>2, <5>3 DEF AcRecord
        <5> QED BY <4>1, <5>4
      <4> QED BY <3>5, <4>1, <4>2, <4>3 DEF Allowed
    <3> QED BY <3>4, <3>5
  <2>5. ASSUME NEW p \in AcClients,
               \/ LoadChange(p) \/ ReadRequestStatus(p) \/ ReadRequestIssues(p)
               \/ LoadRequestToCite(p) \/ SaveCitedRequest(p)
        PROVE  Moves(a)
    BY <2>1, <2>5 DEF LoadChange, ReadRequestStatus, ReadRequestIssues, LoadRequestToCite,
                      SaveCitedRequest
  <2> HIDE DEF Moves
  <2> QED BY <1>1, <2>1, <2>2, <2>3, <2>4, <2>5 DEF AcNext, AcClientStep, acVars
<1> QED BY <1>1, AlwaysChangeInv, PTL DEF AcSpec, AcMovesFollowTheMatrix
-----------------------------------------------------------------------------
(* The assistant's budget.  In a month that nothing disturbed at most one  *)
(* process is at a question, and the tracker, or the copy it is about to   *)
(* write, has just what Claude was paid.                                   *)

SumOf(data, m) == IF m \in DOMAIN data THEN data[m] ELSE 0

SumsOf(months) == UNION {[S -> Nat] : S \in SUBSET months}

QuestionOf(months) ==
    {NoQuestion}
    \cup [pc : {"ollama", "claude"}, cost : Costs, room : BOOLEAN]
    \cup [pc : {"charge"}, cost : Costs \cup {0}]
    \cup [pc : {"empty", "write"}, data : SumsOf(months)]

(* What a question knows of the sum of the month. *)
QuestionOK(op, file, m, paid) ==
    /\ op.pc \in {"idle", "ollama", "claude"} => SumOf(file, m) = paid
    /\ (op.pc = "ollama" /\ op.room) \/ op.pc = "claude" => paid < MonthlyBudget
    /\ op.pc = "charge" => SumOf(file, m) + op.cost = paid
    /\ op.pc \in {"empty", "write"} => SumOf(op.data, m) = paid

BudgetTyped ==
    /\ month \in Months
    /\ tracker \in SumsOf(1 .. month)
    /\ outlay \in [Months -> Nat]
    /\ disturbed \subseteq 1 .. month
    /\ asker \in [Askers -> QuestionOf(1 .. month)]

BudgetInv ==
    /\ BudgetTyped
    /\ \A m \in Months : m > month => outlay[m] = 0
    /\ \A m \in Months \ disturbed : \E c \in Costs : outlay[m] < MonthlyBudget + c
    /\ month \notin disturbed =>
          /\ \A a, b \in Askers : asker[a] # NoQuestion /\ asker[b] # NoQuestion => a = b
          /\ \A a \in Askers : asker[a] # NoQuestion =>
                QuestionOK(asker[a], tracker, month, outlay[month])
          /\ (\A a \in Askers : asker[a] = NoQuestion) =>
                SumOf(tracker, month) = outlay[month]
LEMMA SumsTyped ==
    ASSUME NEW months, NEW data \in SumsOf(months)
    PROVE  /\ DOMAIN data \subseteq months
           /\ data \in [DOMAIN data -> Nat]
           /\ \A m : SumOf(data, m) \in Nat
<1>1. PICK S \in SUBSET months : data \in [S -> Nat]
  BY DEF SumsOf
<1> QED BY <1>1 DEF SumOf

LEMMA SumsAre ==
    ASSUME NEW months, NEW data, DOMAIN data \subseteq months, data \in [DOMAIN data -> Nat]
    PROVE  data \in SumsOf(months)
BY DEF SumsOf

LEMMA EmptyFileSums ==
    ASSUME NEW months
    PROVE  NoFile \in SumsOf(months) /\ \A m : SumOf(NoFile, m) = 0
<1>1. DOMAIN NoFile = {} /\ NoFile \in [DOMAIN NoFile -> Nat]
  BY DEF NoFile
<1> QED BY <1>1, SumsAre DEF SumOf

LEMMA MoreMonths ==
    ASSUME BudgetAssumption, month \in Months, NEW data \in SumsOf(1 .. month)
    PROVE  data \in SumsOf(1 .. (month + 1))
<1>1. 1 .. month \subseteq 1 .. (month + 1)
  BY DEF Months, BudgetAssumption
<1> QED BY <1>1, SumsTyped, SumsAre

LEMMA StatusIsSum ==
    ASSUME NEW data
    PROVE  Status(data)[month] = SumOf(data, month)
BY DEF Status, SumOf

(* A question goes to Claude only when the budget has room. *)
LEMMA RouteMindsBudget ==
    ASSUME NEW data, NEW way \in WaysToRoute, NEW complex \in BOOLEAN, NEW bert \in BOOLEAN,
           NEW claude \in RoutePrompt(data, way, complex, bert)
    PROVE  claude \in BOOLEAN /\ (claude => HasRoom(data))
<1>1. HasRoom(data) \in BOOLEAN
  BY DEF HasRoom
<1>2. WeightedChoices(data, complex) \subseteq BOOLEAN
  BY <1>1 DEF WeightedChoices
<1>3. CASE ~HasRoom(data)
  BY <1>3 DEF RoutePrompt
<1>4. CASE HasRoom(data)
  <2>1. claude \in BertChoices(data, complex, bert) \cup HybridChoices(data, complex, bert)
                   \cup WeightedChoices(data, complex)
    BY <1>4 DEF RoutePrompt, WaysToRoute
  <2> QED BY <1>2, <1>4, <2>1 DEF BertChoices, HybridChoices
<1> QED BY <1>3, <1>4

(* update_budget adds the price to the sum of the month and keeps the      *)
(* month, which is the newest.                                             *)
LEMMA ChargedSum ==
    ASSUME BudgetAssumption, month \in Months, NEW data \in SumsOf(1 .. month), NEW cost \in Nat
    PROVE  /\ Charged(data, cost) \in SumsOf(1 .. month)
           /\ SumOf(Charged(data, cost), month) = SumOf(data, month) + cost
<1>1. /\ DOMAIN data \subseteq 1 .. month /\ data \in [DOMAIN data -> Nat]
      /\ SumOf(data, month) \in Nat
  BY SumsTyped
<1>2. month \in Nat \ {0}
  BY DEF Months, BudgetAssumption
<1>3. PICK D : D = DOMAIN data \cup {month}
  OBVIOUS
<1>4. Status(data) \in [D -> Nat]
  BY <1>1, <1>3 DEF Status
<1>5. PICK s : s = [Status(data) EXCEPT ![month] = @ + cost]
  OBVIOUS
<1>6. s \in [D -> Nat] /\ s[month] = SumOf(data, month) + cost
  BY <1>3, <1>4, <1>5, StatusIsSum
<1>7. PICK K : K = {m \in D : Cardinality({n \in D : n > m}) < Kept}
  OBVIOUS
<1>8. Newest(s) = [m \in K |-> s[m]]
  BY <1>6, <1>7 DEF Newest, Restrict
<1>9. {n \in D : n > month} = {}
  BY <1>1, <1>2, <1>3
<1>10. month \in K
  BY <1>3, <1>7, <1>9, FS_EmptySet DEF BudgetAssumption
<1>11. K \subseteq 1 .. month /\ K \subseteq D
  BY <1>1, <1>2, <1>3, <1>7
<1>12. Newest(s) \in [K -> Nat] /\ Newest(s)[month] = s[month]
  BY <1>6, <1>8, <1>10, <1>11
<1>13. Newest(s) \in SumsOf(1 .. month)
  BY <1>11, <1>12 DEF SumsOf
<1>14. SumOf(Newest(s), month) = s[month]
  BY <1>10, <1>12 DEF SumOf
<1>15. Charged(data, cost) = Newest(s)
  BY <1>5 DEF Charged
<1> QED BY <1>6, <1>13, <1>14, <1>15

LEMMA ResetSum ==
    ASSUME NEW months, NEW data \in SumsOf(months), NEW m \in DOMAIN data
    PROVE  /\ [data EXCEPT ![m] = 0] \in SumsOf(months)
           /\ \A n : n # m => SumOf([data EXCEPT ![m] = 0], n) = SumOf(data, n)
<1>1. DOMAIN data \subseteq months /\ data \in [DOMAIN data -> Nat]
  BY SumsTyped
<1>2. PICK s : s = [data EXCEPT ![m] = 0]
  OBVIOUS
<1>3. /\ DOMAIN s = DOMAIN data /\ s \in [DOMAIN data -> Nat]
      /\ \A n \in DOMAIN data : n # m => s[n] = data[n]
  BY <1>1, <1>2
<1>4. s \in SumsOf(months)
  BY <1>1, <1>3, SumsAre
<1> QED BY <1>2, <1>3, <1>4 DEF SumOf

(* One process goes on with its question, in the same month. *)
LEMMA QuestionMoves ==
    ASSUME BudgetAssumption, BudgetInv, NEW a \in Askers, NEW op \in QuestionOf(1 .. month),
           asker' = [asker EXCEPT ![a] = op], month' = month,
           tracker' \in SumsOf(1 .. month), outlay' \in [Months -> Nat],
           \A m \in Months \ {month} : outlay'[m] = outlay[m],
           disturbed \subseteq disturbed', disturbed' \subseteq 1 .. month,
           month \notin disturbed' =>
              /\ \E c \in Costs : outlay'[month] < MonthlyBudget + c
              /\ \A b \in Askers \ {a} : asker[b] = NoQuestion
              /\ op # NoQuestion => QuestionOK(op, tracker', month, outlay'[month])
              /\ op = NoQuestion => SumOf(tracker', month) = outlay'[month]
    PROVE  BudgetInv'
<1>1. asker \in [Askers -> QuestionOf(1 .. month)] /\ month \in Months
  BY DEF BudgetInv, BudgetTyped
<1>2. asker' \in [Askers -> QuestionOf(1 .. month)]
  BY <1>1
<1>3. BudgetTyped'
  BY <1>1, <1>2 DEF BudgetTyped
<1>4. asker'[a] = op /\ \A b \in Askers \ {a} : asker'[b] = asker[b]
  BY <1>1
<1>5. \A m \in Months : m > month' => outlay'[m] = 0
  <2> SUFFICES ASSUME NEW m \in Months, m > month PROVE outlay'[m] = 0
    OBVIOUS
  <2>1. m # month
    BY <1>1 DEF Months, BudgetAssumption
  <2> QED BY <2>1 DEF BudgetInv
<1>6. \A m \in Months \ disturbed' : \E c \in Costs : outlay'[m] < MonthlyBudget + c
  <2> SUFFICES ASSUME NEW m \in Months \ disturbed'
               PROVE  \E c \in Costs : outlay'[m] < MonthlyBudget + c
    OBVIOUS
  <2>1. CASE m = month
    BY <2>1
  <2>2. CASE m # month
    BY <2>2 DEF BudgetInv
  <2> QED BY <2>1, <2>2
<1>7. ASSUME month' \notin disturbed'
      PROVE  /\ \A b, c \in Askers : asker'[b] # NoQuestion /\ asker'[c] # NoQuestion => b = c
             /\ \A b \in Askers : asker'[b] # NoQuestion =>
                   QuestionOK(asker'[b], tracker', month', outlay'[month'])
             /\ (\A b \in Askers : asker'[b] = NoQuestion) =>
                   SumOf(tracker', month') = outlay'[month']
  BY <1>4, <1>7
<1> QED BY <1>3, <1>5, <1>6, <1>7 DEF BudgetInv

(* What is known of a process at a question in a month nothing disturbed. *)
LEMMA AtAQuestion ==
    ASSUME BudgetInv, month \notin disturbed, NEW a \in Askers, asker[a] # NoQuestion
    PROVE  /\ \A b \in Askers \ {a} : asker[b] = NoQuestion
           /\ QuestionOK(asker[a], tracker, month, outlay[month])
           /\ \E c \in Costs : outlay[month] < MonthlyBudget + c
BY DEF BudgetInv, BudgetTyped

LEMMA AtNoQuestion ==
    ASSUME BudgetInv, month \notin disturbed, NEW a \in Askers, asker[a] = NoQuestion, Alone(a)
    PROVE  /\ \A b \in Askers \ {a} : asker[b] = NoQuestion
           /\ SumOf(tracker, month) = outlay[month]
           /\ \E c \in Costs : outlay[month] < MonthlyBudget + c
BY DEF BudgetInv, BudgetTyped, Alone

LEMMA IdleQuestion ==
    ASSUME NEW months
    PROVE  NoQuestion \in QuestionOf(months)
BY DEF QuestionOf

LEMMA MonthIsUpToNow ==
    ASSUME BudgetAssumption, month \in Months
    PROVE  month \in 1 .. month /\ month \in Nat \ {0}
BY DEF Months, BudgetAssumption

LEMMA AskKeeps ==
    ASSUME BudgetAssumption, BudgetInv, NEW a \in Askers, Ask(a)
    PROVE  BudgetInv'
<1>1. PICK way \in WaysToRoute, complex \in BOOLEAN, bert \in BOOLEAN, cost \in Costs :
         \E claude \in RoutePrompt(tracker, way, complex, bert) :
             Now(a, Question(tracker, claude, cost))
  BY DEF Ask
<1>2. PICK claude \in RoutePrompt(tracker, way, complex, bert) :
         Now(a, Question(tracker, claude, cost))
  BY <1>1
<1>3. claude \in BOOLEAN /\ (claude => HasRoom(tracker))
  BY RouteMindsBudget
<1>4. PICK pc \in {"claude", "ollama"} :
         pc = (IF claude THEN "claude" ELSE "ollama") /\ (pc = "claude" => claude)
  BY <1>3
<1>5. PICK room \in BOOLEAN : room = HasRoom(tracker)
  <2>1. HasRoom(tracker) \in BOOLEAN
    BY DEF HasRoom
  <2> QED BY <2>1
<1>6. PICK op : op = [pc |-> pc, cost |-> cost, room |-> room]
  OBVIOUS
<1>7. asker' = [asker EXCEPT ![a] = op]
  BY <1>2, <1>4, <1>5, <1>6 DEF Now, Question
<1>8. op \in QuestionOf(1 .. month) /\ op # NoQuestion /\ op.pc = pc /\ op.room = room
  BY <1>6 DEF QuestionOf, NoQuestion
<1>9. /\ asker[a] = NoQuestion /\ month' = month /\ tracker' = tracker /\ outlay' = outlay
      /\ disturbed' = disturbed \cup (IF Alone(a) THEN {} ELSE {month})
  BY DEF Ask, Disturbs
<1>10. month \in 1 .. month /\ month \in Months /\ disturbed \subseteq 1 .. month
  BY MonthIsUpToNow DEF BudgetInv, BudgetTyped
<1>11. disturbed \subseteq disturbed' /\ disturbed' \subseteq 1 .. month
  BY <1>9, <1>10
<1>12. ASSUME month \notin disturbed'
       PROVE  /\ \E c \in Costs : outlay'[month] < MonthlyBudget + c
              /\ \A b \in Askers \ {a} : asker[b] = NoQuestion
              /\ QuestionOK(op, tracker', month, outlay'[month])
  <2>1. Alone(a) /\ month \notin disturbed
    BY <1>9, <1>12
  <2>2. SumOf(tracker, month) = outlay[month]
    BY <1>9, <2>1, AtNoQuestion
  <2>3. HasRoom(tracker) => outlay[month] < MonthlyBudget
    BY <2>2, StatusIsSum DEF HasRoom
  <2>4. QuestionOK(op, tracker, month, outlay[month])
    BY <1>3, <1>4, <1>5, <1>8, <2>2, <2>3 DEF QuestionOK
  <2> QED BY <1>9, <2>1, <2>4, AtNoQuestion
<1>13. tracker' \in SumsOf(1 .. month) /\ outlay' \in [Months -> Nat]
  BY <1>9 DEF BudgetInv, BudgetTyped
<1> QED BY <1>7, <1>8, <1>9, <1>11, <1>12, <1>13, QuestionMoves

LEMMA CallClaudeKeeps ==
    ASSUME BudgetAssumption, BudgetInv, NEW a \in Askers, CallClaude(a)
    PROVE  BudgetInv'
<1>1. PICK q : q = asker[a]
  OBVIOUS
<1>2. q.pc = "claude" /\ q \in QuestionOf(1 .. month)
  BY <1>1 DEF CallClaude, BudgetInv, BudgetTyped
<1>3. q \in [pc : {"ollama", "claude"}, cost : Costs, room : BOOLEAN]
  BY <1>2 DEF QuestionOf, NoQuestion
<1>4. PICK cost \in Costs : cost = q.cost
  BY <1>3
<1>5. /\ asker[a] # NoQuestion /\ month' = month /\ tracker' = tracker
      /\ tracker' \in SumsOf(1 .. month)
  BY <1>1, <1>2 DEF CallClaude, NoQuestion, BudgetInv, BudgetTyped
<1>6. /\ month \in 1 .. month /\ month \in Months /\ disturbed \subseteq 1 .. month
      /\ outlay \in [Months -> Nat] /\ outlay[month] \in Nat /\ MonthlyBudget \in Nat
      /\ cost \in Nat
  BY MonthIsUpToNow DEF BudgetInv, BudgetTyped, BudgetAssumption
<1>7. month \notin disturbed =>
         /\ \A b \in Askers \ {a} : asker[b] = NoQuestion
         /\ SumOf(tracker, month) = outlay[month] /\ outlay[month] < MonthlyBudget
         /\ \E c \in Costs : outlay[month] < MonthlyBudget + c
  BY <1>1, <1>2, <1>5, AtAQuestion DEF QuestionOK
<1>8. CASE Pay(cost) /\ Now(a, [pc |-> "charge", cost |-> cost]) /\ UNCHANGED disturbed
  <2>1. PICK op : op = [pc |-> "charge", cost |-> cost]
    OBVIOUS
  <2>2. op \in QuestionOf(1 .. month) /\ op # NoQuestion /\ op.pc = "charge" /\ op.cost = cost
    BY <2>1 DEF QuestionOf, NoQuestion
  <2>3. outlay' = [outlay EXCEPT ![month] = outlay[month] + cost]
    BY <1>8 DEF Pay
  <2>4. /\ outlay' \in [Months -> Nat] /\ outlay'[month] = outlay[month] + cost
        /\ \A m \in Months \ {month} : outlay'[m] = outlay[m]
    BY <1>6, <2>3
  <2>5. month \notin disturbed => QuestionOK(op, tracker, month, outlay'[month])
    BY <1>7, <2>2, <2>4 DEF QuestionOK
  <2>6. month \notin disturbed => outlay'[month] < MonthlyBudget + cost
    BY <1>6, <1>7, <2>4
  <2>7. asker' = [asker EXCEPT ![a] = op]
    BY <1>8, <2>1 DEF Now
  <2> QED BY <1>5, <1>6, <1>7, <1>8, <2>2, <2>4, <2>5, <2>6, <2>7, QuestionMoves
<1>9. CASE Pay(cost) /\ Now(a, NoQuestion) /\ Disturbs({month})
  <2>1. outlay' = [outlay EXCEPT ![month] = outlay[month] + cost]
    BY <1>9 DEF Pay
  <2>2. outlay' \in [Months -> Nat] /\ \A m \in Months \ {month} : outlay'[m] = outlay[m]
    BY <1>6, <2>1
  <2>3. month \in disturbed' /\ disturbed \subseteq disturbed' /\ disturbed' \subseteq 1 .. month
    BY <1>6, <1>9 DEF Disturbs
  <2>4. asker' = [asker EXCEPT ![a] = NoQuestion]
    BY <1>9 DEF Now
  <2> QED BY <1>5, <2>2, <2>3, <2>4, IdleQuestion, QuestionMoves
<1>10. CASE Now(a, NoQuestion) /\ UNCHANGED <<outlay, disturbed>>
  <2>1. asker' = [asker EXCEPT ![a] = NoQuestion]
    BY <1>10 DEF Now
  <2> QED BY <1>5, <1>6, <1>7, <1>10, <2>1, IdleQuestion, QuestionMoves
<1> QED BY <1>1, <1>4, <1>8, <1>9, <1>10 DEF CallClaude

LEMMA CallOllamaKeeps ==
    ASSUME BudgetAssumption, BudgetInv, NEW a \in Askers, CallOllama(a)
    PROVE  BudgetInv'
<1>1. PICK q : q = asker[a]
  OBVIOUS
<1>2. q.pc = "ollama" /\ q \in QuestionOf(1 .. month)
  BY <1>1 DEF CallOllama, BudgetInv, BudgetTyped
<1>3. q \in [pc : {"ollama", "claude"}, cost : Costs, room : BOOLEAN]
  BY <1>2 DEF QuestionOf, NoQuestion
<1>4. /\ asker[a] # NoQuestion /\ month' = month /\ tracker' = tracker /\ outlay' = outlay
      /\ tracker' \in SumsOf(1 .. month) /\ outlay' \in [Months -> Nat]
  BY <1>1, <1>2 DEF CallOllama, NoQuestion, BudgetInv, BudgetTyped
<1>5. /\ month \in 1 .. month /\ month \in Months /\ disturbed \subseteq 1 .. month
      /\ outlay[month] \in Nat
  BY MonthIsUpToNow DEF BudgetInv, BudgetTyped
<1>6. month \notin disturbed =>
         /\ \A b \in Askers \ {a} : asker[b] = NoQuestion
         /\ SumOf(tracker, month) = outlay[month] /\ (q.room => outlay[month] < MonthlyBudget)
         /\ \E c \in Costs : outlay[month] < MonthlyBudget + c
  BY <1>1, <1>2, <1>4, AtAQuestion DEF QuestionOK
<1>7. CASE Now(a, [pc |-> "charge", cost |-> 0]) /\ UNCHANGED disturbed
  <2>1. PICK op : op = [pc |-> "charge", cost |-> 0]
    OBVIOUS
  <2>2. op \in QuestionOf(1 .. month) /\ op # NoQuestion /\ op.pc = "charge" /\ op.cost = 0
    BY <2>1 DEF QuestionOf, NoQuestion
  <2>3. month \notin disturbed => QuestionOK(op, tracker, month, outlay[month])
    BY <1>5, <1>6, <2>2 DEF QuestionOK
  <2>4. asker' = [asker EXCEPT ![a] = op]
    BY <1>7, <2>1 DEF Now
  <2> QED BY <1>4, <1>5, <1>6, <1>7, <2>2, <2>3, <2>4, QuestionMoves
<1>8. CASE Now(a, [q EXCEPT !.pc = "claude"]) /\ Disturbs(IF q.room THEN {} ELSE {month})
  <2>1. PICK op : op = [q EXCEPT !.pc = "claude"]
    OBVIOUS
  <2>2. /\ op \in [pc : {"ollama", "claude"}, cost : Costs, room : BOOLEAN]
        /\ op.pc = "claude" /\ op.room = q.room
    BY <1>3, <2>1
  <2>3. op \in QuestionOf(1 .. month) /\ op # NoQuestion
    BY <2>2 DEF QuestionOf, NoQuestion
  <2>4. /\ disturbed \subseteq disturbed' /\ disturbed' \subseteq 1 .. month
        /\ month \notin disturbed' => q.room
    BY <1>5, <1>8 DEF Disturbs
  <2>5. month \notin disturbed' => QuestionOK(op, tracker, month, outlay[month])
    BY <1>6, <2>2, <2>4 DEF QuestionOK
  <2>6. asker' = [asker EXCEPT ![a] = op]
    BY <1>8, <2>1 DEF Now
  <2>7. month \notin disturbed' => month \notin disturbed
    BY <2>4
  <2> QED BY <1>4, <1>6, <2>3, <2>4, <2>5, <2>6, <2>7, QuestionMoves
<1> QED BY <1>1, <1>7, <1>8 DEF CallOllama

LEMMA ReadTrackerKeeps ==
    ASSUME BudgetAssumption, BudgetInv, NEW a \in Askers, ReadTracker(a)
    PROVE  BudgetInv'
<1>1. PICK q : q = asker[a]
  OBVIOUS
<1>2. q.pc = "charge" /\ q \in QuestionOf(1 .. month)
  BY <1>1 DEF ReadTracker, BudgetInv, BudgetTyped
<1>3. q.cost \in Nat
  <2>1. q \in [pc : {"charge"}, cost : Costs \cup {0}]
    BY <1>2 DEF QuestionOf, NoQuestion
  <2>2. q.cost \in Costs \cup {0}
    BY <2>1
  <2>3. \A k \in Costs \cup {0} : k \in Nat
    BY DEF BudgetAssumption
  <2> QED BY <2>2, <2>3
<1>4. /\ asker[a] # NoQuestion /\ month' = month /\ tracker' = tracker /\ outlay' = outlay
      /\ tracker \in SumsOf(1 .. month) /\ outlay' \in [Months -> Nat]
      /\ disturbed' = disturbed /\ disturbed \subseteq 1 .. month /\ month \in Months
  BY <1>1, <1>2 DEF ReadTracker, NoQuestion, BudgetInv, BudgetTyped
<1>5. month \notin disturbed =>
         /\ \A b \in Askers \ {a} : asker[b] = NoQuestion
         /\ SumOf(tracker, month) + q.cost = outlay[month]
         /\ \E c \in Costs : outlay[month] < MonthlyBudget + c
  BY <1>1, <1>2, <1>4, AtAQuestion DEF QuestionOK
<1>6. PICK data : data = Charged(tracker, q.cost)
  OBVIOUS
<1>7. data \in SumsOf(1 .. month) /\ SumOf(data, month) = SumOf(tracker, month) + q.cost
  BY <1>3, <1>4, <1>6, ChargedSum
<1>8. PICK op : op = [pc |-> "empty", data |-> data]
  OBVIOUS
<1>9. op \in QuestionOf(1 .. month) /\ op # NoQuestion /\ op.pc = "empty" /\ op.data = data
  BY <1>7, <1>8 DEF QuestionOf, NoQuestion
<1>10. asker' = [asker EXCEPT ![a] = op]
  BY <1>1, <1>6, <1>8 DEF ReadTracker, Now
<1>11. month \notin disturbed => QuestionOK(op, tracker, month, outlay[month])
  BY <1>5, <1>7, <1>9 DEF QuestionOK
<1> QED BY <1>4, <1>5, <1>9, <1>10, <1>11, QuestionMoves

LEMMA FileWriteKeeps ==
    ASSUME BudgetAssumption, BudgetInv, NEW a \in Askers, EmptyTracker(a) \/ WriteTracker(a)
    PROVE  BudgetInv'
<1>1. PICK q : q = asker[a]
  OBVIOUS
<1>2. q.pc \in {"empty", "write"} /\ q \in QuestionOf(1 .. month)
  BY <1>1 DEF EmptyTracker, WriteTracker, BudgetInv, BudgetTyped
<1>3. q \in [pc : {"empty", "write"}, data : SumsOf(1 .. month)]
  BY <1>2 DEF QuestionOf, NoQuestion
<1>4. /\ asker[a] # NoQuestion /\ month' = month /\ outlay' = outlay
      /\ outlay' \in [Months -> Nat]
      /\ disturbed' = disturbed /\ disturbed \subseteq 1 .. month
  BY <1>1, <1>2 DEF EmptyTracker, WriteTracker, NoQuestion, BudgetInv, BudgetTyped
<1>5. month \notin disturbed =>
         /\ \A b \in Askers \ {a} : asker[b] = NoQuestion
         /\ SumOf(q.data, month) = outlay[month]
         /\ \E c \in Costs : outlay[month] < MonthlyBudget + c
  BY <1>1, <1>2, <1>4, AtAQuestion DEF QuestionOK
<1>6. CASE EmptyTracker(a)
  <2>1. PICK op : op = [q EXCEPT !.pc = "write"]
    OBVIOUS
  <2>2. /\ op \in [pc : {"empty", "write"}, data : SumsOf(1 .. month)]
        /\ op.pc = "write" /\ op.data = q.data
    BY <1>3, <2>1
  <2>3. op \in QuestionOf(1 .. month) /\ op # NoQuestion
    BY <2>2 DEF QuestionOf, NoQuestion
  <2>4. asker' = [asker EXCEPT ![a] = op] /\ tracker' = NoFile
    BY <1>1, <1>6, <2>1 DEF EmptyTracker, Now
  <2>5. month \notin disturbed => QuestionOK(op, tracker', month, outlay[month])
    BY <1>5, <2>2 DEF QuestionOK
  <2> QED BY <1>4, <1>5, <2>3, <2>4, <2>5, EmptyFileSums, QuestionMoves
<1>7. CASE WriteTracker(a)
  <2>1. asker' = [asker EXCEPT ![a] = NoQuestion] /\ tracker' = q.data
    BY <1>1, <1>7 DEF WriteTracker, Now
  <2>2. tracker' \in SumsOf(1 .. month)
    BY <1>3, <2>1
  <2> QED BY <1>4, <1>5, <2>1, <2>2, IdleQuestion, QuestionMoves
<1> QED BY <1>6, <1>7

LEMMA ResetKeeps ==
    ASSUME BudgetAssumption, BudgetInv, NEW a \in Askers, NEW m \in Months, ResetBudget(a, m)
    PROVE  BudgetInv'
<1>1. PICK data : data = [tracker EXCEPT ![m] = 0]
  OBVIOUS
<1>2. /\ asker[a] = NoQuestion /\ month' = month /\ tracker' = tracker /\ outlay' = outlay
      /\ tracker \in SumsOf(1 .. month) /\ outlay' \in [Months -> Nat]
      /\ disturbed \subseteq 1 .. month /\ month \in 1 .. month /\ m \in DOMAIN tracker
      /\ disturbed' = disturbed \cup {m} \cup (IF Alone(a) THEN {} ELSE {month})
  BY MonthIsUpToNow DEF ResetBudget, BudgetInv, BudgetTyped, Disturbs
<1>3. /\ data \in SumsOf(1 .. month) /\ m \in 1 .. month
      /\ month # m => SumOf(data, month) = SumOf(tracker, month)
  <2>1. /\ data \in SumsOf(1 .. month)
        /\ \A n : n # m => SumOf(data, n) = SumOf(tracker, n)
    BY <1>1, <1>2, ResetSum
  <2> QED BY <1>2, <2>1, SumsTyped
<1>4. PICK op : op = [pc |-> "empty", data |-> data]
  OBVIOUS
<1>5. op \in QuestionOf(1 .. month) /\ op # NoQuestion /\ op.pc = "empty" /\ op.data = data
  BY <1>3, <1>4 DEF QuestionOf, NoQuestion
<1>6. asker' = [asker EXCEPT ![a] = op]
  BY <1>1, <1>4 DEF ResetBudget, Now
<1>7. disturbed \subseteq disturbed' /\ disturbed' \subseteq 1 .. month
  BY <1>2, <1>3
<1>8. ASSUME month \notin disturbed'
      PROVE  /\ \E c \in Costs : outlay'[month] < MonthlyBudget + c
             /\ \A b \in Askers \ {a} : asker[b] = NoQuestion
             /\ QuestionOK(op, tracker', month, outlay'[month])
  <2>1. Alone(a) /\ month \notin disturbed /\ month # m
    BY <1>2, <1>8
  <2>2. SumOf(data, month) = outlay[month]
    BY <1>2, <1>3, <2>1, AtNoQuestion
  <2>3. QuestionOK(op, tracker', month, outlay'[month])
    BY <1>2, <1>5, <2>2 DEF QuestionOK
  <2> QED BY <1>2, <2>1, <2>3, AtNoQuestion
<1> QED BY <1>2, <1>5, <1>6, <1>7, <1>8, QuestionMoves

LEMMA AskerDeathKeeps ==
    ASSUME BudgetAssumption, BudgetInv, NEW a \in Askers, AskerDies(a)
    PROVE  BudgetInv'
<1>1. PICK q : q = asker[a]
  OBVIOUS
<1>2. /\ asker[a] # NoQuestion /\ month' = month /\ tracker' = tracker /\ outlay' = outlay
      /\ tracker' \in SumsOf(1 .. month) /\ outlay' \in [Months -> Nat]
      /\ disturbed \subseteq 1 .. month /\ month \in 1 .. month
      /\ disturbed' = disturbed
            \cup (IF q.pc \in {"charge", "empty", "write"} THEN {month} ELSE {})
      /\ q \in QuestionOf(1 .. month)
  BY <1>1, MonthIsUpToNow DEF AskerDies, BudgetInv, BudgetTyped, Disturbs
<1>3. q.pc \in {"ollama", "claude", "charge", "empty", "write"}
  BY <1>1, <1>2 DEF QuestionOf, NoQuestion
<1>4. asker' = [asker EXCEPT ![a] = NoQuestion]
  BY DEF AskerDies, Now
<1>5. disturbed \subseteq disturbed' /\ disturbed' \subseteq 1 .. month
  BY <1>2
<1>6. ASSUME month \notin disturbed'
      PROVE  /\ \E c \in Costs : outlay'[month] < MonthlyBudget + c
             /\ \A b \in Askers \ {a} : asker[b] = NoQuestion
             /\ SumOf(tracker', month) = outlay'[month]
  <2>1. q.pc \in {"ollama", "claude"} /\ month \notin disturbed
    BY <1>2, <1>3, <1>6
  <2> QED BY <1>1, <1>2, <2>1, AtAQuestion DEF QuestionOK
<1> QED BY <1>2, <1>4, <1>5, <1>6, IdleQuestion, QuestionMoves

(* The sum of a new month starts with nothing, in the file and in truth.   *)
LEMMA MonthPassesKeeps ==
    ASSUME BudgetAssumption, BudgetInv, MonthPasses
    PROVE  BudgetInv'
<1>1. /\ month \in Months /\ month \in Nat \ {0} /\ month < LastMonth /\ month' = month + 1
      /\ LastMonth \in Nat /\ tracker' = tracker /\ asker' = asker /\ outlay' = outlay
      /\ tracker \in SumsOf(1 .. month) /\ disturbed \subseteq 1 .. month
      /\ outlay \in [Months -> Nat] /\ MonthlyBudget \in Nat \ {0}
      /\ asker \in [Askers -> QuestionOf(1 .. month)]
  BY MonthIsUpToNow DEF MonthPasses, BudgetInv, BudgetTyped, BudgetAssumption
<1>2. disturbed' = disturbed
         \cup (IF \A a \in Askers : asker[a] = NoQuestion THEN {} ELSE {month, month + 1})
  BY DEF MonthPasses, Disturbs
<1>3. month' \in Months /\ 1 .. month \subseteq 1 .. month' /\ month + 1 \in 1 .. month'
      /\ month' \notin 1 .. month /\ month \in 1 .. month'
  BY <1>1 DEF Months
<1>4. QuestionOf(1 .. month) \subseteq QuestionOf(1 .. month')
  <2>1. SumsOf(1 .. month) \subseteq SumsOf(1 .. month')
    BY <1>1, MoreMonths
  <2> QED BY <2>1 DEF QuestionOf
<1>5. BudgetTyped'
  <2>1. tracker' \in SumsOf(1 .. month')
    BY <1>1, MoreMonths
  <2>2. disturbed' \subseteq 1 .. month'
    BY <1>1, <1>2, <1>3
  <2>3. asker' \in [Askers -> QuestionOf(1 .. month')]
    BY <1>1, <1>4
  <2> QED BY <1>1, <1>3, <2>1, <2>2, <2>3 DEF BudgetTyped, Months
<1>6. \A m \in Months : m > month' => outlay'[m] = 0
  <2> SUFFICES ASSUME NEW m \in Months, m > month' PROVE outlay'[m] = 0
    OBVIOUS
  <2>1. m > month
    BY <1>1 DEF Months
  <2> QED BY <1>1, <2>1 DEF BudgetInv
<1>7. \A m \in Months \ disturbed' : \E c \in Costs : outlay'[m] < MonthlyBudget + c
  BY <1>1, <1>2 DEF BudgetInv
<1>8. ASSUME month' \notin disturbed'
      PROVE  /\ \A a \in Askers : asker'[a] = NoQuestion
             /\ SumOf(tracker', month') = outlay'[month']
  <2>1. \A a \in Askers : asker[a] = NoQuestion
    BY <1>1, <1>2, <1>8
  <2>2. outlay[month'] = 0
    BY <1>1, <1>3 DEF BudgetInv
  <2>3. month' \notin DOMAIN tracker
    BY <1>1, <1>3, SumsTyped
  <2> QED BY <1>1, <2>1, <2>2, <2>3 DEF SumOf
<1> QED BY <1>5, <1>6, <1>7, <1>8 DEF BudgetInv

LEMMA BudgetInitially ==
    ASSUME BudgetAssumption, BudgetInit
    PROVE  BudgetInv
<1>1. 1 \in Months /\ MonthlyBudget \in Nat \ {0}
  BY DEF Months, BudgetAssumption
<1>2. asker \in [Askers -> QuestionOf(1 .. month)] /\ \A a \in Askers : asker[a] = NoQuestion
  BY IdleQuestion DEF BudgetInit
<1>3. outlay \in [Months -> Nat] /\ \A m \in Months : outlay[m] = 0
  BY DEF BudgetInit
<1>4. tracker \in SumsOf(1 .. month) /\ SumOf(tracker, month) = 0
  BY EmptyFileSums DEF BudgetInit
<1>5. BudgetTyped
  BY <1>1, <1>2, <1>3, <1>4 DEF BudgetTyped, BudgetInit
<1>6. \A m \in Months : \E c \in Costs : outlay[m] < MonthlyBudget + c
  <2>1. PICK c \in Costs : c \in Nat
    BY DEF BudgetAssumption
  <2>2. 0 < MonthlyBudget + c
    BY <1>1, <2>1
  <2> QED BY <1>3, <2>2
<1>7. month \in Months
  BY <1>1 DEF BudgetInit
<1> QED BY <1>2, <1>3, <1>4, <1>5, <1>6, <1>7 DEF BudgetInv

LEMMA BudgetStep ==
    ASSUME BudgetAssumption, BudgetInv, [BudgetNext]_budgetVars
    PROVE  BudgetInv'
<1>1. CASE UNCHANGED budgetVars
  BY <1>1 DEF budgetVars, BudgetInv, BudgetTyped
<1> QED BY <1>1, AskKeeps, CallClaudeKeeps, CallOllamaKeeps, ReadTrackerKeeps, FileWriteKeeps,
           ResetKeeps, AskerDeathKeeps, MonthPassesKeeps DEF BudgetNext

LEMMA BudgetTypes ==
    ASSUME BudgetAssumption, BudgetInv
    PROVE  BudgetTypeOK
<1>1. month \in Months /\ 1 .. month \subseteq Months
  BY DEF BudgetInv, BudgetTyped, Months, BudgetAssumption
<1>2. DOMAIN tracker \subseteq 1 .. month
  BY SumsTyped DEF BudgetInv, BudgetTyped
<1>3. \A a \in Askers : asker[a].pc \in
           {"idle", "claude", "ollama", "charge", "empty", "write"}
  BY DEF BudgetInv, BudgetTyped, QuestionOf, NoQuestion
<1> QED BY <1>1, <1>2, <1>3 DEF BudgetInv, BudgetTyped, BudgetTypeOK

(* The monthly budget is overdrawn by less than one question, and the      *)
(* tracker has what was paid, in every month none of the accidents the     *)
(* property names disturbed: however many processes, months and questions. *)
THEOREM BudgetAlwaysHolds ==
    ASSUME BudgetAssumption
    PROVE  BudgetSpec => []BudgetHolds
<1>1. BudgetInit => BudgetInv
  BY BudgetInitially
<1>2. BudgetInv /\ [BudgetNext]_budgetVars => BudgetInv'
  BY BudgetStep
<1>3. BudgetInv => BudgetHolds
  BY StatusIsSum DEF BudgetInv, BudgetHolds
<1> QED BY <1>1, <1>2, <1>3, PTL DEF BudgetSpec
-----------------------------------------------------------------------------
(* Links between documents.  Every file, and every copy a thread is about  *)
(* to write over one, keeps what authors wrote and adds only what answers  *)
(* a link of another author.                                               *)

BackFields == {"refinedFrom", "refinedIn", "validates"}

ForwardOf(f) == CASE f = "refinedFrom" -> "refinedIn"
                [] f = "refinedIn"   -> "refinedFrom"
                [] f = "validates"   -> "validatedBy"

Todos == [BackFields -> SUBSET Docs]

LinkerOps ==
    {Resting}
    \cup [pc : {"find"}, doc : Docs, todo : Todos]
    \cup [pc : {"read"}, doc : Docs, todo : Todos, field : BackFields, target : Docs]
    \cup [pc : {"empty", "write"}, doc : Docs, todo : Todos, field : BackFields,
          target : Docs, file : Frontmatter]

(* The author of document d wrote link s into field f. *)
Wrote(lib, d, f, s) == lib[d] # NoFrontmatter /\ s \in lib[d][f]

(* A file of document d, on disk or about to be. *)
FileKept(lib, d, file) ==
    /\ lib[d] # NoFrontmatter
    /\ \A f \in LinkFields : lib[d][f] \subseteq file[f]
    /\ \A f \in LinkFields : \A s \in file[f] \ lib[d][f] :
          f \in BackFields /\ Wrote(lib, s, ForwardOf(f), d)

OpKept(lib, op) ==
    op # Resting =>
        /\ \A f \in BackFields : \A t \in op.todo[f] :
              Wrote(lib, op.doc, ForwardOf(f), t) \/ Wrote(lib, t, f, op.doc)
        /\ op.pc # "find" => op.target \in op.todo[op.field]
        /\ op.pc \in {"empty", "write"} =>
              FileKept(lib, op.target, op.file) /\ op.doc \in op.file[op.field]

LinksKept(lib, ds, ln) ==
    /\ lib \in [Docs -> Frontmatter \cup {NoFrontmatter}]
    /\ ds \in [Docs -> Frontmatter \cup {NoFrontmatter}]
    /\ ln \in [LinkWorkers -> LinkerOps]
    /\ \A d \in Docs : ds[d] # NoFrontmatter => FileKept(lib, d, ds[d])
    /\ \A w \in LinkWorkers : OpKept(lib, ln[w])

LinksInv ==
    /\ LinksKept(authored, docs, linker)
    /\ waiting \subseteq scope /\ scope \subseteq Docs

(* While an update runs: the files of a document are the one on disk and   *)
(* the copies threads made of it, and a document is there when it can be   *)
(* read or a thread has emptied it to write it.                            *)

Touchers(ln, d) == {w \in LinkWorkers : ln[w].pc \in {"empty", "write"} /\ ln[w].target = d}

Files(ds, ln, d) ==
    ({ds[d]} \ {NoFrontmatter}) \cup {ln[w].file : w \in Touchers(ln, d)}

There(ds, ln, d) ==
    \/ ds[d] # NoFrontmatter
    \/ \E w \in LinkWorkers : ln[w].pc = "write" /\ ln[w].target = d

(* The backlink in field f of t to d: a thread still has it to write, or   *)
(* every file of t has it (and a test may be missing).                     *)
Owed(ln, d, f, t) ==
    \E w \in LinkWorkers : ln[w] # Resting /\ ln[w].doc = d /\ t \in ln[w].todo[f]

BacklinkThere(ds, ln, d, f, t) ==
    /\ f # "validates" => There(ds, ln, t)
    /\ \A file \in Files(ds, ln, t) : d \in file[f]

UpdateInv ==
    /\ \A w \in LinkWorkers : linker[w] # Resting =>
          /\ linker[w].doc \in scope \ waiting
          /\ There(docs, linker, linker[w].doc)
          /\ linker[w].pc # "find" => There(docs, linker, linker[w].target)
    /\ \A d \in scope \ (waiting \cup failed) : There(docs, linker, d)
    /\ \A d \in Docs \ raced : \A v, w \in Touchers(linker, d) : v = w
    /\ \A d \in Docs : \A one, other \in Files(docs, linker, d) :
          \A f \in LinkFields : \A t \in one[f] \ other[f] : There(docs, linker, t)
    /\ \A d \in scope \ (waiting \cup failed) : \A t \in Docs \ raced :
          \A f \in BackFields : \A file \in Files(docs, linker, d) :
             t \in file[ForwardOf(f)] => Owed(linker, d, f, t) \/ BacklinkThere(docs, linker, d, f, t)
(* The operators the steps of a thread are made of. *)

LEMMA BacklinksAre ==
    ASSUME NEW links \in Frontmatter
    PROVE  /\ Backlinks(links) \in Todos
           /\ \A f \in BackFields : Backlinks(links)[f] = links[ForwardOf(f)]
BY DEF Backlinks, Todos, BackFields, Frontmatter, LinkFields, ForwardOf

LEMMA BackFieldsAre ==
    /\ BackFields \subseteq LinkFields
    /\ \A f \in BackFields :
          /\ ForwardOf(f) \in LinkFields
          /\ ForwardOf(f) \in BackFields => f # "validates" /\ ForwardOf(ForwardOf(f)) = f
BY DEF BackFields, LinkFields, ForwardOf

LEMMA PendingAre ==
    ASSUME NEW todo \in Todos
    PROVE  /\ NextBacklinks(todo) \subseteq Pending(todo)
           /\ \A b \in Pending(todo) : b[1] \in BackFields /\ b[2] \in todo[b[1]] /\ b[2] \in Docs
           /\ Pending(todo) = {} => \A f \in BackFields : todo[f] = {}
<1>1. NextBacklinks(todo) \subseteq Pending(todo)
  BY DEF NextBacklinks
<1>2. \A b \in Pending(todo) : b[1] \in BackFields /\ b[2] \in todo[b[1]] /\ b[2] \in Docs
  BY DEF Pending, BackFields
<1>3. ASSUME NEW f \in BackFields, NEW t \in todo[f]
      PROVE  Pending(todo) # {}
  <2>1. t \in Docs
    BY DEF Todos
  <2>2. <<f, t>> \in Pending(todo)
    BY <2>1 DEF Pending, BackFields
  <2> QED BY <2>2
<1> QED BY <1>1, <1>2, <1>3

(* What a thread is at, by its step. *)
LEMMA LinkerOpsAre ==
    ASSUME NEW op \in LinkerOps
    PROVE  /\ op = Resting <=> op.pc = "idle"
           /\ op.pc \in {"idle", "find", "read", "empty", "write"}
           /\ op.pc # "idle" => op.doc \in Docs /\ op.todo \in Todos
           /\ op.pc \in {"read", "empty", "write"} => op.field \in BackFields /\ op.target \in Docs
           /\ op.pc \in {"empty", "write"} => op.file \in Frontmatter
BY DEF LinkerOps, Resting

LEMMA UpdateIs ==
    ASSUME NEW d \in Docs, NEW todo \in Todos
    PROVE  /\ Update(d, todo) \in LinkerOps
           /\ \/ Update(d, todo) = Resting /\ \A f \in BackFields : todo[f] = {}
              \/ /\ Update(d, todo) # Resting /\ Update(d, todo).pc = "find"
                 /\ Update(d, todo).doc = d /\ Update(d, todo).todo = todo
<1>1. CASE Pending(todo) = {}
  <2>1. Update(d, todo) = Resting
    BY <1>1 DEF Update
  <2> QED BY <1>1, <2>1, PendingAre DEF LinkerOps
<1>2. CASE Pending(todo) # {}
  <2>1. PICK new : new = [pc |-> "find", doc |-> d, todo |-> todo]
    OBVIOUS
  <2>2. Update(d, todo) = new
    BY <1>2, <2>1 DEF Update
  <2>3. new \in LinkerOps /\ new.pc = "find" /\ new.doc = d /\ new.todo = todo
    BY <2>1 DEF LinkerOps
  <2> QED BY <2>2, <2>3, LinkerOpsAre
<1> QED BY <1>1, <1>2

LEMMA DoneIs ==
    ASSUME NEW op, op.doc \in Docs, op.todo \in Todos, op.field \in BackFields
    PROVE  /\ Done(op) \in LinkerOps /\ Done(op).pc \in {"idle", "find"}
           /\ Done(op) # Resting =>
                 /\ Done(op).doc = op.doc
                 /\ \A f \in BackFields : Done(op).todo[f] \subseteq op.todo[f]
           /\ \A f \in BackFields : \A t \in op.todo[f] :
                 ~(f = op.field /\ t = op.target) =>
                    Done(op) # Resting /\ Done(op).doc = op.doc /\ t \in Done(op).todo[f]
<1>1. PICK old, g, x, d : old = op.todo /\ g = op.field /\ x = op.target /\ d = op.doc
  OBVIOUS
<1>2. PICK todo : todo = [old EXCEPT ![g] = @ \ {x}]
  OBVIOUS
<1>3. /\ todo \in Todos
      /\ \A f \in BackFields : \A t : t \in todo[f] <=> (t \in old[f] /\ ~(f = g /\ t = x))
  BY <1>1, <1>2 DEF Todos
<1>4. Done(op) = Update(d, todo)
  BY <1>1, <1>2 DEF Done
<1>5. PICK new : new = Update(d, todo)
  OBVIOUS
<1>6. /\ new \in LinkerOps
      /\ \/ new = Resting /\ \A f \in BackFields : todo[f] = {}
         \/ new # Resting /\ new.pc = "find" /\ new.doc = d /\ new.todo = todo
  BY <1>1, <1>3, <1>5, UpdateIs
<1>7. new.pc \in {"idle", "find"}
  BY <1>6 DEF Resting
<1> QED BY <1>1, <1>3, <1>4, <1>5, <1>6, <1>7

LEMMA DoneIsKept ==
    ASSUME NEW lib, NEW op, op.doc \in Docs, op.todo \in Todos, op.field \in BackFields,
           \A f \in BackFields : \A t \in op.todo[f] :
              Wrote(lib, op.doc, ForwardOf(f), t) \/ Wrote(lib, t, f, op.doc)
    PROVE  OpKept(lib, Done(op))
<1>1. PICK new : new = Done(op)
  OBVIOUS
<1>2. /\ new.pc \in {"idle", "find"} /\ new \in LinkerOps
      /\ new # Resting => new.doc = op.doc /\ \A f \in BackFields : new.todo[f] \subseteq op.todo[f]
  BY <1>1, DoneIs
<1>3. new # Resting => new.pc = "find"
  BY <1>2, LinkerOpsAre
<1>4. ASSUME new # Resting, NEW f \in BackFields, NEW t \in new.todo[f]
      PROVE  Wrote(lib, new.doc, ForwardOf(f), t) \/ Wrote(lib, t, f, new.doc)
  BY <1>2, <1>4
<1>5. OpKept(lib, new)
  BY <1>3, <1>4 DEF OpKept
<1> QED BY <1>1, <1>5

(* Every file of a document is kept, the copies too. *)
LEMMA FilesAreKept ==
    ASSUME NEW lib, NEW ds, NEW ln, LinksKept(lib, ds, ln), NEW d \in Docs,
           NEW file \in Files(ds, ln, d)
    PROVE  FileKept(lib, d, file) /\ file \in Frontmatter
<1>1. CASE file = ds[d] /\ file # NoFrontmatter
  BY <1>1 DEF LinksKept
<1>2. ASSUME NEW w \in Touchers(ln, d), file = ln[w].file
      PROVE  FileKept(lib, d, file) /\ file \in Frontmatter
  <2>1. PICK op : op = ln[w]
    OBVIOUS
  <2>2. /\ op \in LinkerOps /\ OpKept(lib, op) /\ op.pc \in {"empty", "write"} /\ op.target = d
        /\ file = op.file
    BY <1>2, <2>1 DEF Touchers, LinksKept
  <2>3. op # Resting /\ op.file \in Frontmatter
    BY <2>2, LinkerOpsAre
  <2> QED BY <2>2, <2>3 DEF OpKept
<1> QED BY <1>1, <1>2 DEF Files

(* A link of an author answers itself. *)
LEMMA AuthorAnswers ==
    ASSUME NEW lib, NEW ds, NEW ln, LinksKept(lib, ds, ln), NEW t \in Docs, NEW d,
           NEW f \in BackFields, Wrote(lib, t, f, d), There(ds, ln, t)
    PROVE  BacklinkThere(ds, ln, d, f, t)
<1> SUFFICES ASSUME NEW file \in Files(ds, ln, t)
             PROVE  d \in file[f]
  BY DEF BacklinkThere
<1>1. FileKept(lib, t, file)
  BY FilesAreKept
<1> QED BY <1>1, BackFieldsAre DEF FileKept, Wrote

(* A thread goes on. *)
LEMMA ThreadGoesOn ==
    ASSUME LinksInv, NEW w \in LinkWorkers, NEW new \in LinkerOps, OpKept(authored, new),
           linker' = [linker EXCEPT ![w] = new], authored' = authored,
           docs' \in [Docs -> Frontmatter \cup {NoFrontmatter}],
           \A d \in Docs : docs'[d] # NoFrontmatter => FileKept(authored, d, docs'[d]),
           scope' = scope, waiting' \subseteq waiting
    PROVE  LinksInv'
<1>1. linker \in [LinkWorkers -> LinkerOps] /\ \A v \in LinkWorkers : OpKept(authored, linker[v])
  BY DEF LinksInv, LinksKept
<1>2. linker' \in [LinkWorkers -> LinkerOps]
  BY <1>1
<1>3. \A v \in LinkWorkers : OpKept(authored, linker'[v])
  BY <1>1
<1> QED BY <1>2, <1>3 DEF LinksInv, LinksKept

(* What is owed and what is answered, when the files of documents become   *)
(* fewer, and all that were there stay there.                              *)
LEMMA UpdateGoesOn ==
    ASSUME LinksInv, UpdateInv, NEW w \in LinkWorkers, NEW new,
           linker' = [linker EXCEPT ![w] = new], scope' = scope,
           waiting' \subseteq waiting, failed \subseteq failed', raced \subseteq raced',
           \A d \in Docs :
              /\ Files(docs', linker', d) \subseteq Files(docs, linker, d)
              /\ There(docs, linker, d) => There(docs', linker', d)
              /\ Touchers(linker', d) \subseteq Touchers(linker, d),
           new # Resting =>
              /\ new.doc \in scope \ waiting'
              /\ There(docs', linker', new.doc)
              /\ new.pc # "find" => There(docs', linker', new.target),
           \A d \in scope \ (waiting' \cup failed') : \A t \in Docs \ raced' : \A f \in BackFields :
              linker[w] # Resting /\ linker[w].doc = d /\ t \in linker[w].todo[f] =>
                 \/ new # Resting /\ new.doc = d /\ t \in new.todo[f]
                 \/ BacklinkThere(docs', linker', d, f, t),
           \A d \in waiting \ (waiting' \cup failed') :
              /\ There(docs', linker', d)
              /\ \A t \in Docs \ raced' : \A f \in BackFields :
                    \A file \in Files(docs', linker', d) : t \in file[ForwardOf(f)] =>
                       Owed(linker', d, f, t) \/ BacklinkThere(docs', linker', d, f, t)
    PROVE  UpdateInv'
<1>1. /\ linker \in [LinkWorkers -> LinkerOps] /\ scope \subseteq Docs /\ waiting \subseteq scope
  BY DEF LinksInv, LinksKept
<1>2. linker'[w] = new /\ \A v \in LinkWorkers \ {w} : linker'[v] = linker[v]
  BY <1>1
<1>3. \A v \in LinkWorkers : linker'[v] # Resting =>
         /\ linker'[v].doc \in scope \ waiting'
         /\ There(docs', linker', linker'[v].doc)
         /\ linker'[v].pc # "find" => There(docs', linker', linker'[v].target)
  <2> SUFFICES ASSUME NEW v \in LinkWorkers \ {w}, linker[v] # Resting
               PROVE  /\ linker[v].doc \in scope \ waiting'
                      /\ There(docs', linker', linker[v].doc)
                      /\ linker[v].pc # "find" => There(docs', linker', linker[v].target)
    BY <1>2
  <2>1. PICK op : op = linker[v]
    OBVIOUS
  <2>2. /\ op \in LinkerOps /\ op # Resting /\ op.doc \in scope \ waiting
        /\ There(docs, linker, op.doc)
        /\ op.pc # "find" => There(docs, linker, op.target)
    BY <1>1, <2>1 DEF UpdateInv
  <2>3. op.doc \in Docs /\ (op.pc # "find" => op.target \in Docs)
    BY <2>2, LinkerOpsAre
  <2> QED BY <2>1, <2>2, <2>3
<1>4. \A d \in scope \ (waiting' \cup failed') : There(docs', linker', d)
  BY <1>1 DEF UpdateInv
<1>5. \A d \in Docs \ raced' : \A v, x \in Touchers(linker', d) : v = x
  BY DEF UpdateInv
<1>6. \A d \in Docs : \A one, other \in Files(docs', linker', d) :
         \A f \in LinkFields : \A t \in one[f] \ other[f] : There(docs', linker', t)
  <2> SUFFICES ASSUME NEW d \in Docs, NEW one \in Files(docs, linker, d),
                      NEW other \in Files(docs, linker, d), NEW f \in LinkFields,
                      NEW t \in one[f] \ other[f]
               PROVE  There(docs', linker', t)
    OBVIOUS
  <2>1. There(docs, linker, t)
    BY DEF UpdateInv
  <2>2. one \in Frontmatter
    BY FilesAreKept DEF LinksInv
  <2>3. t \in Docs
    BY <2>2 DEF Frontmatter
  <2> QED BY <2>1, <2>3
<1>7. ASSUME NEW d \in scope \ (waiting \cup failed'), NEW t \in Docs \ raced',
             NEW f \in BackFields, NEW file \in Files(docs', linker', d), t \in file[ForwardOf(f)]
      PROVE  Owed(linker', d, f, t) \/ BacklinkThere(docs', linker', d, f, t)
  <2>1. Owed(linker, d, f, t) \/ BacklinkThere(docs, linker, d, f, t)
    BY <1>1, <1>7 DEF UpdateInv
  <2>2. CASE BacklinkThere(docs, linker, d, f, t)
    BY <2>2 DEF BacklinkThere
  <2>3. ASSUME NEW v \in LinkWorkers, linker[v] # Resting, linker[v].doc = d, t \in linker[v].todo[f]
        PROVE  Owed(linker', d, f, t) \/ BacklinkThere(docs', linker', d, f, t)
    <3>1. CASE v # w
      BY <1>2, <2>3, <3>1 DEF Owed
    <3>2. CASE v = w
      <4>1. \/ new # Resting /\ new.doc = d /\ t \in new.todo[f]
            \/ BacklinkThere(docs', linker', d, f, t)
        BY <2>3, <3>2
      <4> QED BY <1>2, <4>1 DEF Owed
    <3> QED BY <3>1, <3>2
  <2> QED BY <2>1, <2>2, <2>3 DEF Owed
<1>8. \A d \in scope \ (waiting' \cup failed') : \A t \in Docs \ raced' :
         \A f \in BackFields : \A file \in Files(docs', linker', d) :
            t \in file[ForwardOf(f)] => Owed(linker', d, f, t) \/ BacklinkThere(docs', linker', d, f, t)
  BY <1>7
<1> QED BY <1>3, <1>4, <1>5, <1>6, <1>8 DEF UpdateInv

(* A thread that makes no copy, and writes none. *)
LEMMA FilesStay ==
    ASSUME LinksInv, NEW w \in LinkWorkers, NEW new, linker' = [linker EXCEPT ![w] = new],
           linker[w].pc \notin {"empty", "write"}, new.pc \notin {"empty", "write"}, docs' = docs,
           NEW d
    PROVE  /\ Files(docs', linker', d) = Files(docs, linker, d)
           /\ There(docs, linker, d) <=> There(docs', linker', d)
           /\ Touchers(linker', d) = Touchers(linker, d)
<1>1. linker'[w] = new /\ \A v \in LinkWorkers \ {w} : linker'[v] = linker[v]
  BY DEF LinksInv, LinksKept
<1>2. Touchers(linker', d) = Touchers(linker, d) /\ w \notin Touchers(linker, d)
  BY <1>1 DEF Touchers
<1>3. Files(docs', linker', d) = Files(docs, linker, d)
  BY <1>1, <1>2 DEF Files, Touchers
<1>4. There(docs, linker, d) <=> There(docs', linker', d)
  BY <1>1 DEF There
<1> QED BY <1>2, <1>3, <1>4

LEMMA RacesAre ==
    ASSUME NEW w, NEW d, Races(w, d)
    PROVE  raced \subseteq raced' /\ (d \notin raced' => Touchers(linker, d) \subseteq {w})
<1>1. Touching(d) = Touchers(linker, d)
  BY DEF Touching, Touchers
<1> QED BY <1>1 DEF Races

(* A document nobody has emptied is there only if it can be read. *)
LEMMA ThereUntouched ==
    ASSUME NEW ds, NEW ln, NEW d, Touchers(ln, d) = {}
    PROVE  /\ There(ds, ln, d) <=> ds[d] # NoFrontmatter
           /\ Files(ds, ln, d) = {ds[d]} \ {NoFrontmatter}
BY DEF There, Touchers, Files

LEMMA TakeKeeps ==
    ASSUME LinksInv, UpdateInv, NEW w \in LinkWorkers, TakeDocument(w)
    PROVE  LinksInv' /\ UpdateInv'
<1>1. PICK d \in waiting :
         /\ waiting' = waiting \ {d}
         /\ IF Parses(d)
            THEN Run(w, Update(d, Backlinks(docs[d]))) /\ failed' = failed
            ELSE failed' = failed \cup {d} /\ linker' = linker
  BY DEF TakeDocument
<1>2. /\ docs' = docs /\ authored' = authored /\ scope' = scope /\ raced' = raced
      /\ linker[w] = Resting /\ linker[w].pc \notin {"empty", "write"}
  BY DEF TakeDocument, Resting
<1>3. /\ LinksKept(authored, docs, linker) /\ d \in Docs /\ d \in scope
      /\ waiting \subseteq scope /\ scope \subseteq Docs
      /\ linker \in [LinkWorkers -> LinkerOps]
      /\ docs' \in [Docs -> Frontmatter \cup {NoFrontmatter}]
      /\ \A e \in Docs : docs'[e] # NoFrontmatter => FileKept(authored, e, docs'[e])
  BY <1>2 DEF LinksInv, LinksKept
<1>4. CASE Parses(d)
  <2>1. PICK file : file = docs[d]
    OBVIOUS
  <2>2. file # NoFrontmatter /\ file \in Frontmatter /\ FileKept(authored, d, file)
    BY <1>3, <1>4, <2>1 DEF Parses, LinksKept
  <2>3. PICK todo : todo = Backlinks(file)
    OBVIOUS
  <2>4. todo \in Todos /\ \A f \in BackFields : todo[f] = file[ForwardOf(f)]
    BY <2>2, <2>3, BacklinksAre
  <2>5. PICK new : new = Update(d, todo)
    OBVIOUS
  <2>6. /\ new \in LinkerOps
        /\ \/ new = Resting /\ \A f \in BackFields : todo[f] = {}
           \/ new # Resting /\ new.pc = "find" /\ new.doc = d /\ new.todo = todo
    BY <1>3, <2>4, <2>5, UpdateIs
  <2>7. linker' = [linker EXCEPT ![w] = new] /\ failed' = failed
    BY <1>1, <1>4, <2>1, <2>3, <2>5 DEF Run
  <2>8. ASSUME NEW f \in BackFields, NEW t \in todo[f]
        PROVE  Wrote(authored, d, ForwardOf(f), t) \/ Wrote(authored, t, f, d)
    <3>1. CASE t \in authored[d][ForwardOf(f)]
      BY <2>2, <3>1 DEF FileKept, Wrote
    <3>2. CASE t \notin authored[d][ForwardOf(f)]
      BY <2>2, <2>4, <3>2, BackFieldsAre DEF FileKept
    <3> QED BY <3>1, <3>2
  <2>9. OpKept(authored, new)
    BY <2>6, <2>8 DEF OpKept
  <2>10. LinksInv'
    BY <1>1, <1>2, <1>3, <2>6, <2>7, <2>9, ThreadGoesOn
  <2>11. new.pc \notin {"empty", "write"}
    BY <2>6 DEF Resting
  <2>12. \A e \in Docs :
            /\ Files(docs', linker', e) = Files(docs, linker, e)
            /\ There(docs, linker, e) <=> There(docs', linker', e)
            /\ Touchers(linker', e) = Touchers(linker, e)
    BY <1>2, <2>7, <2>11, FilesStay
  <2>13. There(docs, linker, d)
    BY <2>1, <2>2 DEF There
  <2>14. new # Resting =>
            /\ new.doc \in scope \ waiting'
            /\ There(docs', linker', new.doc)
            /\ new.pc # "find" => There(docs', linker', new.target)
    BY <1>1, <1>3, <2>6, <2>12, <2>13
  <2>15. ASSUME NEW t \in Docs, NEW f \in BackFields, NEW other \in Files(docs', linker', d),
                t \in other[ForwardOf(f)]
         PROVE  Owed(linker', d, f, t) \/ BacklinkThere(docs', linker', d, f, t)
    <3>1. CASE t \in file[ForwardOf(f)]
      <4>1. new # Resting /\ new.doc = d /\ t \in new.todo[f]
        BY <2>4, <2>6, <3>1
      <4>2. linker'[w] = new
        BY <1>3, <2>7
      <4> QED BY <4>1, <4>2 DEF Owed
    <3>2. CASE t \notin file[ForwardOf(f)]
      <4>1. file \in Files(docs, linker, d) /\ other \in Files(docs, linker, d)
        BY <1>3, <2>1, <2>2, <2>12, <2>15 DEF Files
      <4>2. There(docs, linker, t)
        BY <1>3, <2>15, <3>2, <4>1, BackFieldsAre DEF UpdateInv
      <4>3. FileKept(authored, d, other)
        BY <1>3, <4>1, FilesAreKept
      <4>4. ForwardOf(f) \in BackFields /\ Wrote(authored, t, ForwardOf(ForwardOf(f)), d)
        BY <2>2, <2>15, <3>2, <4>3, BackFieldsAre DEF FileKept
      <4>5. Wrote(authored, t, f, d)
        BY <4>4, BackFieldsAre
      <4>6. BacklinkThere(docs, linker, d, f, t)
        BY <1>3, <4>2, <4>5, AuthorAnswers
      <4> QED BY <2>12, <4>6 DEF BacklinkThere
    <3> QED BY <3>1, <3>2
  <2>16. waiting \ (waiting' \cup failed') \subseteq {d}
    BY <1>1
  <2>17. \A e \in waiting \ (waiting' \cup failed') :
            /\ There(docs', linker', e)
            /\ \A t \in Docs \ raced' : \A f \in BackFields :
                  \A other \in Files(docs', linker', e) : t \in other[ForwardOf(f)] =>
                     Owed(linker', e, f, t) \/ BacklinkThere(docs', linker', e, f, t)
    <3>1. There(docs', linker', d)
      BY <1>3, <2>12, <2>13
    <3>2. \A t \in Docs \ raced' : \A f \in BackFields :
             \A other \in Files(docs', linker', d) : t \in other[ForwardOf(f)] =>
                Owed(linker', d, f, t) \/ BacklinkThere(docs', linker', d, f, t)
      BY <2>15
    <3> QED BY <2>16, <3>1, <3>2
  <2>18. waiting' \subseteq waiting /\ failed \subseteq failed' /\ raced \subseteq raced'
    BY <1>1, <1>2, <2>7
  <2>19. UpdateInv'
    BY <1>2, <2>7, <2>12, <2>14, <2>17, <2>18, UpdateGoesOn
  <2> QED BY <2>10, <2>19
<1>5. CASE ~Parses(d)
  <2>1. failed' = failed \cup {d} /\ linker' = linker
    BY <1>1, <1>5
  <2>2. LinksInv'
    BY <1>1, <1>2, <2>1 DEF LinksInv
  <2>3. scope \ (waiting' \cup failed') \subseteq scope \ (waiting \cup failed)
    BY <1>1, <2>1
  <2>4. scope \ waiting \subseteq scope \ waiting'
    BY <1>1
  <2>5. UpdateInv'
    BY <1>2, <2>1, <2>3, <2>4 DEF UpdateInv
  <2> QED BY <2>2, <2>5
<1> QED BY <1>4, <1>5

LEMMA FindKeeps ==
    ASSUME LinksInv, UpdateInv, NEW w \in LinkWorkers, FindTarget(w)
    PROVE  LinksInv' /\ UpdateInv'
<1>1. PICK op : op = linker[w]
  OBVIOUS
<1>2. PICK b \in NextBacklinks(op.todo) :
         LET next == [pc |-> "read", doc |-> op.doc, todo |-> op.todo,
                      field |-> b[1], target |-> b[2]] IN
         /\ Run(w, IF Parses(b[2]) THEN next ELSE Done(next))
         /\ failed' = IF Parses(b[2]) \/ b[1] = "validates" THEN failed
                      ELSE failed \cup {op.doc}
         /\ Races(w, b[2])
  BY <1>1 DEF FindTarget
<1>3. PICK f, t : f = b[1] /\ t = b[2]
  OBVIOUS
<1>4. PICK next : next = [pc |-> "read", doc |-> op.doc, todo |-> op.todo, field |-> f, target |-> t]
  OBVIOUS
<1>5. /\ Run(w, IF Parses(t) THEN next ELSE Done(next))
      /\ failed' = IF Parses(t) \/ f = "validates" THEN failed ELSE failed \cup {op.doc}
      /\ Races(w, t)
  BY <1>2, <1>3, <1>4
<1>6. /\ docs' = docs /\ authored' = authored /\ scope' = scope /\ waiting' = waiting
      /\ op.pc = "find" /\ op # Resting /\ linker[w].pc \notin {"empty", "write"}
  BY <1>1 DEF FindTarget, Resting
<1>7. /\ LinksKept(authored, docs, linker) /\ op \in LinkerOps /\ OpKept(authored, op)
      /\ linker \in [LinkWorkers -> LinkerOps]
      /\ docs' \in [Docs -> Frontmatter \cup {NoFrontmatter}]
      /\ \A e \in Docs : docs'[e] # NoFrontmatter => FileKept(authored, e, docs'[e])
  BY <1>1, <1>6 DEF LinksInv, LinksKept
<1>8. op.doc \in Docs /\ op.todo \in Todos
  BY <1>6, <1>7, LinkerOpsAre
<1>9. f \in BackFields /\ t \in op.todo[f] /\ t \in Docs
  BY <1>2, <1>3, <1>8, PendingAre
<1>10. op.doc \in scope \ waiting /\ There(docs, linker, op.doc)
  BY <1>1, <1>6 DEF UpdateInv
<1>11. /\ next.pc = "read" /\ next.doc = op.doc /\ next.todo = op.todo /\ next.field = f
       /\ next.target = t /\ next \in LinkerOps
  BY <1>4, <1>8, <1>9 DEF LinkerOps
<1>12. raced \subseteq raced' /\ (t \notin raced' => Touchers(linker, t) \subseteq {w})
  BY <1>5, RacesAre
<1>13. w \notin Touchers(linker, t)
  BY <1>1, <1>6 DEF Touchers
<1>14. CASE Parses(t)
  <2>1. linker' = [linker EXCEPT ![w] = next] /\ failed' = failed
    BY <1>5, <1>14 DEF Run
  <2>2. OpKept(authored, next)
    BY <1>6, <1>7, <1>9, <1>11 DEF OpKept
  <2>3. LinksInv'
    BY <1>6, <1>7, <1>11, <2>1, <2>2, ThreadGoesOn
  <2>4. \A e \in Docs :
            /\ Files(docs', linker', e) = Files(docs, linker, e)
            /\ There(docs, linker, e) <=> There(docs', linker', e)
            /\ Touchers(linker', e) = Touchers(linker, e)
    BY <1>6, <1>11, <2>1, FilesStay
  <2>5. There(docs, linker, t)
    BY <1>14 DEF There, Parses
  <2>6. next # Resting
    BY <1>11 DEF Resting
  <2>7. waiting \ (waiting' \cup failed') = {}
    BY <1>6
  <2>8. /\ next.doc \in scope \ waiting' /\ There(docs', linker', next.doc)
        /\ There(docs', linker', next.target)
    BY <1>6, <1>8, <1>9, <1>10, <1>11, <2>4, <2>5
  <2>9. UpdateInv'
    BY <1>1, <1>6, <1>11, <1>12, <2>1, <2>4, <2>6, <2>7, <2>8, UpdateGoesOn
  <2> QED BY <2>3, <2>9
<1>15. CASE ~Parses(t)
  <2>1. PICK new : new = Done(next)
    OBVIOUS
  <2>2. linker' = [linker EXCEPT ![w] = new]
    BY <1>5, <1>15, <2>1 DEF Run
  <2>3. /\ new \in LinkerOps /\ new.pc \in {"idle", "find"}
        /\ new # Resting => new.doc = op.doc
        /\ \A g \in BackFields : \A x \in op.todo[g] : ~(g = f /\ x = t) =>
              new # Resting /\ new.doc = op.doc /\ x \in new.todo[g]
    BY <1>8, <1>9, <1>11, <2>1, DoneIs
  <2>4. \A g \in BackFields : \A x \in op.todo[g] :
           Wrote(authored, op.doc, ForwardOf(g), x) \/ Wrote(authored, x, g, op.doc)
    BY <1>6, <1>7 DEF OpKept
  <2>5. OpKept(authored, new)
    BY <1>8, <1>9, <1>11, <2>1, <2>4, DoneIsKept
  <2>6. LinksInv'
    BY <1>6, <1>7, <2>2, <2>3, <2>5, ThreadGoesOn
  <2>7. \A e \in Docs :
            /\ Files(docs', linker', e) = Files(docs, linker, e)
            /\ There(docs, linker, e) <=> There(docs', linker', e)
            /\ Touchers(linker', e) = Touchers(linker, e)
    BY <1>6, <2>2, <2>3, FilesStay
  <2>8. new # Resting => new.pc = "find"
    BY <2>3, LinkerOpsAre
  <2>9. new # Resting =>
            /\ new.doc \in scope \ waiting'
            /\ There(docs', linker', new.doc)
            /\ new.pc # "find" => There(docs', linker', new.target)
    BY <1>6, <1>8, <1>10, <2>3, <2>7, <2>8
  <2>10. ASSUME t \notin raced', op.doc \notin failed'
         PROVE  BacklinkThere(docs', linker', op.doc, f, t)
    <3>1. f = "validates"
      BY <1>5, <1>15, <2>10
    <3>2. Touchers(linker, t) = {}
      BY <1>12, <1>13, <2>10
    <3>3. Files(docs, linker, t) = {}
      BY <1>15, <3>2, ThereUntouched DEF Parses
    <3> QED BY <1>9, <2>7, <3>1, <3>3 DEF BacklinkThere
  <2>11. ASSUME NEW d \in scope \ (waiting' \cup failed'), NEW x \in Docs \ raced',
                NEW g \in BackFields, op.doc = d, x \in op.todo[g]
         PROVE  \/ new # Resting /\ new.doc = d /\ x \in new.todo[g]
                \/ BacklinkThere(docs', linker', d, g, x)
    BY <2>3, <2>10, <2>11
  <2>12. failed \subseteq failed' /\ waiting \ (waiting' \cup failed') = {}
    BY <1>5, <1>6
  <2>13. UpdateInv'
    BY <1>1, <1>6, <1>12, <2>2, <2>7, <2>9, <2>11, <2>12, UpdateGoesOn
  <2> QED BY <2>6, <2>13
<1> QED BY <1>14, <1>15

(* The copy a thread is about to write: the file with one backlink more.   *)
Copy(old, f, d) == [old EXCEPT ![f] = @ \cup {d}]

LEMMA CopyIsKept ==
    ASSUME NEW lib, NEW d \in Docs, NEW t \in Docs, NEW f \in BackFields, NEW old \in Frontmatter,
           FileKept(lib, t, old), d \notin old[f],
           Wrote(lib, d, ForwardOf(f), t) \/ Wrote(lib, t, f, d)
    PROVE  /\ Copy(old, f, d) \in Frontmatter /\ FileKept(lib, t, Copy(old, f, d))
           /\ Wrote(lib, d, ForwardOf(f), t)
           /\ \A g \in LinkFields : \A s :
                 s \in Copy(old, f, d)[g] <=> (s \in old[g] \/ (g = f /\ s = d))
<1>0. PICK file : file = Copy(old, f, d)
  OBVIOUS
<1>1. f \in LinkFields
  BY BackFieldsAre
<1>2. \A g \in LinkFields : \A s : s \in file[g] <=> (s \in old[g] \/ (g = f /\ s = d))
  BY <1>0, <1>1 DEF Frontmatter, Copy
<1>3. file \in Frontmatter
  BY <1>0, <1>1 DEF Frontmatter, Copy
<1>4. Wrote(lib, d, ForwardOf(f), t)
  BY <1>1 DEF Wrote, FileKept
<1>5. ASSUME NEW g \in LinkFields, NEW s \in file[g] \ lib[t][g]
      PROVE  g \in BackFields /\ Wrote(lib, s, ForwardOf(g), t)
  <2>1. CASE s \in old[g]
    BY <2>1, <1>5 DEF FileKept
  <2>2. CASE s \notin old[g]
    BY <1>2, <1>4, <1>5, <2>2
  <2> QED BY <2>1, <2>2
<1>6. FileKept(lib, t, file)
  BY <1>2, <1>5 DEF FileKept
<1> QED BY <1>0, <1>2, <1>3, <1>4, <1>6

LEMMA ReadNothingKeeps ==
    ASSUME LinksInv, UpdateInv, NEW w \in LinkWorkers, ReadTarget(w),
           WithBacklink(docs[linker[w].target], linker[w].field, linker[w].doc) = {}
    PROVE  LinksInv' /\ UpdateInv'
<1>1. PICK op, f, t : op = linker[w] /\ f = op.field /\ t = op.target
  OBVIOUS
<1>2. /\ docs' = docs /\ authored' = authored /\ scope' = scope /\ waiting' = waiting
      /\ failed' = failed /\ op.pc = "read" /\ op # Resting
      /\ linker[w].pc \notin {"empty", "write"} /\ Races(w, t)
  BY <1>1 DEF ReadTarget, Resting
<1>3. /\ LinksKept(authored, docs, linker) /\ op \in LinkerOps /\ OpKept(authored, op)
      /\ linker \in [LinkWorkers -> LinkerOps]
      /\ docs' \in [Docs -> Frontmatter \cup {NoFrontmatter}]
      /\ \A e \in Docs : docs'[e] # NoFrontmatter => FileKept(authored, e, docs'[e])
  BY <1>1, <1>2 DEF LinksInv, LinksKept
<1>4. op.doc \in Docs /\ op.todo \in Todos /\ f \in BackFields /\ t \in Docs
  BY <1>1, <1>2, <1>3, LinkerOpsAre
<1>5. op.doc \in scope \ waiting /\ There(docs, linker, op.doc) /\ There(docs, linker, t)
  BY <1>1, <1>2 DEF UpdateInv
<1>6. raced \subseteq raced' /\ (t \notin raced' => Touchers(linker, t) \subseteq {w})
  BY <1>2, RacesAre
<1>7. w \notin Touchers(linker, t)
  BY <1>1, <1>2 DEF Touchers
<1>8. linker' = [linker EXCEPT ![w] = Done(op)]
  BY <1>1 DEF ReadTarget, Run
<1>9. PICK new : new = Done(op)
  OBVIOUS
<1>10. /\ new \in LinkerOps /\ new.pc \in {"idle", "find"}
       /\ new # Resting => new.doc = op.doc
       /\ \A g \in BackFields : \A x \in op.todo[g] : ~(g = f /\ x = t) =>
             new # Resting /\ new.doc = op.doc /\ x \in new.todo[g]
  BY <1>1, <1>4, <1>9, DoneIs
<1>11. \A g \in BackFields : \A x \in op.todo[g] :
          Wrote(authored, op.doc, ForwardOf(g), x) \/ Wrote(authored, x, g, op.doc)
  BY <1>2, <1>3 DEF OpKept
<1>12. OpKept(authored, new)
  BY <1>1, <1>4, <1>9, <1>11, DoneIsKept
<1>13. LinksInv'
  BY <1>2, <1>3, <1>8, <1>9, <1>10, <1>12, ThreadGoesOn
<1>14. \A e \in Docs :
          /\ Files(docs', linker', e) = Files(docs, linker, e)
          /\ There(docs, linker, e) <=> There(docs', linker', e)
          /\ Touchers(linker', e) = Touchers(linker, e)
  BY <1>2, <1>8, <1>9, <1>10, FilesStay
<1>15. new # Resting => new.pc = "find"
  BY <1>10, LinkerOpsAre
<1>16. new # Resting =>
          /\ new.doc \in scope \ waiting'
          /\ There(docs', linker', new.doc)
          /\ new.pc # "find" => There(docs', linker', new.target)
  BY <1>2, <1>4, <1>5, <1>10, <1>14, <1>15
<1>17. ASSUME t \notin raced'
       PROVE  BacklinkThere(docs', linker', op.doc, f, t)
  <2>1. Touchers(linker, t) = {}
    BY <1>6, <1>7, <1>17
  <2>2. docs[t] # NoFrontmatter /\ Files(docs, linker, t) = {docs[t]}
    BY <1>5, <2>1, ThereUntouched
  <2>3. WithBacklink(docs[t], f, op.doc) = {}
    BY <1>1
  <2>4. op.doc \in docs[t][f]
    BY <2>2, <2>3 DEF WithBacklink
  <2>5. There(docs', linker', t)
    BY <1>4, <1>5, <1>14
  <2>6. Files(docs', linker', t) = {docs[t]}
    BY <1>4, <1>14, <2>2
  <2> QED BY <2>4, <2>5, <2>6 DEF BacklinkThere
<1>18. ASSUME NEW d \in scope \ (waiting' \cup failed'), NEW x \in Docs \ raced',
              NEW g \in BackFields, op.doc = d, x \in op.todo[g]
       PROVE  \/ new # Resting /\ new.doc = d /\ x \in new.todo[g]
              \/ BacklinkThere(docs', linker', d, g, x)
  BY <1>10, <1>17, <1>18
<1>19. failed \subseteq failed' /\ waiting \ (waiting' \cup failed') = {}
  BY <1>2
<1>20. UpdateInv'
  BY <1>1, <1>2, <1>6, <1>8, <1>9, <1>14, <1>16, <1>18, <1>19, UpdateGoesOn
<1> QED BY <1>13, <1>20

LEMMA ReadCopyKeeps ==
    ASSUME LinkAssumption, LinksInv, UpdateInv, NEW w \in LinkWorkers, ReadTarget(w),
           NEW file \in WithBacklink(docs[linker[w].target], linker[w].field, linker[w].doc),
           Run(w, [pc |-> "empty", doc |-> linker[w].doc, todo |-> linker[w].todo,
                   field |-> linker[w].field, target |-> linker[w].target, file |-> file])
    PROVE  LinksInv' /\ UpdateInv'
<1>1. PICK op, g, x : op = linker[w] /\ g = op.field /\ x = op.target
  OBVIOUS
<1>2. /\ docs' = docs /\ authored' = authored /\ scope' = scope /\ waiting' = waiting
      /\ failed' = failed /\ op.pc = "read" /\ op # Resting
      /\ linker[w].pc \notin {"empty", "write"} /\ Races(w, x)
  BY <1>1 DEF ReadTarget, Resting
<1>3. /\ LinksKept(authored, docs, linker) /\ op \in LinkerOps /\ OpKept(authored, op)
      /\ linker \in [LinkWorkers -> LinkerOps]
      /\ docs' \in [Docs -> Frontmatter \cup {NoFrontmatter}]
      /\ \A e \in Docs : docs'[e] # NoFrontmatter => FileKept(authored, e, docs'[e])
  BY <1>1, <1>2 DEF LinksInv, LinksKept
<1>4. op.doc \in Docs /\ op.todo \in Todos /\ g \in BackFields /\ x \in Docs
  BY <1>1, <1>2, <1>3, LinkerOpsAre
<1>5. /\ op.doc \in scope \ waiting /\ There(docs, linker, op.doc) /\ There(docs, linker, x)
      /\ scope \subseteq Docs /\ waiting \subseteq scope
  BY <1>1, <1>2 DEF UpdateInv, LinksInv
<1>6. raced \subseteq raced' /\ (x \notin raced' => Touchers(linker, x) \subseteq {w})
  BY <1>2, RacesAre
<1>7. PICK old : old = docs[x]
  OBVIOUS
<1>8. /\ old # NoFrontmatter /\ op.doc \notin old[g] /\ file = [old EXCEPT ![g] = @ \cup {op.doc}]
  BY <1>1, <1>7 DEF WithBacklink
<1>9. old \in Frontmatter /\ FileKept(authored, x, old) /\ old \in Files(docs, linker, x)
  BY <1>3, <1>4, <1>7, <1>8 DEF LinksKept, Files
<1>10. /\ x \in op.todo[g]
       /\ \A f \in BackFields : \A t \in op.todo[f] :
             Wrote(authored, op.doc, ForwardOf(f), t) \/ Wrote(authored, t, f, op.doc)
  BY <1>1, <1>2, <1>3 DEF OpKept
<1>11. /\ file \in Frontmatter /\ FileKept(authored, x, file)
       /\ Wrote(authored, op.doc, ForwardOf(g), x)
       /\ \A f \in LinkFields : \A s : s \in file[f] <=> (s \in old[f] \/ (f = g /\ s = op.doc))
  <2>1. Wrote(authored, op.doc, ForwardOf(g), x) \/ Wrote(authored, x, g, op.doc)
    BY <1>4, <1>10
  <2>2. file = Copy(old, g, op.doc)
    BY <1>8 DEF Copy
  <2>3. PICK new : new = Copy(old, g, op.doc)
    OBVIOUS
  <2>4. /\ new \in Frontmatter /\ FileKept(authored, x, new)
        /\ Wrote(authored, op.doc, ForwardOf(g), x)
    BY <1>4, <1>8, <1>9, <2>1, <2>3, CopyIsKept
  <2>5. \A f \in LinkFields : \A s : s \in new[f] <=> (s \in old[f] \/ (f = g /\ s = op.doc))
    BY <1>4, <1>8, <1>9, <2>1, <2>3, CopyIsKept
  <2> QED BY <2>2, <2>3, <2>4, <2>5
<1>12. PICK new : new = [pc |-> "empty", doc |-> op.doc, todo |-> op.todo, field |-> g,
                         target |-> x, file |-> file]
  OBVIOUS
<1>13. linker' = [linker EXCEPT ![w] = new]
  BY <1>1, <1>12 DEF Run
<1>14. /\ new \in LinkerOps /\ new.pc = "empty" /\ new.doc = op.doc /\ new.todo = op.todo
       /\ new.field = g /\ new.target = x /\ new.file = file
  BY <1>4, <1>11, <1>12 DEF LinkerOps
<1>15. new # Resting
  BY <1>14 DEF Resting
<1>16. op.doc \in file[g]
  BY <1>4, <1>11, BackFieldsAre
<1>17. OpKept(authored, new)
  BY <1>10, <1>11, <1>14, <1>16 DEF OpKept
<1>18. LinksInv'
  BY <1>2, <1>3, <1>13, <1>14, <1>17, ThreadGoesOn
<1>19. linker'[w] = new /\ \A v \in LinkWorkers \ {w} : linker'[v] = linker[v]
  BY <1>3, <1>13
<1>20. \A d \in Docs : There(docs, linker, d) => There(docs', linker', d)
  BY <1>1, <1>2, <1>19 DEF There
<1>21. \A d \in Docs : Touchers(linker', d) = Touchers(linker, d) \cup (IF d = x THEN {w} ELSE {})
  BY <1>1, <1>2, <1>14, <1>19 DEF Touchers
<1>22. \A d \in Docs : \A one \in Files(docs', linker', d) :
          one \in Files(docs, linker, d) \/ (d = x /\ one = file)
  BY <1>2, <1>14, <1>19, <1>21 DEF Files, Touchers
<1>23. \A v \in LinkWorkers : linker'[v] # Resting =>
          /\ linker'[v].doc \in scope \ waiting'
          /\ There(docs', linker', linker'[v].doc)
          /\ linker'[v].pc # "find" => There(docs', linker', linker'[v].target)
  <2>1. There(docs', linker', op.doc) /\ There(docs', linker', x)
    BY <1>4, <1>5, <1>20
  <2> SUFFICES ASSUME NEW v \in LinkWorkers \ {w}, linker[v] # Resting
               PROVE  /\ linker[v].doc \in scope \ waiting'
                      /\ There(docs', linker', linker[v].doc)
                      /\ linker[v].pc # "find" => There(docs', linker', linker[v].target)
    BY <1>2, <1>5, <1>14, <1>19, <2>1
  <2>2. PICK other : other = linker[v]
    OBVIOUS
  <2>3. /\ other \in LinkerOps /\ other # Resting /\ other.doc \in scope \ waiting
        /\ There(docs, linker, other.doc)
        /\ other.pc # "find" => There(docs, linker, other.target)
    BY <1>3, <2>2 DEF UpdateInv
  <2>4. other.doc \in Docs /\ (other.pc # "find" => other.target \in Docs)
    BY <2>3, LinkerOpsAre
  <2> QED BY <1>2, <1>20, <2>2, <2>3, <2>4
<1>24. \A d \in scope \ (waiting' \cup failed') : There(docs', linker', d)
  BY <1>2, <1>5, <1>20 DEF UpdateInv
<1>25. \A d \in Docs \ raced' : \A v, u \in Touchers(linker', d) : v = u
  BY <1>6, <1>21 DEF UpdateInv
<1>26. ASSUME NEW d \in Docs, NEW one \in Files(docs', linker', d),
              NEW other \in Files(docs', linker', d), NEW f \in LinkFields,
              NEW t \in one[f] \ other[f]
       PROVE  There(docs', linker', t)
  <2>1. t \in Docs
    <3>1. one \in Frontmatter
      BY <1>11, <1>22, <1>3, FilesAreKept
    <3> QED BY <3>1 DEF Frontmatter
  <2>2. CASE one \in Files(docs, linker, d) /\ other \in Files(docs, linker, d)
    BY <1>20, <2>1, <2>2 DEF UpdateInv
  <2>3. CASE d = x /\ one = file /\ other \in Files(docs, linker, d)
    <3>1. t \in old[f] \/ t = op.doc
      BY <1>11, <2>3
    <3>2. t \in old[f] => There(docs, linker, t)
      BY <1>9, <2>3 DEF UpdateInv
    <3> QED BY <1>5, <1>20, <2>1, <3>1, <3>2
  <2>4. CASE d = x /\ other = file /\ one \in Files(docs, linker, d)
    <3>1. t \notin old[f]
      BY <1>11, <2>4
    <3>2. There(docs, linker, t)
      BY <1>9, <2>4, <3>1 DEF UpdateInv
    <3> QED BY <1>20, <2>1, <3>2
  <2>5. one # other
    OBVIOUS
  <2> QED BY <1>22, <2>2, <2>3, <2>4, <2>5
<1>27. \A d, f : \A t \in Docs : Owed(linker, d, f, t) => Owed(linker', d, f, t)
  BY <1>1, <1>14, <1>15, <1>19 DEF Owed
<1>28. ASSUME NEW d, NEW f \in BackFields, NEW t \in Docs, BacklinkThere(docs, linker, d, f, t)
       PROVE  BacklinkThere(docs', linker', d, f, t)
  <2>1. f # "validates" => There(docs', linker', t)
    BY <1>20, <1>28 DEF BacklinkThere
  <2>2. ASSUME NEW one \in Files(docs', linker', t)
        PROVE  d \in one[f]
    <3>1. CASE one \in Files(docs, linker, t)
      BY <1>28, <3>1 DEF BacklinkThere
    <3>2. CASE t = x /\ one = file
      <4>1. d \in old[f]
        BY <1>9, <1>28, <3>2 DEF BacklinkThere
      <4> QED BY <1>11, <3>2, <4>1, BackFieldsAre
    <3> QED BY <1>22, <3>1, <3>2
  <2> QED BY <2>1, <2>2 DEF BacklinkThere
<1>29. ASSUME NEW d \in scope \ (waiting' \cup failed'), NEW t \in Docs \ raced',
              NEW f \in BackFields, NEW one \in Files(docs', linker', d), t \in one[ForwardOf(f)]
       PROVE  Owed(linker', d, f, t) \/ BacklinkThere(docs', linker', d, f, t)
  <2>0. d \in Docs /\ d \in scope \ (waiting \cup failed) /\ t \in Docs \ raced
    BY <1>2, <1>5, <1>6
  <2>1. ASSUME NEW two \in Files(docs, linker, d), t \in two[ForwardOf(f)]
        PROVE  Owed(linker', d, f, t) \/ BacklinkThere(docs', linker', d, f, t)
    <3>1. Owed(linker, d, f, t) \/ BacklinkThere(docs, linker, d, f, t)
      BY <2>0, <2>1 DEF UpdateInv
    <3> QED BY <1>27, <1>28, <2>0, <3>1
  <2>2. CASE d = x /\ one = file /\ t \notin old[ForwardOf(f)]
    <3>1. ForwardOf(f) \in BackFields /\ ForwardOf(f) = g /\ t = op.doc
      BY <1>4, <1>11, <1>29, <2>2, BackFieldsAre
    <3>2. Wrote(authored, t, f, d)
      BY <1>11, <2>2, <3>1, BackFieldsAre
    <3>3. BacklinkThere(docs, linker, d, f, t)
      BY <1>3, <1>5, <2>0, <3>1, <3>2, AuthorAnswers
    <3> QED BY <1>28, <2>0, <3>3
  <2> QED BY <1>9, <1>22, <1>29, <2>0, <2>1, <2>2
<1>30. \A d \in scope \ (waiting' \cup failed') : \A t \in Docs \ raced' :
          \A f \in BackFields : \A one \in Files(docs', linker', d) :
             t \in one[ForwardOf(f)] => Owed(linker', d, f, t) \/ BacklinkThere(docs', linker', d, f, t)
  BY <1>29
<1>31. UpdateInv'
  BY <1>2, <1>23, <1>24, <1>25, <1>26, <1>30 DEF UpdateInv
<1> QED BY <1>18, <1>31

LEMMA EmptyKeeps ==
    ASSUME LinkAssumption, LinksInv, UpdateInv, NEW w \in LinkWorkers, EmptyTarget(w)
    PROVE  LinksInv' /\ UpdateInv'
<1>1. PICK op, x : op = linker[w] /\ x = op.target
  OBVIOUS
<1>2. /\ authored' = authored /\ scope' = scope /\ waiting' = waiting /\ failed' = failed
      /\ raced' = raced /\ op.pc = "empty" /\ op # Resting
      /\ docs' = [docs EXCEPT ![x] = NoFrontmatter]
  BY <1>1 DEF EmptyTarget, Resting
<1>3. /\ LinksKept(authored, docs, linker) /\ op \in LinkerOps /\ OpKept(authored, op)
      /\ linker \in [LinkWorkers -> LinkerOps]
      /\ docs \in [Docs -> Frontmatter \cup {NoFrontmatter}]
  BY <1>1 DEF LinksInv, LinksKept
<1>4. /\ op.doc \in Docs /\ op.todo \in Todos /\ op.field \in BackFields /\ x \in Docs
      /\ op.file \in Frontmatter
  BY <1>1, <1>2, <1>3, LinkerOpsAre
<1>5. op.doc \in scope \ waiting /\ There(docs, linker, op.doc)
  BY <1>1, <1>2 DEF UpdateInv
<1>6. op \in [pc : {"empty", "write"}, doc : Docs, todo : Todos, field : BackFields,
              target : Docs, file : Frontmatter]
  BY <1>2, <1>3 DEF LinkerOps, Resting
<1>7. PICK new : new = [op EXCEPT !.pc = "write"]
  OBVIOUS
<1>8. /\ new \in LinkerOps /\ new.pc = "write" /\ new.doc = op.doc /\ new.todo = op.todo
      /\ new.field = op.field /\ new.target = x /\ new.file = op.file
  BY <1>1, <1>6, <1>7 DEF LinkerOps
<1>9. linker' = [linker EXCEPT ![w] = new] /\ new # Resting
  BY <1>1, <1>7, <1>8 DEF EmptyTarget, Run, Resting
<1>10. OpKept(authored, new)
  BY <1>1, <1>2, <1>3, <1>8 DEF OpKept
<1>11. /\ docs' \in [Docs -> Frontmatter \cup {NoFrontmatter}]
       /\ \A d \in Docs : docs'[d] # NoFrontmatter => FileKept(authored, d, docs'[d])
       /\ \A d \in Docs : docs'[d] = NoFrontmatter \/ docs'[d] = docs[d]
       /\ \A d \in Docs \ {x} : docs'[d] = docs[d]
  BY <1>2, <1>3 DEF LinksKept
<1>12. LinksInv'
  BY <1>2, <1>8, <1>9, <1>10, <1>11, ThreadGoesOn
<1>13. linker'[w] = new /\ \A v \in LinkWorkers \ {w} : linker'[v] = linker[v]
  BY <1>3, <1>9
<1>14. \A d \in Docs : Touchers(linker', d) = Touchers(linker, d)
  BY <1>1, <1>2, <1>8, <1>13 DEF Touchers
<1>15. \A v \in LinkWorkers : linker'[v].file = linker[v].file
  BY <1>1, <1>8, <1>13
<1>16. ASSUME NEW d \in Docs
       PROVE  Files(docs', linker', d) \subseteq Files(docs, linker, d)
  <2>1. \A v \in Touchers(linker, d) : linker'[v].file = linker[v].file
    BY <1>15 DEF Touchers
  <2> QED BY <1>11, <1>14, <2>1 DEF Files
<1>17. ASSUME NEW d \in Docs, There(docs, linker, d)
       PROVE  There(docs', linker', d)
  <2>1. CASE d = x
    BY <1>8, <1>13, <2>1 DEF There
  <2>2. CASE d # x /\ docs[d] # NoFrontmatter
    BY <1>11, <2>2 DEF There
  <2>3. ASSUME NEW v \in LinkWorkers, linker[v].pc = "write", linker[v].target = d
        PROVE  There(docs', linker', d)
    <3>1. v # w
      BY <1>1, <1>2, <2>3
    <3> QED BY <1>13, <2>3, <3>1 DEF There
  <2> QED BY <1>17, <2>1, <2>2, <2>3 DEF There
<1>18. /\ new.doc \in scope \ waiting' /\ There(docs', linker', new.doc)
       /\ There(docs', linker', new.target)
  <2>1. There(docs', linker', x)
    BY <1>8, <1>13 DEF There
  <2> QED BY <1>2, <1>4, <1>5, <1>8, <1>17, <2>1
<1>19. waiting \ (waiting' \cup failed') = {}
  BY <1>2
<1>20. \A d \in Docs :
          /\ Files(docs', linker', d) \subseteq Files(docs, linker, d)
          /\ There(docs, linker, d) => There(docs', linker', d)
          /\ Touchers(linker', d) \subseteq Touchers(linker, d)
  BY <1>14, <1>16, <1>17
<1>21. UpdateInv'
  BY <1>1, <1>2, <1>8, <1>9, <1>18, <1>19, <1>20, UpdateGoesOn
<1> QED BY <1>12, <1>21

LEMMA WriteKeeps ==
    ASSUME LinkAssumption, LinksInv, UpdateInv, NEW w \in LinkWorkers, WriteTarget(w)
    PROVE  LinksInv' /\ UpdateInv'
<1>1. PICK op, f, x : op = linker[w] /\ f = op.field /\ x = op.target
  OBVIOUS
<1>2. /\ authored' = authored /\ scope' = scope /\ waiting' = waiting /\ failed' = failed
      /\ raced' = raced /\ op.pc = "write" /\ op # Resting
      /\ docs' = [docs EXCEPT ![x] = op.file] /\ linker' = [linker EXCEPT ![w] = Done(op)]
  BY <1>1 DEF WriteTarget, Resting, Run
<1>3. /\ LinksKept(authored, docs, linker) /\ op \in LinkerOps /\ OpKept(authored, op)
      /\ linker \in [LinkWorkers -> LinkerOps]
      /\ docs \in [Docs -> Frontmatter \cup {NoFrontmatter}]
  BY <1>1 DEF LinksInv, LinksKept
<1>4. /\ op.doc \in Docs /\ op.todo \in Todos /\ f \in BackFields /\ x \in Docs
      /\ op.file \in Frontmatter /\ op.file # NoFrontmatter
  BY <1>1, <1>2, <1>3, LinkerOpsAre DEF LinkAssumption
<1>5. op.doc \in scope \ waiting /\ There(docs, linker, op.doc)
  BY <1>1, <1>2 DEF UpdateInv
<1>6. /\ FileKept(authored, x, op.file) /\ op.doc \in op.file[f]
      /\ \A g \in BackFields : \A t \in op.todo[g] :
            Wrote(authored, op.doc, ForwardOf(g), t) \/ Wrote(authored, t, g, op.doc)
  BY <1>1, <1>2, <1>3 DEF OpKept
<1>7. PICK new : new = Done(op)
  OBVIOUS
<1>8. /\ new \in LinkerOps /\ new.pc \in {"idle", "find"}
      /\ new # Resting => new.doc = op.doc
      /\ \A g \in BackFields : \A t \in op.todo[g] : ~(g = f /\ t = x) =>
            new # Resting /\ new.doc = op.doc /\ t \in new.todo[g]
  BY <1>1, <1>4, <1>7, DoneIs
<1>9. OpKept(authored, new)
  BY <1>1, <1>4, <1>6, <1>7, DoneIsKept
<1>10. linker' = [linker EXCEPT ![w] = new]
  BY <1>2, <1>7
<1>11. /\ docs' \in [Docs -> Frontmatter \cup {NoFrontmatter}]
       /\ docs'[x] = op.file /\ \A d \in Docs \ {x} : docs'[d] = docs[d]
  BY <1>2, <1>3, <1>4
<1>12. \A d \in Docs : docs'[d] # NoFrontmatter => FileKept(authored, d, docs'[d])
  BY <1>3, <1>6, <1>11 DEF LinksKept
<1>13. LinksInv'
  BY <1>2, <1>8, <1>9, <1>10, <1>11, <1>12, ThreadGoesOn
<1>14. linker'[w] = new /\ \A v \in LinkWorkers \ {w} : linker'[v] = linker[v]
  BY <1>3, <1>10
<1>15. /\ \A d \in Docs : Touchers(linker', d) = Touchers(linker, d) \ {w}
       /\ w \in Touchers(linker, x)
  BY <1>1, <1>2, <1>8, <1>14 DEF Touchers
<1>16. ASSUME NEW d \in Docs
       PROVE  Files(docs', linker', d) \subseteq Files(docs, linker, d)
  <2>1. ASSUME NEW v \in Touchers(linker', d)
        PROVE  linker'[v].file = linker[v].file /\ v \in Touchers(linker, d)
    <3>1. v \in Touchers(linker, d) /\ v # w
      BY <1>15, <2>1
    <3>2. v \in LinkWorkers
      BY <3>1 DEF Touchers
    <3> QED BY <1>14, <3>1, <3>2
  <2>2. CASE d = x
    <3>1. op.file \in Files(docs, linker, d)
      BY <1>1, <1>15, <2>2 DEF Files
    <3> QED BY <1>11, <2>1, <2>2, <3>1 DEF Files
  <2>3. CASE d # x
    BY <1>11, <2>1, <2>3 DEF Files
  <2> QED BY <2>2, <2>3
<1>17. ASSUME NEW d \in Docs, There(docs, linker, d)
       PROVE  There(docs', linker', d)
  <2>1. CASE d = x
    BY <1>4, <1>11, <2>1 DEF There
  <2>2. CASE d # x /\ docs[d] # NoFrontmatter
    BY <1>11, <2>2 DEF There
  <2>3. ASSUME d # x, NEW v \in LinkWorkers, linker[v].pc = "write", linker[v].target = d
        PROVE  There(docs', linker', d)
    <3>1. v # w
      BY <1>1, <2>3
    <3> QED BY <1>14, <2>3, <3>1 DEF There
  <2> QED BY <1>17, <2>1, <2>2, <2>3 DEF There
<1>18. new # Resting => new.pc = "find"
  BY <1>8, LinkerOpsAre
<1>19. new # Resting =>
          /\ new.doc \in scope \ waiting'
          /\ There(docs', linker', new.doc)
          /\ new.pc # "find" => There(docs', linker', new.target)
  BY <1>2, <1>4, <1>5, <1>8, <1>17, <1>18
<1>20. ASSUME x \notin raced'
       PROVE  BacklinkThere(docs', linker', op.doc, f, x)
  <2>1. Touchers(linker', x) = {}
    BY <1>2, <1>4, <1>15, <1>20 DEF UpdateInv
  <2>2. Files(docs', linker', x) = {op.file} /\ There(docs', linker', x)
    BY <1>4, <1>11, <2>1, ThereUntouched
  <2> QED BY <1>6, <2>2 DEF BacklinkThere
<1>21. ASSUME NEW d \in scope \ (waiting' \cup failed'), NEW t \in Docs \ raced',
              NEW g \in BackFields, op.doc = d, t \in op.todo[g]
       PROVE  \/ new # Resting /\ new.doc = d /\ t \in new.todo[g]
              \/ BacklinkThere(docs', linker', d, g, t)
  BY <1>8, <1>20, <1>21
<1>22. waiting \ (waiting' \cup failed') = {}
  BY <1>2
<1>23. \A d \in Docs :
          /\ Files(docs', linker', d) \subseteq Files(docs, linker, d)
          /\ There(docs, linker, d) => There(docs', linker', d)
          /\ Touchers(linker', d) \subseteq Touchers(linker, d)
  BY <1>15, <1>16, <1>17
<1>24. UpdateInv'
  BY <1>1, <1>2, <1>10, <1>19, <1>21, <1>22, <1>23, UpdateGoesOn
<1> QED BY <1>13, <1>24

(* Nothing is at work: when an update starts, and when it was killed.      *)
LEMMA RestKeeps ==
    ASSUME LinksInv, docs' = docs, authored' = authored,
           linker' = [w \in LinkWorkers |-> Resting], scope' \subseteq Docs, waiting' = scope'
    PROVE  LinksInv' /\ UpdateInv'
<1>1. Resting \in LinkerOps /\ OpKept(authored, Resting)
  BY DEF LinkerOps, OpKept
<1>2. LinksInv'
  BY <1>1 DEF LinksInv, LinksKept
<1>3. \A d : Touchers(linker', d) = {}
  BY DEF Touchers, Resting
<1>4. \A d : Files(docs', linker', d) = {docs[d]} \ {NoFrontmatter}
  BY <1>3, ThereUntouched
<1>5. UpdateInv'
  BY <1>3, <1>4 DEF UpdateInv
<1> QED BY <1>2, <1>5

LEMMA LinksInitially ==
    ASSUME LinkAssumption, LinksInit
    PROVE  LinksInv /\ UpdateInv
<1>1. Resting \in LinkerOps /\ OpKept(authored, Resting)
  BY DEF LinkerOps, OpKept
<1>2. authored \in [Docs -> Frontmatter \cup {NoFrontmatter}]
  BY DEF LinksInit, LinkAssumption
<1>3. \A d \in Docs : docs[d] # NoFrontmatter => FileKept(authored, d, docs[d])
  BY <1>2 DEF LinksInit, FileKept
<1>4. LinksInv
  BY <1>1, <1>2, <1>3 DEF LinksInv, LinksKept, LinksInit
<1>5. \A d : Touchers(linker, d) = {}
  BY DEF Touchers, Resting, LinksInit
<1>6. \A d : Files(docs, linker, d) = {docs[d]} \ {NoFrontmatter}
  BY <1>5, ThereUntouched
<1>7. UpdateInv
  BY <1>5, <1>6 DEF UpdateInv, LinksInit
<1> QED BY <1>4, <1>7

LEMMA LinksStep ==
    ASSUME LinkAssumption, LinksInv, UpdateInv, [LinksNext]_linkVars
    PROVE  LinksInv' /\ UpdateInv'
<1>1. CASE UNCHANGED linkVars
  BY <1>1 DEF linkVars, LinksInv, UpdateInv
<1>2. CASE StartUpdate
  <2>1. linker' = [w \in LinkWorkers |-> Resting]
    BY <1>2 DEF StartUpdate, AtRest, LinksInv, LinksKept
  <2>2. scope' \subseteq Docs /\ waiting' = scope'
    BY <1>2 DEF StartUpdate
  <2> QED BY <1>2, <2>1, <2>2, RestKeeps DEF StartUpdate
<1>3. CASE UpdateDies
  BY <1>3, RestKeeps DEF UpdateDies
<1>4. ASSUME NEW w \in LinkWorkers, ReadTarget(w)
      PROVE  LinksInv' /\ UpdateInv'
  BY <1>4, ReadNothingKeeps, ReadCopyKeeps DEF ReadTarget
<1> QED BY <1>1, <1>2, <1>3, <1>4, TakeKeeps, FindKeeps, EmptyKeeps, WriteKeeps DEF LinksNext

LEMMA InvImpliesKept ==
    ASSUME LinksInv
    PROVE  AuthoredLinksKept
<1> SUFFICES ASSUME NEW d \in Docs, docs[d] # NoFrontmatter
             PROVE  /\ authored[d] # NoFrontmatter
                    /\ \A f \in LinkFields :
                          /\ authored[d][f] \subseteq docs[d][f]
                          /\ \A s \in docs[d][f] \ authored[d][f] :
                                /\ f # "validatedBy"
                                /\ authored[s] # NoFrontmatter
                                /\ d \in Backlinks(authored[s])[f]
  BY DEF AuthoredLinksKept, Parses
<1>1. FileKept(authored, d, docs[d])
  BY DEF LinksInv, LinksKept
<1>2. docs[d] \in Frontmatter
  BY DEF LinksInv, LinksKept
<1>3. ASSUME NEW f \in LinkFields, NEW s \in docs[d][f] \ authored[d][f]
      PROVE  /\ f # "validatedBy"
             /\ authored[s] # NoFrontmatter
             /\ d \in Backlinks(authored[s])[f]
  <2>1. s \in Docs
    BY <1>2 DEF Frontmatter
  <2>2. f \in BackFields /\ authored[s] # NoFrontmatter /\ d \in authored[s][ForwardOf(f)]
    BY <1>1, <1>3 DEF FileKept, Wrote
  <2>3. authored[s] \in Frontmatter
    BY <2>1, <2>2 DEF LinksInv, LinksKept
  <2> QED BY <2>2, <2>3, BacklinksAre DEF BackFields
<1> QED BY <1>1, <1>3 DEF FileKept

LEMMA InvImpliesVerifies ==
    ASSUME LinksInv, UpdateInv
    PROVE  UpdatedLinksVerify
<1> SUFFICES ASSUME AtRest, NEW d \in scope \ failed, NEW t \in Docs \ raced
             PROVE  /\ Parses(d)
                    /\ LinkVerified(d, "refinedIn", t, "refinedFrom")
                    /\ LinkVerified(d, "refinedFrom", t, "refinedIn")
                    /\ Parses(t) => LinkVerified(d, "validatedBy", t, "validates")
  BY DEF UpdatedLinksVerify
<1>1. d \in scope \ (waiting \cup failed) /\ d \in Docs
  BY DEF AtRest, LinksInv
<1>2. \A w \in LinkWorkers : linker[w] = Resting
  BY DEF AtRest
<1>3. \A e : Touchers(linker, e) = {}
  BY <1>2 DEF Touchers, Resting
<1>4. /\ Parses(d) /\ Files(docs, linker, d) = {docs[d]}
      /\ There(docs, linker, t) <=> Parses(t)
      /\ Files(docs, linker, t) = {docs[t]} \ {NoFrontmatter}
  BY <1>1, <1>3, ThereUntouched DEF UpdateInv, Parses
<1>5. ASSUME NEW f \in BackFields, t \in docs[d][ForwardOf(f)]
      PROVE  /\ f # "validates" => Parses(t)
             /\ Parses(t) => d \in docs[t][f]
  <2>1. Owed(linker, d, f, t) \/ BacklinkThere(docs, linker, d, f, t)
    BY <1>1, <1>4, <1>5 DEF UpdateInv
  <2>2. ~Owed(linker, d, f, t)
    BY <1>2 DEF Owed
  <2> QED BY <1>4, <2>1, <2>2 DEF BacklinkThere, Parses
<1>6. /\ ForwardOf("refinedFrom") = "refinedIn" /\ ForwardOf("refinedIn") = "refinedFrom"
      /\ ForwardOf("validates") = "validatedBy"
      /\ {"refinedFrom", "refinedIn", "validates"} \subseteq BackFields
  BY DEF ForwardOf, BackFields
<1> QED BY <1>4, <1>5, <1>6 DEF LinkVerified

LEMMA AlwaysLinksInv ==
    ASSUME LinkAssumption
    PROVE  LinksSpec => [](LinksInv /\ UpdateInv)
<1>1. LinksInit => LinksInv /\ UpdateInv
  BY LinksInitially
<1>2. LinksInv /\ UpdateInv /\ [LinksNext]_linkVars => LinksInv' /\ UpdateInv'
  BY LinksStep
<1> QED BY <1>1, <1>2, PTL DEF LinksSpec

(* What the update of links keeps of itself beside the links. *)
LinksTyped ==
    /\ authored \in Libraries
    /\ failed \subseteq scope /\ raced \subseteq Docs
    /\ \A w \in LinkWorkers : linker[w] # Resting => Pending(linker[w].todo) # {}

Works(op) == op # Resting => Pending(op.todo) # {}

LEMMA UpdateWorks ==
    ASSUME NEW d, NEW todo
    PROVE  Works(Update(d, todo))
<1>1. CASE Pending(todo) = {}
  BY <1>1 DEF Works, Update
<1>2. CASE Pending(todo) # {}
  <2>1. PICK new : new = [pc |-> "find", doc |-> d, todo |-> todo]
    OBVIOUS
  <2>2. Update(d, todo) = new
    BY <1>2, <2>1 DEF Update
  <2> QED BY <1>2, <2>1, <2>2 DEF Works
<1> QED BY <1>1, <1>2

LEMMA DoneWorks ==
    ASSUME NEW op
    PROVE  Works(Done(op))
BY UpdateWorks DEF Done

LEMMA LinksTypedInitially ==
    ASSUME LinksInit
    PROVE  LinksTyped
BY DEF LinksInit, LinksTyped

(* A thread goes on with an operation that has something to do. *)
LEMMA WorkerGoesOn ==
    ASSUME LinksInv, LinksTyped, NEW w \in LinkWorkers, NEW new, Run(w, new), Works(new),
           authored' = authored, scope' = scope, failed' \subseteq scope, raced' \subseteq Docs
    PROVE  LinksTyped'
<1>1. \A v \in LinkWorkers : linker'[v] = IF v = w THEN new ELSE linker[v]
  BY DEF Run, LinksInv, LinksKept
<1> QED BY <1>1 DEF LinksTyped, Works

LEMMA LinksTypedStep ==
    ASSUME LinksInv, UpdateInv, LinksTyped, [LinksNext]_linkVars
    PROVE  LinksTyped'
<1>t. /\ authored \in Libraries /\ failed \subseteq scope /\ raced \subseteq Docs
      /\ waiting \subseteq scope /\ scope \subseteq Docs
      /\ \A w \in LinkWorkers : Works(linker[w]) /\ linker[w] \in LinkerOps
  BY DEF LinksTyped, LinksInv, LinksKept, Works
<1>1. CASE StartUpdate
  BY <1>1 DEF StartUpdate, LinksTyped
<1>2. CASE UpdateDies
  <2>1. \A w \in LinkWorkers : linker'[w] = Resting
    BY <1>2 DEF UpdateDies
  <2> QED BY <1>2, <1>t, <2>1 DEF UpdateDies, LinksTyped
<1>3. ASSUME NEW w \in LinkWorkers, TakeDocument(w)
      PROVE  LinksTyped'
  <2>1. PICK d \in waiting :
          \/ \E todo : Run(w, Update(d, todo)) /\ UNCHANGED failed
          \/ failed' = failed \cup {d} /\ UNCHANGED linker
    BY <1>3 DEF TakeDocument
  <2>2. UNCHANGED <<docs, authored, scope, raced>>
    BY <1>3 DEF TakeDocument
  <2>3. CASE \E todo : Run(w, Update(d, todo)) /\ UNCHANGED failed
    BY <1>t, <2>2, <2>3, UpdateWorks, WorkerGoesOn
  <2>4. CASE failed' = failed \cup {d} /\ UNCHANGED linker
    BY <1>t, <2>2, <2>4 DEF LinksTyped
  <2> QED BY <2>1, <2>3, <2>4
<1>4. ASSUME NEW w \in LinkWorkers, FindTarget(w)
      PROVE  LinksTyped'
  <2>1. PICK op : op = linker[w]
    OBVIOUS
  <2>2. /\ op.pc = "find" /\ UNCHANGED <<docs, authored, scope, waiting>>
        /\ op \in LinkerOps /\ Works(op)
    BY <1>4, <1>t, <2>1 DEF FindTarget
  <2>3. op # Resting /\ op.todo \in Todos
    BY <2>2, LinkerOpsAre
  <2>4. PICK b \in NextBacklinks(op.todo) : \E new :
          /\ new = [pc |-> "read", doc |-> op.doc, todo |-> op.todo,
                    field |-> b[1], target |-> b[2]]
          /\ Run(w, new) \/ Run(w, Done(new))
          /\ failed' \in {failed, failed \cup {op.doc}}
          /\ Races(w, b[2])
    BY <1>4, <2>1 DEF FindTarget
  <2>5. b[2] \in Docs
    BY <2>3, PendingAre
  <2>6. op.doc \in scope
    BY <2>1, <2>3 DEF UpdateInv
  <2>7. PICK next :
          /\ next = [pc |-> "read", doc |-> op.doc, todo |-> op.todo,
                     field |-> b[1], target |-> b[2]]
          /\ Run(w, next) \/ Run(w, Done(next))
    BY <2>4
  <2>8. failed' \subseteq scope /\ raced' \subseteq Docs
    BY <1>t, <2>4, <2>5, <2>6 DEF Races
  <2>9. Works(next)
    BY <2>2, <2>3, <2>7 DEF Works
  <2> QED BY <2>2, <2>7, <2>8, <2>9, DoneWorks, WorkerGoesOn
<1>5. ASSUME NEW w \in LinkWorkers, ReadTarget(w)
      PROVE  LinksTyped'
  <2>1. PICK op : op = linker[w]
    OBVIOUS
  <2>2. /\ op.pc = "read" /\ UNCHANGED <<docs, authored, scope, waiting, failed>>
        /\ op \in LinkerOps /\ Works(op) /\ Races(w, op.target)
    BY <1>5, <1>t, <2>1 DEF ReadTarget
  <2>3. op # Resting /\ op.target \in Docs
    BY <2>2, LinkerOpsAre
  <2>4. PICK new : /\ Run(w, new)
                   /\ \/ new = Done(op)
                      \/ \E file : new = [pc |-> "empty", doc |-> op.doc, todo |-> op.todo,
                                          field |-> op.field, target |-> op.target, file |-> file]
    BY <1>5, <2>1 DEF ReadTarget
  <2>5. Works(new)
    BY <2>2, <2>3, <2>4, DoneWorks DEF Works
  <2>6. raced' \subseteq Docs
    BY <1>t, <2>2, <2>3 DEF Races
  <2> QED BY <1>t, <2>2, <2>4, <2>5, <2>6, WorkerGoesOn
<1>6. ASSUME NEW w \in LinkWorkers, EmptyTarget(w)
      PROVE  LinksTyped'
  <2>1. PICK op, new : op = linker[w] /\ new = [op EXCEPT !.pc = "write"]
    OBVIOUS
  <2>2. /\ op.pc = "empty" /\ UNCHANGED <<authored, scope, waiting, failed, raced>>
        /\ op \in LinkerOps /\ Works(op) /\ Run(w, new)
    BY <1>6, <1>t, <2>1 DEF EmptyTarget
  <2>3. op # Resting /\ new.todo = op.todo
    BY <2>1, <2>2, LinkerOpsAre
  <2> QED BY <1>t, <2>2, <2>3, WorkerGoesOn DEF Works
<1>7. ASSUME NEW w \in LinkWorkers, WriteTarget(w)
      PROVE  LinksTyped'
  BY <1>7, <1>t, DoneWorks, WorkerGoesOn DEF WriteTarget
<1>8. CASE UNCHANGED linkVars
  BY <1>8 DEF linkVars, LinksTyped
<1> QED BY <1>1, <1>2, <1>3, <1>4, <1>5, <1>6, <1>7, <1>8 DEF LinksNext

LEMMA LinksTypes ==
    ASSUME LinksInv, UpdateInv, LinksTyped
    PROVE  LinksTypeOK
<1>1. ASSUME NEW w \in LinkWorkers
      PROVE  LET op == linker[w] IN
             \/ op = Resting
             \/ /\ op.pc \in {"find", "read", "empty", "write"}
                /\ op.doc \in scope \ waiting
                /\ Pending(op.todo) # {}
  <2>1. linker[w] \in LinkerOps
    BY DEF LinksInv, LinksKept
  <2> QED BY <2>1, LinkerOpsAre DEF UpdateInv, LinksTyped
<1> QED BY <1>1 DEF LinksInv, LinksKept, LinksTyped, LinksTypeOK

(* However many threads write over each other, and whenever an update      *)
(* dies: a file that can be read has every link of its author, and any     *)
(* other link in it answers one of another author.                         *)
THEOREM AuthoredLinksAlwaysKept ==
    ASSUME LinkAssumption
    PROVE  LinksSpec => []AuthoredLinksKept
<1>1. LinksInv => AuthoredLinksKept
  BY InvImpliesKept
<1> QED BY <1>1, AlwaysLinksInv, PTL

(* A document that an update reports no error about passes verify_links    *)
(* when it is over, but for missing tests and files two threads met at.    *)
THEOREM UpdatedLinksAlwaysVerify ==
    ASSUME LinkAssumption
    PROVE  LinksSpec => []UpdatedLinksVerify
<1>1. LinksInv /\ UpdateInv => UpdatedLinksVerify
  BY InvImpliesVerifies
<1> QED BY <1>1, AlwaysLinksInv, PTL

-----------------------------------------------------------------------------
(* The evidence stream.  As long as every line of the stream is one event, *)
(* the lines of the stream and the events that were appended are the same, *)
(* as often as they are there; and every event comes from a sound file.    *)

SoundLists ==
    UNION {Range(EventsOf(batch[1], batch[2])) :
              batch \in {b \in Tools \X InputFiles : Sound(b[1], b[2])}}
SoundEvents == UNION {Range(list) : list \in SoundLists}

SoundPieces == [by : Converters, event : SoundEvents, part : {"first", "last"}]
Batches == Seq(Seq(SoundEvents) \ {<<>>}) \ {<<>>}
ConverterOps == {Idling} \cup [pc : {"append", "rest"}, todo : Batches]

WholeLines(stream) ==
    \A i \in DOMAIN stream : EndsALine(stream, i) => IsOneEvent(stream, i)

LinesOf(stream, e) == {i \in DOMAIN stream : EndsALine(stream, i) /\ stream[i].event = e}
PlacesOf(events, e) == {i \in DOMAIN events : events[i] = e}

AllCounted(stream, events) ==
    \A e : Cardinality(LinesOf(stream, e)) = Cardinality(PlacesOf(events, e))

EvidenceInv ==
    /\ evidence \in Seq(SoundPieces)
    /\ appended \in Seq(SoundEvents)
    /\ converter \in [Converters -> ConverterOps]
    /\ WholeLines(evidence) => AllCounted(evidence, appended)

(* The translation of a valid line is a list of at least one event.        *)
LEMMA TranslatedLists ==
    ASSUME EvidenceAssumption, NEW tool \in Tools, NEW file \in InputFiles,
           Sound(tool, file), NEW i \in DOMAIN file
    PROVE  Translated(tool, file[i]) \in Seq(SoundEvents) \ {<<>>}
<1> DEFINE list == Translated(tool, file[i])
<1>1. list \in SoundLists
  <2>1. list = EventsOf(tool, file)[i] /\ DOMAIN EventsOf(tool, file) = DOMAIN file
    BY DEF EventsOf
  <2>2. list \in Range(EventsOf(tool, file))
    BY <2>1 DEF Range
  <2>3. <<tool, file>> \in {b \in Tools \X InputFiles : Sound(b[1], b[2])}
    OBVIOUS
  <2> HIDE DEF list
  <2> QED BY <2>2, <2>3 DEF SoundLists
<1>2. \A j \in DOMAIN list : list[j] \in SoundEvents
  <2> HIDE DEF list
  <2> QED BY <1>1 DEF SoundEvents, Range
<1>3. \/ list = SafetyEvents(file[i]) \/ list = FailureEvents(file[i]) \/ list = AgentEvents(file[i])
  BY DEF Translated, Tools
<1>4. CASE list = SafetyEvents(file[i])
  <2>1. PICK e : list = <<e>>
    BY <1>4 DEF SafetyEvents
  <2> HIDE DEF list
  <2>2. e \in SoundEvents
    BY <1>2, <2>1
  <2> QED BY <2>1, <2>2 DEF list
<1>5. CASE list = AgentEvents(file[i])
  <2>1. PICK e : list = <<e>>
    BY <1>5 DEF AgentEvents
  <2> HIDE DEF list
  <2>2. e \in SoundEvents
    BY <1>2, <2>1
  <2> QED BY <2>1, <2>2 DEF list
<1>6. CASE list = FailureEvents(file[i])
  <2>1. PICK e, f : \E last \in {<<>>, <<f>>} : list = <<e>> \o last
    BY <1>6 DEF FailureEvents
  <2>2. PICK last \in {<<>>, <<f>>} : list = <<e>> \o last
    BY <2>1
  <2> HIDE DEF list
  <2>3. <<e>> \in Seq({e, f}) /\ last \in Seq({e, f}) /\ Len(<<e>>) = 1 /\ Len(last) \in Nat
    <3>1. <<e>> \in Seq({e, f}) /\ Len(<<e>>) = 1
      OBVIOUS
    <3>2. CASE last = <<>>
      BY <3>1, <3>2
    <3>3. CASE last = <<f>>
      BY <3>1, <3>3
    <3> QED BY <3>2, <3>3
  <2>4. list \in Seq({e, f}) /\ Len(list) = 1 + Len(last)
    BY <2>2, <2>3, ConcatProperties
  <2>5. list = [k \in 1 .. Len(list) |-> list[k]] /\ Len(list) \in Nat /\ DOMAIN list = 1 .. Len(list)
    BY <2>4
  <2>6. list \in Seq(SoundEvents)
    BY <1>2, <2>5
  <2>7. list # <<>>
    BY <2>3, <2>4
  <2> QED BY <2>6, <2>7 DEF list
<1> QED BY <1>3, <1>4, <1>5, <1>6

(* What a conversion is to append is not empty, and its events are sound.  *)
LEMMA ConversionIsABatch ==
    ASSUME EvidenceAssumption, NEW tool \in Tools, NEW file \in InputFiles,
           Sound(tool, file), file # <<>>
    PROVE  EventsOf(tool, file) \in Batches
<1>1. file \in Seq(Range(file))
  BY DEF EvidenceAssumption
<1>2. \A i \in DOMAIN file : Translated(tool, file[i]) \in Seq(SoundEvents) \ {<<>>}
  BY TranslatedLists
<1>3. DOMAIN file = 1 .. Len(file) /\ Len(file) \in Nat /\ Len(file) # 0
  BY <1>1, EmptySeq
<1>4. EventsOf(tool, file) = [i \in 1 .. Len(file) |-> Translated(tool, file[i])]
  BY <1>3 DEF EventsOf
<1>5. EventsOf(tool, file) \in Seq(Seq(SoundEvents) \ {<<>>})
  BY <1>2, <1>3, <1>4
<1>6. Len(EventsOf(tool, file)) = Len(file)
  BY <1>3, <1>4
<1> QED BY <1>3, <1>5, <1>6 DEF Batches

(* The event that is appended next, and what is left after it.             *)
LEMMA NextOfBatch ==
    ASSUME NEW batch \in Batches
    PROVE  /\ Head(Head(batch)) \in SoundEvents
           /\ AfterFirst(batch) = <<>> \/ AfterFirst(batch) \in Batches
<1> DEFINE L == Seq(SoundEvents) \ {<<>>}
<1>1. batch \in Seq(L) /\ batch # <<>>
  BY DEF Batches
<1> HIDE DEF L
<1>2. Head(batch) \in L /\ Tail(batch) \in Seq(L)
  BY <1>1, HeadTailProperties
<1>3. Head(batch) \in Seq(SoundEvents) /\ Head(batch) # <<>>
  BY <1>2 DEF L
<1>4. /\ Head(Head(batch)) \in SoundEvents
      /\ Tail(Head(batch)) \in Seq(SoundEvents)
      /\ Len(Tail(Head(batch))) = Len(Head(batch)) - 1
  BY <1>3, HeadTailProperties
<1>5. CASE Len(Head(batch)) > 1
  <2> DEFINE t == Tail(Head(batch))
  <2>0. t \in Seq(SoundEvents) /\ Len(t) = Len(Head(batch)) - 1 /\ Len(Head(batch)) \in Nat
    BY <1>3, <1>4
  <2> HIDE DEF t
  <2>1. t # <<>>
    BY <1>5, <2>0
  <2> USE DEF t
  <2>2. Tail(Head(batch)) \in L
    BY <1>4, <2>1 DEF L
  <2>3. AfterFirst(batch) = <<Tail(Head(batch))>> \o Tail(batch)
    BY <1>5 DEF AfterFirst
  <2>4. <<Tail(Head(batch))>> \in Seq(L)
    BY <2>2
  <2>5. AfterFirst(batch) \in Seq(L) /\ Len(AfterFirst(batch)) = 1 + Len(Tail(batch))
    BY <1>2, <2>3, <2>4, ConcatProperties
  <2>6. AfterFirst(batch) # <<>>
    BY <1>2, <2>5
  <2> QED BY <1>4, <2>5, <2>6 DEF Batches, L
<1>6. CASE ~(Len(Head(batch)) > 1)
  <2>1. AfterFirst(batch) = <<>> \o Tail(batch)
    BY <1>6 DEF AfterFirst
  <2>2. AfterFirst(batch) = Tail(batch)
    BY <1>2, <2>1, ConcatEmptySeq
  <2> QED BY <1>2, <1>4, <2>2 DEF Batches, L
<1> QED BY <1>5, <1>6

(* The lines of a stream that has grown by one line, or by none.           *)
LEMMA LinesAfter ==
    ASSUME NEW stream \in Seq(SoundPieces), NEW new \in Seq(SoundPieces),
           Len(new) > Len(stream),
           \A i \in 1 .. Len(stream) : new[i] = stream[i],
           \A i \in Len(stream) + 1 .. Len(new) - 1 : new[i].part = "first",
           NEW e
    PROVE  /\ WholeLines(new) => WholeLines(stream)
           /\ LinesOf(new, e) =
                 IF new[Len(new)].part = "last" /\ new[Len(new)].event = e
                 THEN LinesOf(stream, e) \cup {Len(new)} ELSE LinesOf(stream, e)
           /\ Len(new) \notin LinesOf(stream, e)
<1>1. /\ DOMAIN stream = 1 .. Len(stream) /\ Len(stream) \in Nat
      /\ DOMAIN new = 1 .. Len(new) /\ Len(new) \in Nat
  OBVIOUS
<1>2. ASSUME WholeLines(new) PROVE WholeLines(stream)
  <2> SUFFICES ASSUME NEW i \in 1 .. Len(stream), EndsALine(stream, i)
               PROVE  IsOneEvent(stream, i)
    BY <1>1 DEF WholeLines
  <2>1. IsOneEvent(new, i)
    BY <1>1, <1>2 DEF WholeLines, EndsALine
  <2>2. i > 1 /\ i - 1 \in 1 .. Len(stream) /\ (i > 2 => i - 2 \in 1 .. Len(stream))
    BY <1>1, <2>1 DEF IsOneEvent
  <2> QED BY <2>1, <2>2 DEF IsOneEvent, EndsALine
<1>3. \A i \in 1 .. Len(stream) : i \in LinesOf(new, e) <=> i \in LinesOf(stream, e)
  BY <1>1 DEF LinesOf, EndsALine
<1>4. \A i \in Len(stream) + 1 .. Len(new) - 1 : i \notin LinesOf(new, e)
  BY DEF LinesOf, EndsALine
<1>5. LinesOf(new, e) \subseteq 1 .. Len(new) /\ LinesOf(stream, e) \subseteq 1 .. Len(stream)
  BY <1>1 DEF LinesOf
<1>6. Len(new) \in LinesOf(new, e)
         <=> new[Len(new)].part = "last" /\ new[Len(new)].event = e
  BY <1>1 DEF LinesOf, EndsALine
<1>7. \A i \in 1 .. Len(new) :
         i \in 1 .. Len(stream) \/ i \in Len(stream) + 1 .. Len(new) - 1 \/ i = Len(new)
  <2>1. \A n, m \in Nat : n < m =>
           \A i \in 1 .. m : i \in 1 .. n \/ i \in n + 1 .. m - 1 \/ i = m
    OBVIOUS
  <2> QED BY <1>1, <2>1
<1>8. Len(new) \notin LinesOf(stream, e)
  BY <1>1, <1>5
<1>9. CASE new[Len(new)].part = "last" /\ new[Len(new)].event = e
  <2>1. \A i : i \in LinesOf(new, e) <=> i \in LinesOf(stream, e) \cup {Len(new)}
    BY <1>1, <1>3, <1>4, <1>5, <1>6, <1>7, <1>9
  <2> QED BY <1>2, <1>8, <1>9, <2>1
<1>10. CASE ~(new[Len(new)].part = "last" /\ new[Len(new)].event = e)
  <2>1. \A i : i \in LinesOf(new, e) <=> i \in LinesOf(stream, e)
    BY <1>1, <1>3, <1>4, <1>5, <1>6, <1>7, <1>10
  <2>2. LinesOf(new, e) = LinesOf(stream, e)
    BY <2>1
  <2> QED BY <1>2, <1>8, <1>10, <2>2
<1> QED BY <1>9, <1>10

LEMMA LinesAreFinite ==
    ASSUME NEW stream \in Seq(SoundPieces), NEW e
    PROVE  IsFiniteSet(LinesOf(stream, e)) /\ Cardinality(LinesOf(stream, e)) \in Nat
<1>1. LinesOf(stream, e) \subseteq 1 .. Len(stream) /\ Len(stream) \in Nat
  BY DEF LinesOf
<1>2. IsFiniteSet(1 .. Len(stream))
  BY <1>1, FS_Interval
<1>3. IsFiniteSet(LinesOf(stream, e))
  BY <1>1, <1>2, FS_Subset
<1> QED BY <1>3, FS_CardinalityType

LEMMA PlacesAreFinite ==
    ASSUME NEW events \in Seq(SoundEvents), NEW e
    PROVE  IsFiniteSet(PlacesOf(events, e)) /\ Cardinality(PlacesOf(events, e)) \in Nat
<1>1. PlacesOf(events, e) \subseteq 1 .. Len(events) /\ Len(events) \in Nat
  BY DEF PlacesOf
<1>2. IsFiniteSet(1 .. Len(events))
  BY <1>1, FS_Interval
<1>3. IsFiniteSet(PlacesOf(events, e))
  BY <1>1, <1>2, FS_Subset
<1> QED BY <1>3, FS_CardinalityType

(* One more event is counted once more.                                    *)
LEMMA PlacesAfterAppend ==
    ASSUME NEW events \in Seq(SoundEvents), NEW new \in SoundEvents, NEW e
    PROVE  Cardinality(PlacesOf(Append(events, new), e)) =
              Cardinality(PlacesOf(events, e)) + (IF new = e THEN 1 ELSE 0)
<1> DEFINE more == Append(events, new)  n == Len(events) + 1
<1>1. /\ more \in Seq(SoundEvents) /\ Len(more) = n
      /\ \A i \in 1 .. Len(events) : more[i] = events[i]
      /\ more[n] = new /\ Len(events) \in Nat
  BY AppendProperties
<1> HIDE DEF more
<1>2. DOMAIN more = 1 .. n /\ DOMAIN events = 1 .. Len(events)
  BY <1>1
<1>3. PlacesOf(more, e) = IF new = e THEN PlacesOf(events, e) \cup {n} ELSE PlacesOf(events, e)
  BY <1>1, <1>2 DEF PlacesOf
<1>4. n \notin PlacesOf(events, e)
  BY <1>1, <1>2 DEF PlacesOf
<1>5. IsFiniteSet(PlacesOf(events, e)) /\ Cardinality(PlacesOf(events, e)) \in Nat
  BY PlacesAreFinite
<1>6. Cardinality(PlacesOf(events, e) \cup {n}) = Cardinality(PlacesOf(events, e)) + 1
  BY <1>4, <1>5, FS_AddElement
<1>7. Cardinality(PlacesOf(more, e)) =
         Cardinality(PlacesOf(events, e)) + (IF new = e THEN 1 ELSE 0)
  BY <1>3, <1>5, <1>6
<1> QED BY <1>7 DEF more

(* A stream that grows by the line of an event that is counted too.        *)
LEMMA CountedTogether ==
    ASSUME NEW stream \in Seq(SoundPieces), NEW new \in Seq(SoundPieces),
           NEW events \in Seq(SoundEvents),
           Len(new) > Len(stream),
           \A i \in 1 .. Len(stream) : new[i] = stream[i],
           \A i \in Len(stream) + 1 .. Len(new) - 1 : new[i].part = "first",
           new[Len(new)].part = "last",
           WholeLines(stream) => AllCounted(stream, events),
           WholeLines(new)
    PROVE  AllCounted(new, Append(events, new[Len(new)].event))
<1> DEFINE last == new[Len(new)].event
<1>1. SUFFICES ASSUME NEW e
               PROVE  Cardinality(LinesOf(new, e)) = Cardinality(PlacesOf(Append(events, last), e))
  BY DEF AllCounted
<1>2. last \in SoundEvents
  <2>1. Len(new) \in 1 .. Len(new) /\ DOMAIN new = 1 .. Len(new)
    OBVIOUS
  <2>2. new[Len(new)] \in SoundPieces
    BY <2>1
  <2> QED BY <2>2 DEF SoundPieces
<1> HIDE DEF last
<1>3. /\ WholeLines(stream)
      /\ LinesOf(new, e) = IF last = e THEN LinesOf(stream, e) \cup {Len(new)} ELSE LinesOf(stream, e)
      /\ Len(new) \notin LinesOf(stream, e)
  BY LinesAfter DEF last
<1>4. Cardinality(LinesOf(stream, e)) = Cardinality(PlacesOf(events, e))
  BY <1>3 DEF AllCounted
<1>5. IsFiniteSet(LinesOf(stream, e)) /\ Cardinality(LinesOf(stream, e)) \in Nat
  BY LinesAreFinite
<1>6. Cardinality(LinesOf(stream, e) \cup {Len(new)}) = Cardinality(LinesOf(stream, e)) + 1
  BY <1>3, <1>5, FS_AddElement
<1>7. Cardinality(PlacesOf(Append(events, last), e)) =
         Cardinality(PlacesOf(events, e)) + (IF last = e THEN 1 ELSE 0)
  BY <1>2, PlacesAfterAppend
<1> QED BY <1>3, <1>4, <1>5, <1>6, <1>7

LEMMA EvidenceStarts ==
    ASSUME EvidenceInit
    PROVE  EvidenceInv
<1>1. evidence \in Seq(SoundPieces) /\ appended \in Seq(SoundEvents)
  BY DEF EvidenceInit
<1>2. converter \in [Converters -> ConverterOps]
  BY DEF EvidenceInit, ConverterOps
<1>3. AllCounted(evidence, appended)
  <2>1. \A e : LinesOf(evidence, e) = {} /\ PlacesOf(appended, e) = {}
    BY DEF EvidenceInit, LinesOf, PlacesOf
  <2> QED BY <2>1 DEF AllCounted
<1> QED BY <1>1, <1>2, <1>3 DEF EvidenceInv

(* Completing an event: what is left is a batch, or the converter is done. *)
LEMMA CompleteKeeps ==
    ASSUME EvidenceInv, NEW c \in Converters, converter[c].pc \in {"append", "rest"}, Complete(c)
    PROVE  /\ NextEvent(c) \in SoundEvents
           /\ appended' = Append(appended, NextEvent(c))
           /\ appended' \in Seq(SoundEvents)
           /\ converter' \in [Converters -> ConverterOps]
<1>1. converter[c] \in ConverterOps
  BY DEF EvidenceInv
<1>2. converter[c].todo \in Batches
  BY <1>1 DEF ConverterOps, Idling
<1> DEFINE rest == AfterFirst(converter[c].todo)
<1>3. NextEvent(c) \in SoundEvents /\ (rest = <<>> \/ rest \in Batches)
  BY <1>2, NextOfBatch DEF NextEvent
<1>4. (IF rest = <<>> THEN Idling ELSE [pc |-> "append", todo |-> rest]) \in ConverterOps
  BY <1>3 DEF ConverterOps
<1> HIDE DEF rest
<1>5. converter' = [converter EXCEPT
         ![c] = IF rest = <<>> THEN Idling ELSE [pc |-> "append", todo |-> rest]]
  BY DEF Complete, rest
<1>6. converter' \in [Converters -> ConverterOps]
  BY <1>4, <1>5 DEF EvidenceInv
<1>7. appended' = Append(appended, NextEvent(c)) /\ appended \in Seq(SoundEvents)
  BY DEF Complete, EvidenceInv
<1> QED BY <1>3, <1>6, <1>7, AppendProperties

LEMMA EvidenceKeeps ==
    ASSUME EvidenceAssumption, EvidenceInv, [EvidenceNext]_evidenceVars
    PROVE  EvidenceInv'
<1>1. CASE UNCHANGED <<evidence, appended>> /\ converter' \in [Converters -> ConverterOps]
  <2>1. /\ evidence' = evidence /\ appended' = appended
        /\ (WholeLines(evidence) => AllCounted(evidence, appended))
    BY <1>1 DEF EvidenceInv
  <2>2. (WholeLines(evidence) => AllCounted(evidence, appended))'
    BY <2>1
  <2> QED BY <1>1, <2>1, <2>2 DEF EvidenceInv
<1>2. CASE BuildReport \/ UNCHANGED evidenceVars
  BY <1>1, <1>2 DEF BuildReport, evidenceVars, EvidenceInv
<1>3. ASSUME NEW c \in Converters, Convert(c)
      PROVE  EvidenceInv'
  <2>1. PICK tool \in Tools, file \in InputFiles :
           /\ Sound(tool, file) /\ file # <<>>
           /\ converter' = [converter EXCEPT
                 ![c] = [pc |-> "append", todo |-> EventsOf(tool, file)]]
    BY <1>3 DEF Convert
  <2>2. [pc |-> "append", todo |-> EventsOf(tool, file)] \in ConverterOps
    BY <2>1, ConversionIsABatch DEF ConverterOps
  <2>3. converter' \in [Converters -> ConverterOps]
    BY <2>1, <2>2 DEF EvidenceInv
  <2> QED BY <1>1, <1>3, <2>3 DEF Convert
<1>4. ASSUME NEW c \in Converters, ConverterDies(c)
      PROVE  EvidenceInv'
  <2>1. converter' \in [Converters -> ConverterOps]
    BY <1>4 DEF ConverterDies, EvidenceInv, ConverterOps
  <2> QED BY <1>1, <1>4, <2>1 DEF ConverterDies
<1>5. ASSUME NEW c \in Converters, AppendWhole(c)
      PROVE  EvidenceInv'
  <2> DEFINE e == NextEvent(c)
             line == <<Piece(c, e, "first"), Piece(c, e, "last")>>
  <2>1. /\ e \in SoundEvents /\ appended' = Append(appended, e)
        /\ appended' \in Seq(SoundEvents) /\ converter' \in [Converters -> ConverterOps]
    BY <1>5, CompleteKeeps DEF AppendWhole
  <2>2. evidence' = evidence \o line
    BY <1>5 DEF AppendWhole
  <2> HIDE DEF e
  <2>3. line \in Seq(SoundPieces) /\ Len(line) = 2
    BY <2>1 DEF Piece, SoundPieces
  <2>4. /\ evidence' \in Seq(SoundPieces) /\ Len(evidence') = Len(evidence) + 2
        /\ \A i \in 1 .. Len(evidence) + 2 :
              evidence'[i] = IF i <= Len(evidence) THEN evidence[i] ELSE line[i - Len(evidence)]
    BY <2>2, <2>3, ConcatProperties DEF EvidenceInv
  <2>5. Len(evidence) \in Nat /\ evidence \in Seq(SoundPieces)
    BY DEF EvidenceInv
  <2>6. /\ evidence'[Len(evidence')] = Piece(c, e, "last")
        /\ evidence'[Len(evidence) + 1] = Piece(c, e, "first")
    BY <2>4, <2>5
  <2>7. /\ \A i \in 1 .. Len(evidence) : evidence'[i] = evidence[i]
        /\ \A i \in Len(evidence) + 1 .. Len(evidence') - 1 : evidence'[i].part = "first"
        /\ evidence'[Len(evidence')].part = "last" /\ evidence'[Len(evidence')].event = e
    BY <2>4, <2>5, <2>6 DEF Piece
  <2>8. ASSUME WholeLines(evidence') PROVE AllCounted(evidence', appended')
    <3>1. appended \in Seq(SoundEvents) /\ (WholeLines(evidence) => AllCounted(evidence, appended))
      BY DEF EvidenceInv
    <3>2. Len(evidence') > Len(evidence)
      BY <2>4, <2>5
    <3>3. \A i \in Len(evidence) + 1 .. Len(evidence') - 1 : evidence'[i].part = "first"
      BY <2>4, <2>5, <2>7
    <3>4. AllCounted(evidence', Append(appended, evidence'[Len(evidence')].event))
      BY <2>4, <2>5, <2>7, <2>8, <3>1, <3>2, <3>3, CountedTogether
    <3> QED BY <2>1, <2>7, <3>4
  <2> QED BY <2>1, <2>4, <2>8 DEF EvidenceInv
<1>6. ASSUME NEW c \in Converters, AppendRest(c)
      PROVE  EvidenceInv'
  <2> DEFINE e == NextEvent(c)
  <2>1. /\ e \in SoundEvents /\ appended' = Append(appended, e)
        /\ appended' \in Seq(SoundEvents) /\ converter' \in [Converters -> ConverterOps]
    BY <1>6, CompleteKeeps DEF AppendRest
  <2>2. evidence' = Append(evidence, Piece(c, e, "last"))
    BY <1>6 DEF AppendRest
  <2> HIDE DEF e
  <2>3. Piece(c, e, "last") \in SoundPieces
    BY <2>1 DEF Piece, SoundPieces
  <2>4. /\ evidence' \in Seq(SoundPieces) /\ Len(evidence') = Len(evidence) + 1
        /\ \A i \in 1 .. Len(evidence) : evidence'[i] = evidence[i]
        /\ evidence'[Len(evidence) + 1] = Piece(c, e, "last")
    BY <2>2, <2>3, AppendProperties DEF EvidenceInv
  <2>5. Len(evidence) \in Nat /\ evidence \in Seq(SoundPieces)
    BY DEF EvidenceInv
  <2>6. evidence'[Len(evidence')].part = "last" /\ evidence'[Len(evidence')].event = e
    BY <2>4 DEF Piece
  <2>7. ASSUME WholeLines(evidence') PROVE AllCounted(evidence', appended')
    <3>1. appended \in Seq(SoundEvents) /\ (WholeLines(evidence) => AllCounted(evidence, appended))
      BY DEF EvidenceInv
    <3>2. Len(evidence') > Len(evidence)
      BY <2>4, <2>5
    <3>3. \A i \in Len(evidence) + 1 .. Len(evidence') - 1 : evidence'[i].part = "first"
      BY <2>4, <2>5, <2>6
    <3>4. AllCounted(evidence', Append(appended, evidence'[Len(evidence')].event))
      BY <2>4, <2>5, <2>6, <2>7, <3>1, <3>2, <3>3, CountedTogether
    <3> QED BY <2>1, <2>6, <3>4
  <2> QED BY <2>1, <2>4, <2>7 DEF EvidenceInv
<1>7. ASSUME NEW c \in Converters, AppendFirst(c)
      PROVE  EvidenceInv'
  <2> DEFINE e == NextEvent(c)
  <2>1. converter[c] \in ConverterOps /\ converter[c].pc = "append"
    BY <1>7 DEF AppendFirst, EvidenceInv
  <2>2. converter[c] \in [pc : {"append", "rest"}, todo : Batches]
    BY <2>1 DEF ConverterOps, Idling
  <2>3. converter' \in [Converters -> ConverterOps]
    BY <1>7, <2>2 DEF AppendFirst, EvidenceInv, ConverterOps
  <2>4. e \in SoundEvents
    BY <2>2, NextOfBatch DEF NextEvent
  <2>5. evidence' = Append(evidence, Piece(c, e, "first")) /\ appended' = appended
    BY <1>7 DEF AppendFirst
  <2> HIDE DEF e
  <2>6. Piece(c, e, "first") \in SoundPieces
    BY <2>4 DEF Piece, SoundPieces
  <2>7. /\ evidence' \in Seq(SoundPieces) /\ Len(evidence') = Len(evidence) + 1
        /\ \A i \in 1 .. Len(evidence) : evidence'[i] = evidence[i]
        /\ evidence'[Len(evidence) + 1] = Piece(c, e, "first")
    BY <2>5, <2>6, AppendProperties DEF EvidenceInv
  <2>8. Len(evidence) \in Nat /\ evidence \in Seq(SoundPieces)
    BY DEF EvidenceInv
  <2>9. evidence'[Len(evidence')].part # "last"
    BY <2>7 DEF Piece
  <2>10. ASSUME WholeLines(evidence') PROVE AllCounted(evidence', appended')
    <3>1. \A x : LinesOf(evidence', x) = LinesOf(evidence, x)
      BY <2>7, <2>8, <2>9, LinesAfter
    <3>2. WholeLines(evidence)
      BY <2>7, <2>8, <2>10, LinesAfter
    <3>3. AllCounted(evidence, appended)
      BY <3>2 DEF EvidenceInv
    <3> QED BY <2>5, <3>1, <3>3 DEF AllCounted
  <2> QED BY <2>3, <2>5, <2>7, <2>10 DEF EvidenceInv
<1> QED BY <1>2, <1>3, <1>4, <1>5, <1>6, <1>7 DEF EvidenceNext

(* A tally of what is read, and of what was appended, are the same when    *)
(* both have every event equally often.                                    *)
LEMMA SameTallies ==
    ASSUME EvidenceInv, ReadsWell(evidence), NEW type
    PROVE  /\ Tally(EventsRead(evidence)) = Tally(appended)
           /\ Tally(OfType(EventsRead(evidence), type)) = Tally(OfType(appended, type))
<1> DEFINE read == EventsRead(evidence)
<1>1. AllCounted(evidence, appended)
  BY DEF EvidenceInv, ReadsWell, WholeLines
<1>2. \A e : {i \in DOMAIN read : read[i] = e} = LinesOf(evidence, e)
  BY DEF ReadsWell, EventsRead, EventLines, LinesOf
<1> HIDE DEF read
<1>3. \A e : Cardinality({i \in DOMAIN read : read[i] = e})
                = Cardinality({i \in DOMAIN appended : appended[i] = e})
  BY <1>1, <1>2 DEF AllCounted, PlacesOf
<1>4. \A e : /\ Cardinality({i \in DOMAIN read : read[i] = e}) = 0 <=> {i \in DOMAIN read : read[i] = e} = {}
             /\ Cardinality({i \in DOMAIN appended : appended[i] = e}) = 0
                   <=> {i \in DOMAIN appended : appended[i] = e} = {}
  <2> TAKE e
  <2>1. IsFiniteSet(LinesOf(evidence, e)) /\ IsFiniteSet(PlacesOf(appended, e))
    BY LinesAreFinite, PlacesAreFinite DEF EvidenceInv
  <2>2. /\ Cardinality(LinesOf(evidence, e)) = 0 <=> LinesOf(evidence, e) = {}
        /\ Cardinality(PlacesOf(appended, e)) = 0 <=> PlacesOf(appended, e) = {}
    BY <2>1, FS_EmptySet
  <2> QED BY <1>2, <2>2 DEF PlacesOf
<1>5. Range(read) = Range(appended)
  <2>1. \A e : {i \in DOMAIN read : read[i] = e} = {}
                  <=> {i \in DOMAIN appended : appended[i] = e} = {}
    BY <1>3, <1>4
  <2>2. \A e : e \in Range(read) <=> {i \in DOMAIN read : read[i] = e} # {}
    BY DEF Range
  <2>3. \A e : e \in Range(appended) <=> {i \in DOMAIN appended : appended[i] = e} # {}
    BY DEF Range
  <2>4. \A e : e \in Range(read) <=> e \in Range(appended)
    BY <2>1, <2>2, <2>3
  <2> QED BY <2>4
<1>6. Tally(read) = Tally(appended)
  BY <1>3, <1>5 DEF Tally
<1> DEFINE some == OfType(read, type)  past == OfType(appended, type)
<1>7. Range(some) = {e \in Range(read) : e.type = type}
  BY DEF OfType, Range
<1>8. Range(past) = {e \in Range(appended) : e.type = type}
  BY DEF OfType, Range
<1>9. \A e : e.type = type =>
         /\ {i \in DOMAIN some : some[i] = e} = {i \in DOMAIN read : read[i] = e}
         /\ {i \in DOMAIN past : past[i] = e} = {i \in DOMAIN appended : appended[i] = e}
  BY DEF OfType
<1> HIDE DEF some, past
<1>10. Tally(some) = Tally(past)
  BY <1>3, <1>5, <1>7, <1>8, <1>9 DEF Tally
<1> QED BY <1>6, <1>10 DEF read, some, past

(* What a step reports is whole.                                           *)
LEMMA StepReportsWhole ==
    ASSUME EvidenceInv, [EvidenceNext]_evidenceVars,
           report' \notin {report, NoReport, Refused}
    PROVE  /\ report'.all = Tally(appended)
           /\ report'.blocked = BlockedActions(appended)
           /\ \A e \in DOMAIN report'.all : \E tool \in Tools, file \in InputFiles :
                 Sound(tool, file) /\ \E line \in Range(EventsOf(tool, file)) : e \in Range(line)
<1>1. BuildReport
  BY DEF EvidenceNext, evidenceVars, Convert, ConverterDies, AppendWhole, AppendFirst, AppendRest
<1>2. ReadsWell(evidence) /\ evidence # <<>>
  BY <1>1 DEF BuildReport, OperatorReport
<1>3. /\ report'.all = Tally(EventsRead(evidence))
      /\ report'.blocked = BlockedActions(EventsRead(evidence))
  BY <1>1, <1>2 DEF BuildReport, OperatorReport
<1>4. report'.all = Tally(appended) /\ report'.blocked = BlockedActions(appended)
  BY <1>2, <1>3, SameTallies DEF BlockedActions
<1>5. ASSUME NEW e \in DOMAIN report'.all
      PROVE  \E tool \in Tools, file \in InputFiles :
                Sound(tool, file) /\ \E line \in Range(EventsOf(tool, file)) : e \in Range(line)
  <2>1. e \in Range(appended)
    BY <1>4, <1>5 DEF Tally
  <2>2. e \in SoundEvents
    BY <2>1 DEF EvidenceInv, Range
  <2> QED BY <2>2 DEF SoundEvents, SoundLists
<1> QED BY <1>4, <1>5

(* The events of a sound file are of the types that are known.             *)
LEMMA SoundEventsConform ==
    ASSUME NEW e \in SoundEvents
    PROVE  e.type \in EventTypes
<1>1. PICK list \in SoundLists : e \in Range(list)
  BY DEF SoundEvents
<1>2. PICK batch \in Tools \X InputFiles :
          Sound(batch[1], batch[2]) /\ list \in Range(EventsOf(batch[1], batch[2]))
  BY <1>1 DEF SoundLists
<1>3. PICK tool, file : tool = batch[1] /\ file = batch[2]
  OBVIOUS
<1>4. PICK i \in DOMAIN file : list = Translated(tool, file[i])
  BY <1>2, <1>3 DEF EventsOf, Range
<1>5. PICK j \in DOMAIN list : e = list[j]
  BY <1>1 DEF Range
<1> QED BY <1>2, <1>3, <1>4, <1>5 DEF Sound, Conforms

LEMMA EvidenceTypes ==
    ASSUME EvidenceInv
    PROVE  EvidenceTypeOK
<1>1. ASSUME NEW i \in DOMAIN evidence
      PROVE  /\ evidence[i].by \in Converters
             /\ evidence[i].part \in {"first", "last"}
             /\ evidence[i].event.type \in EventTypes
  <2>1. evidence[i] \in SoundPieces
    BY DEF EvidenceInv
  <2> QED BY <2>1, SoundEventsConform DEF SoundPieces
<1>2. ASSUME NEW c \in Converters
      PROVE  \/ converter[c] = Idling
             \/ /\ converter[c].pc \in {"append", "rest"}
                /\ converter[c].todo # <<>> /\ Head(converter[c].todo) # <<>>
  <2>1. CASE converter[c] # Idling
    <3>1. converter[c].pc \in {"append", "rest"} /\ converter[c].todo \in Batches
      BY <2>1 DEF EvidenceInv, ConverterOps
    <3>2. PICK todo : todo = converter[c].todo
      OBVIOUS
    <3>3. todo # <<>> /\ todo \in Seq(Seq(SoundEvents) \ {<<>>})
      BY <3>1, <3>2 DEF Batches
    <3>4. Head(todo) \in Seq(SoundEvents) \ {<<>>}
      BY <3>3
    <3> QED BY <3>1, <3>2, <3>3, <3>4
  <2> QED BY <2>1
<1> QED BY <1>1, <1>2 DEF EvidenceTypeOK

(* A report that is given has every event that was appended, as often as   *)
(* it was, and no other, however many converters write and die, and each   *)
(* event comes from a file in which every line was valid.                  *)
THEOREM ReportsAreAlwaysWhole ==
    ASSUME EvidenceAssumption
    PROVE  EvidenceSpec => ReportIsWhole
<1>1. EvidenceInit => EvidenceInv
  BY EvidenceStarts
<1>2. EvidenceInv /\ [EvidenceNext]_evidenceVars => EvidenceInv'
  BY EvidenceKeeps
<1>3. EvidenceInv /\ [EvidenceNext]_evidenceVars =>
         [report' \notin {report, NoReport, Refused} =>
            /\ report'.all = Tally(appended)
            /\ report'.blocked = BlockedActions(appended)
            /\ \A e \in DOMAIN report'.all : \E tool \in Tools, file \in InputFiles :
                  Sound(tool, file) /\ \E line \in Range(EventsOf(tool, file)) : e \in Range(line)]_evidenceVars
  BY StepReportsWhole
<1> QED BY <1>1, <1>2, <1>3, PTL DEF EvidenceSpec, ReportIsWhole

-----------------------------------------------------------------------------
(* The checks of a pull request, for any policy, any number of check runs, *)
(* statuses and reviews and whatever order they arrive in: among the rows  *)
(* of one name and App some row is superseded by none, and what that row   *)
(* says is what the summary looks at.                                      *)

(* Legacy statuses come from no App; GitHub's rows have their shape.       *)
CheckInv ==
    /\ rows \subseteq Row
    /\ reviews \subseteq Review
    /\ \A row \in rows : row.legacy => row.app = NoApp

LEMMA CheckInitially ==
    ASSUME CheckInit
    PROVE  CheckInv
BY DEF CheckInit, CheckInv

LEMMA CheckStep ==
    ASSUME CheckAssumption, CheckInv, [CheckNext]_checkVars
    PROVE  CheckInv'
<1> USE DEF CheckInv
<1>1. CASE SetPolicy
  BY <1>1 DEF SetPolicy
<1>2. CASE QueueRun
  <2>1. PICK n \in NewRow, c \in Contexts, a \in Apps \cup {NoApp} :
            rows' = rows \cup {[id |-> n, name |-> c, app |-> a, legacy |-> FALSE,
                                started |-> 0, completed |-> FALSE,
                                outcome |-> "other"]}
    BY <1>2 DEF QueueRun
  <2>2. n \in 1..MaxRows /\ 0 \in 0..MaxRows
    BY <2>1 DEF NewRow, FreshRow, CheckAssumption
  <2> DEFINE new == [id |-> n, name |-> c, app |-> a, legacy |-> FALSE, started |-> 0,
                     completed |-> FALSE, outcome |-> "other"]
  <2>3. new \in Row /\ new.legacy = FALSE
    BY <2>2 DEF Row, Outcomes
  <2>4. rows' = rows \cup {new} /\ reviews' = reviews
    BY <1>2, <2>1 DEF QueueRun
  <2> HIDE DEF new
  <2> QED BY <2>3, <2>4
<1>3. CASE StartRun
  <2>1. PICK row \in rows, s \in LastStart :
            /\ s < MaxRows
            /\ rows' = (rows \ {row}) \cup {[row EXCEPT !.started = s + 1]}
    BY <1>3 DEF StartRun
  <2>2. row \in Row /\ s + 1 \in 0..MaxRows
    BY <2>1 DEF LastStart, CheckAssumption
  <2>3. /\ [row EXCEPT !.started = s + 1] \in Row
        /\ [row EXCEPT !.started = s + 1].legacy = row.legacy
        /\ [row EXCEPT !.started = s + 1].app = row.app
    BY <2>2 DEF Row
  <2> QED BY <1>3, <2>1, <2>3 DEF StartRun
<1>4. CASE CompleteRun
  <2>1. PICK row \in rows, o \in Outcomes :
            rows' = (rows \ {row}) \cup
                    {[row EXCEPT !.completed = TRUE, !.outcome = o]}
    BY <1>4 DEF CompleteRun
  <2>2. /\ [row EXCEPT !.completed = TRUE, !.outcome = o] \in Row
        /\ [row EXCEPT !.completed = TRUE, !.outcome = o].legacy = row.legacy
        /\ [row EXCEPT !.completed = TRUE, !.outcome = o].app = row.app
    BY <2>1 DEF Row
  <2> QED BY <1>4, <2>1, <2>2 DEF CompleteRun
<1>5. CASE PostStatus
  <2>1. PICK n \in NewRow, c \in Contexts, s \in LastStart, o \in Outcomes :
            /\ s < MaxRows
            /\ rows' = rows \cup {[id |-> n, name |-> c, app |-> NoApp,
                                   legacy |-> TRUE, started |-> s + 1,
                                   completed |-> TRUE, outcome |-> o]}
    BY <1>5 DEF PostStatus
  <2>2. n \in 1..MaxRows /\ s + 1 \in 0..MaxRows
    BY <2>1 DEF NewRow, FreshRow, LastStart, CheckAssumption
  <2> DEFINE new == [id |-> n, name |-> c, app |-> NoApp, legacy |-> TRUE,
                     started |-> s + 1, completed |-> TRUE, outcome |-> o]
  <2>3. new \in Row /\ new.app = NoApp
    BY <2>2 DEF Row
  <2>4. rows' = rows \cup {new} /\ reviews' = reviews
    BY <1>5, <2>1 DEF PostStatus
  <2> HIDE DEF new
  <2> QED BY <2>3, <2>4
<1>6. CASE GiveReview
  BY <1>6 DEF GiveReview, Review
<1>7. CASE UNCHANGED checkVars
  BY <1>7 DEF checkVars
<1> QED BY <1>1, <1>2, <1>3, <1>4, <1>5, <1>6, <1>7 DEF CheckNext

-----------------------------------------------------------------------------
(* The row that counts. *)

(* Every nonempty set of numbers up to N has a greatest element.           *)
LEMMA GreatestNumber ==
    ASSUME NEW N \in Nat, NEW S \in SUBSET (0..N), S # {}
    PROVE  \E m \in S : \A n \in S : n <= m
<1> DEFINE R == OpToRel(<, Nat)
           T == {N - n : n \in S}
<1>1. T \in SUBSET Nat /\ T # {}
  <2>1. \A n \in S : n \in 0..N /\ N - n \in Nat
    OBVIOUS
  <2> QED BY <2>1
<1>2. \E x \in T : \A y \in T : ~ (<<y, x>> \in R)
  <2>1. IsWellFoundedOn(R, Nat)
    BY NatLessThanWellFounded
  <2> HIDE DEF R, T
  <2> QED BY <1>1, <2>1, WFMin
<1>3. \A x, y \in T : y < x => <<y, x>> \in R
  BY <1>1 DEF OpToRel
<1> HIDE DEF R
<1>4. PICK m \in S : \A n \in S : ~ (N - n < N - m)
  BY <1>2, <1>3
<1> QED BY <1>4

(* Among the rows of a name and an App there is one that none of them      *)
(* supersedes.                                                             *)
LEMMA EveryRowHasALatest ==
    ASSUME CheckAssumption, rows \subseteq Row, NEW row \in rows
    PROVE  \E last \in Latest : last.name = row.name /\ last.app = row.app
<1> DEFINE Group == {r \in rows : r.name = row.name /\ r.app = row.app}
           InFlight == {r \in Group : ~r.completed}
           First == IF InFlight # {} THEN InFlight ELSE Group
<1>1. First # {} /\ First \subseteq Group /\ Group \subseteq Row
  OBVIOUS
<1>2. PICK top \in First : \A r \in First : r.started <= top.started
  <2> DEFINE Starts == {r.started : r \in First}
  <2>1. Starts \in SUBSET (0..MaxRows) /\ Starts # {} /\ MaxRows \in Nat
    BY <1>1 DEF Row, CheckAssumption
  <2>2. \E m \in Starts : \A n \in Starts : n <= m
    <3> HIDE DEF Starts
    <3> QED BY <2>1, GreatestNumber
  <2> QED BY <2>2
<1> DEFINE Tops == {r \in First : r.started = top.started}
<1>3. PICK last \in Tops : \A r \in Tops : r.id <= last.id
  <2> DEFINE Ids == {r.id : r \in Tops}
  <2>1. Ids \in SUBSET (0..MaxRows) /\ Ids # {} /\ MaxRows \in Nat
    BY <1>1, <1>2 DEF Row, CheckAssumption
  <2>2. \E m \in Ids : \A n \in Ids : n <= m
    <3> HIDE DEF Ids
    <3> QED BY <2>1, GreatestNumber
  <2> QED BY <2>2
<1>4. last \in Group /\ last \in First /\ last.started = top.started
  BY <1>1, <1>3
<1>5. ASSUME NEW other \in rows, Supersedes(other, last)
      PROVE  FALSE
  <2>1. other \in Group
    BY <1>4, <1>5 DEF Supersedes
  <2>2. /\ other.started \in Nat /\ last.started \in Nat
        /\ other.id \in Nat /\ last.id \in Nat
        /\ other.completed \in BOOLEAN /\ last.completed \in BOOLEAN
    BY <1>1, <1>4, <2>1 DEF Row
  <2>3. CASE other \in First
    <3>1. other.completed = last.completed
      BY <1>4, <1>5, <2>2, <2>3 DEF Supersedes
    <3>2. other.started <= last.started
      BY <1>2, <1>4, <2>3
    <3>3. other.started = last.started => other.id <= last.id
      BY <1>3, <1>4, <2>3
    <3> QED BY <1>5, <2>2, <3>1, <3>2, <3>3 DEF Supersedes
  <2>4. CASE other \notin First
    <3>1. other.completed /\ ~last.completed
      BY <1>4, <2>1, <2>4
    <3> QED BY <1>5, <3>1 DEF Supersedes
  <2> QED BY <2>3, <2>4
<1> QED BY <1>4, <1>5 DEF Latest

(* A latest row that succeeded is the word of its producer.                *)
LEMMA LatestSuccessIsGreen ==
    ASSUME rows \subseteq Row, NEW last \in Latest, Success(last)
    PROVE  Green(last)
<1>1. last \in rows /\ last.completed
  BY DEF Latest, Success
<1>2. ASSUME NEW other \in rows, other.name = last.name, other.app = last.app
      PROVE  other.completed /\ other.started <= last.started
  <2>1. ~Supersedes(other, last)
    BY DEF Latest
  <2>2. /\ other.started \in Nat /\ last.started \in Nat
        /\ other.completed \in BOOLEAN /\ last.completed = TRUE
    BY <1>1 DEF Row
  <2>3. other.completed
    BY <1>2, <2>1, <2>2 DEF Supersedes
  <2>4. ~(other.started > last.started)
    BY <1>2, <2>1, <2>2, <2>3 DEF Supersedes
  <2> QED BY <2>2, <2>3, <2>4
<1> QED BY <1>1, <1>2 DEF Green

(* Rows of one name and App satisfy the same requirements.                 *)
LEMMA SameProducerSameRequirement ==
    ASSUME CheckInv, NEW req \in policy, NEW row \in rows, NEW last \in rows,
           last.name = row.name, last.app = row.app, Satisfies(row, req)
    PROVE  Satisfies(last, req)
<1>1. last.legacy => last.app = NoApp
  BY DEF CheckInv
<1> QED BY <1>1 DEF Satisfies

(* What a green verdict on the checks says.                                *)
LEMMA GreenVerdict ==
    ASSUME ChecksVerdict = "green"
    PROVE  /\ Missing = {}
           /\ \A row \in Latest : Required(row) => Success(row)
           /\ \E row \in Latest : Required(row)
BY DEF ChecksVerdict

(* When a pull request is called ready, each producer a requirement        *)
(* accepts has succeeded with its last run.                                *)
LEMMA ReadyRowIsGreen ==
    ASSUME CheckAssumption, CheckInv, ChecksVerdict = "green",
           NEW req \in policy, NEW row \in rows, Satisfies(row, req)
    PROVE  /\ row.completed
           /\ \E last \in rows :
                 /\ last.name = row.name /\ last.app = row.app
                 /\ Satisfies(last, req) /\ Green(last)
<1>1. PICK last \in Latest : last.name = row.name /\ last.app = row.app
  BY EveryRowHasALatest DEF CheckInv
<1>2. last \in rows
  BY DEF Latest
<1>3. Satisfies(last, req)
  BY <1>1, <1>2, SameProducerSameRequirement
<1>4. Success(last)
  BY <1>3, GreenVerdict DEF Required
<1>5. Green(last)
  BY <1>4, LatestSuccessIsGreen DEF CheckInv
<1>6. row.completed
  BY <1>1, <1>5 DEF Green
<1> QED BY <1>1, <1>2, <1>3, <1>5, <1>6

LEMMA ReadyFollows ==
    ASSUME CheckAssumption, CheckInv
    PROVE  ReadyIsJustified
<1> SUFFICES ASSUME MergeReady
             PROVE  /\ \A req \in policy :
                          /\ \E row \in rows : Satisfies(row, req) /\ Green(row)
                          /\ \A row \in rows :
                                Satisfies(row, req) =>
                                   /\ row.completed
                                   /\ \E last \in rows :
                                         /\ last.name = row.name
                                         /\ last.app = row.app
                                         /\ Green(last)
                    /\ policy # {}
                    /\ \A r \in reviews :
                          r.decision = "CHANGES_REQUESTED" =>
                             \E s \in reviews : s.author = r.author /\ s.at > r.at
  BY DEF ReadyIsJustified
<1>1. ChecksVerdict = "green" /\ ReviewsVerdict = "none"
  BY DEF MergeReady
<1>2. ASSUME NEW req \in policy
      PROVE  \E row \in rows : Satisfies(row, req) /\ Green(row)
  <2>1. PICK row \in rows : Satisfies(row, req)
    BY <1>1, GreenVerdict DEF Missing
  <2> QED BY <1>1, <2>1, ReadyRowIsGreen
<1>3. ASSUME NEW req \in policy, NEW row \in rows, Satisfies(row, req)
      PROVE  /\ row.completed
             /\ \E last \in rows :
                   last.name = row.name /\ last.app = row.app /\ Green(last)
  BY <1>1, <1>3, ReadyRowIsGreen
<1>4. policy # {}
  BY <1>1, GreenVerdict DEF Required
<1>5. ASSUME NEW r \in reviews, r.decision = "CHANGES_REQUESTED"
      PROVE  \E s \in reviews : s.author = r.author /\ s.at > r.at
  <2>1. r \notin LastReviews
    BY <1>1, <1>5 DEF ReviewsVerdict
  <2>2. PICK s \in reviews : s.author = r.author /\ ~(s.at <= r.at)
    BY <2>1 DEF LastReviews
  <2>3. s.at \in Nat /\ r.at \in Nat
    BY DEF CheckInv, Review
  <2> QED BY <2>2, <2>3
<1> QED BY <1>2, <1>3, <1>4, <1>5

(* Rows are told apart by their ids, and a policy is of requirements.      *)
CheckTyped ==
    /\ policy \subseteq Requirements
    /\ \A r, s \in rows : r.id = s.id => r = s

LEMMA CheckTypedInitially ==
    ASSUME CheckInit
    PROVE  CheckTyped
BY DEF CheckInit, CheckTyped

(* A new row, or one that takes the place of another, keeps the ids apart. *)
LEMMA IdsStayApart ==
    ASSUME CheckTyped, NEW old, NEW new, rows' = (rows \ {old}) \cup {new},
           policy' = policy,
           \A r \in rows \ {old} : r.id # new.id
    PROVE  CheckTyped'
BY DEF CheckTyped

LEMMA CheckTypedStep ==
    ASSUME CheckAssumption, CheckInv, CheckTyped, [CheckNext]_checkVars
    PROVE  CheckTyped'
<1>1. CASE SetPolicy
  BY <1>1 DEF SetPolicy, CheckTyped
<1>2. ASSUME NEW n \in NewRow, NEW new, rows' = rows \cup {new}, new.id = n, policy' = policy
      PROVE  CheckTyped'
  <2>1. \A r \in rows : r.id < n /\ r.id \in Nat /\ n \in Nat
    BY DEF NewRow, FreshRow, CheckInv, Row
  <2>2. \A r \in rows : r.id # new.id
    BY <1>2, <2>1
  <2> QED BY <1>2, <2>2 DEF CheckTyped
<1>3. ASSUME NEW row \in rows, NEW new, rows' = (rows \ {row}) \cup {new}, new.id = row.id,
             policy' = policy
      PROVE  CheckTyped'
  <2>1. \A r \in rows \ {row} : r.id # new.id
    BY <1>3 DEF CheckTyped
  <2> QED BY <1>3, <2>1, IdsStayApart
<1>4. CASE QueueRun
  <2>1. PICK n \in NewRow, c \in Contexts, a \in Apps \cup {NoApp} :
            rows' = rows \cup {[id |-> n, name |-> c, app |-> a, legacy |-> FALSE,
                                started |-> 0, completed |-> FALSE, outcome |-> "other"]}
    BY <1>4 DEF QueueRun
  <2>2. PICK new : new = [id |-> n, name |-> c, app |-> a, legacy |-> FALSE,
                          started |-> 0, completed |-> FALSE, outcome |-> "other"]
    OBVIOUS
  <2>3. new.id = n
    BY <2>2
  <2> QED BY <1>4, <1>2, <2>1, <2>2, <2>3 DEF QueueRun
<1>5. CASE PostStatus
  <2>1. PICK n \in NewRow, c \in Contexts, s \in LastStart, o \in Outcomes :
            rows' = rows \cup {[id |-> n, name |-> c, app |-> NoApp, legacy |-> TRUE,
                                started |-> s + 1, completed |-> TRUE, outcome |-> o]}
    BY <1>5 DEF PostStatus
  <2>2. PICK new : new = [id |-> n, name |-> c, app |-> NoApp, legacy |-> TRUE,
                          started |-> s + 1, completed |-> TRUE, outcome |-> o]
    OBVIOUS
  <2>3. new.id = n
    BY <2>2
  <2> QED BY <1>5, <1>2, <2>1, <2>2, <2>3 DEF PostStatus
<1>6. CASE StartRun
  <2>1. PICK row \in rows, s \in LastStart :
            rows' = (rows \ {row}) \cup {[row EXCEPT !.started = s + 1]}
    BY <1>6 DEF StartRun
  <2>2. [row EXCEPT !.started = s + 1].id = row.id
    BY DEF CheckInv, Row
  <2> QED BY <1>6, <1>3, <2>1, <2>2 DEF StartRun
<1>7. CASE CompleteRun
  <2>1. PICK row \in rows, o \in Outcomes :
            rows' = (rows \ {row}) \cup {[row EXCEPT !.completed = TRUE, !.outcome = o]}
    BY <1>7 DEF CompleteRun
  <2>2. [row EXCEPT !.completed = TRUE, !.outcome = o].id = row.id
    BY DEF CheckInv, Row
  <2> QED BY <1>7, <1>3, <2>1, <2>2 DEF CompleteRun
<1>8. CASE GiveReview \/ UNCHANGED checkVars
  BY <1>8 DEF GiveReview, checkVars, CheckTyped
<1> QED BY <1>1, <1>4, <1>5, <1>6, <1>7, <1>8 DEF CheckNext

LEMMA CheckTypes ==
    ASSUME CheckInv, CheckTyped
    PROVE  CheckTypeOK
BY DEF CheckInv, CheckTyped, CheckTypeOK

(* A pull request is called ready (MERGE_READY of _state_from_sync) only   *)
(* if every required check was passed by the last run of a producer the    *)
(* policy accepts, no such producer is still running or says anything      *)
(* else, and no reviewer's last word asks for changes.                     *)
THEOREM ReadyIsAlwaysJustified ==
    ASSUME CheckAssumption
    PROVE  CheckSpec => []ReadyIsJustified
<1>1. CheckInit => CheckInv
  BY CheckInitially
<1>2. CheckInv /\ [CheckNext]_checkVars => CheckInv'
  BY CheckStep
<1>3. CheckInv => ReadyIsJustified
  BY ReadyFollows
<1> QED BY <1>1, <1>2, <1>3, PTL DEF CheckSpec

=============================================================================

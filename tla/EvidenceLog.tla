---------------------------- MODULE EvidenceLog ----------------------------
(***************************************************************************)
(* The evidence stream (evidence/): the adapters that translate results of *)
(* other tools into events, the JSONL file all of them append to, and the  *)
(* reports that are built from it.  Nothing is locked; an event larger     *)
(* than a write buffer reaches the file in two writes.                     *)
(***************************************************************************)
EXTENDS Naturals, Sequences, FiniteSets, Functions

CONSTANTS
    Converters,     \* processes that convert a file of results
    InputFiles,     \* what such files contain: sequences of results
    MaxPieces,      \* bound on the writes to the stream
    NoReport, Refused

ASSUME EvidenceAssumption ==
    /\ MaxPieces \in Nat
    /\ \A file \in InputFiles : file \in Seq(Range(file))

VARIABLES
    evidence,       \* the stream: what was written to it, write by write
    converter,      \* what each process is doing
    report,         \* the last report that was asked for
    appended        \* events that are in the stream whole (history)

evidenceVars == <<evidence, converter, report, appended>>

Tools == {"safety_guard", "failure_loop", "agent_plane"}
Idling == [pc |-> "idle"]

(***************************************************************************)
(* A result, or line: the tool whose schema_version it has, its id,        *)
(* whether all its fields are there and well-formed, what it says, and     *)
(* the kind of its recommendation.                                         *)
(***************************************************************************)
VerdictEvents ==
    [check_completed   |-> "safety_guard.check.completed",
     allowed           |-> "safety_guard.action.allowed",
     blocked           |-> "safety_guard.action.blocked",
     approval_required |-> "safety_guard.approval.required"]

FailureKinds == {"test_failure", "lint_failure", "typecheck_failure",
                 "ci_failure", "traceability_failure", "naming_failure"}

AgentEventTypes == {"agent.run.started", "agent.run.completed",
                    "agent.run.failed", "failure.observed"}

EventTypes ==
    {VerdictEvents[v] : v \in DOMAIN VerdictEvents} \cup AgentEventTypes
        \cup {"rule.proposed", "change_request.evidence.generated",
              "accountable_change.evidence.generated", "aspice.check.completed"}

ValidSafetyResult(r) ==
    r.tool = "safety_guard" /\ r.whole /\ r.says \in DOMAIN VerdictEvents

ValidFailureResult(r) ==
    /\ r.tool = "failure_loop" /\ r.whole /\ r.says \in FailureKinds
    /\ r.recommends \in {"nothing", "rule_proposal"}

ValidAgentEvent(r) ==
    r.tool = "agent_plane" /\ r.whole /\ r.says \in AgentEventTypes

(* The id of an event is made from that of the result. *)
Event(r, name, type) == [id |-> <<r.tool, r.id, name>>, type |-> type]

SafetyEvents(r) == <<Event(r, "", VerdictEvents[r.says])>>

FailureEvents(r) ==
    <<Event(r, "failure", "failure.observed")>> \o
        IF r.recommends = "nothing" THEN <<>>
        ELSE <<Event(r, "rule", "rule.proposed")>>

AgentEvents(r) == <<Event(r, "", r.says)>>

Valid(tool, r) ==
    CASE tool = "safety_guard" -> ValidSafetyResult(r)
      [] tool = "failure_loop" -> ValidFailureResult(r)
      [] tool = "agent_plane"  -> ValidAgentEvent(r)

Translated(tool, r) ==
    CASE tool = "safety_guard" -> SafetyEvents(r)
      [] tool = "failure_loop" -> FailureEvents(r)
      [] tool = "agent_plane"  -> AgentEvents(r)

(* EventEnvelope.create checks what it has made. *)
Conforms(event) == event.type \in EventTypes

Sound(tool, file) ==
    \A i \in DOMAIN file :
        /\ Valid(tool, file[i])
        /\ \A j \in DOMAIN Translated(tool, file[i]) : Conforms(Translated(tool, file[i])[j])

(* What a conversion appends: line after line, the events of the line.     *)
EventsOf(tool, file) == [i \in DOMAIN file |-> Translated(tool, file[i])]

AfterFirst(batch) ==
    (IF Len(Head(batch)) > 1 THEN <<Tail(Head(batch))>> ELSE <<>>) \o Tail(batch)

(***************************************************************************)
(* The file.  A piece is the first or the last part of the line of an      *)
(* event; only the last ends with the end of the line.                     *)
(***************************************************************************)
Piece(c, event, part) == [by |-> c, event |-> event, part |-> part]

(* A line is the text up to an end of line: one event, or none.            *)
EndsALine(stream, i) == stream[i].part = "last"

IsOneEvent(stream, i) ==
    /\ i > 1 /\ stream[i - 1] = [stream[i] EXCEPT !.part = "first"]
    /\ i > 2 => EndsALine(stream, i - 2)

(* read_event_stream: a line that is not one event, the text after the     *)
(* last end of line included, is a ValidationError.                        *)
ReadsWell(stream) ==
    /\ stream # <<>> => EndsALine(stream, Len(stream))
    /\ \A i \in DOMAIN stream : EndsALine(stream, i) => IsOneEvent(stream, i)

(* The events that were read, each at the place where its line ends.       *)
EventLines(stream) ==
    {i \in DOMAIN stream : EndsALine(stream, i) /\ IsOneEvent(stream, i)}

EventsRead(stream) == [i \in EventLines(stream) |-> stream[i].event]

EvidenceInit ==
    /\ evidence = <<>>
    /\ converter = [c \in Converters |-> Idling]
    /\ report = NoReport
    /\ appended = <<>>

(* convert_*_jsonl: every line is translated before the first is appended, *)
(* and a line that is not valid refuses the file.                          *)
Convert(c) ==
    /\ converter[c] = Idling
    /\ \E tool \in Tools, file \in InputFiles :
          /\ Sound(tool, file)
          /\ file # <<>>
          /\ converter' = [converter EXCEPT
                ![c] = [pc |-> "append", todo |-> EventsOf(tool, file)]]
    /\ UNCHANGED <<evidence, report, appended>>

NextEvent(c) == Head(Head(converter[c].todo))

Complete(c) ==
    LET rest == AfterFirst(converter[c].todo) IN
    /\ appended' = Append(appended, NextEvent(c))
    /\ converter' = [converter EXCEPT
          ![c] = IF rest = <<>> THEN Idling ELSE [pc |-> "append", todo |-> rest]]

(* append: the line of a small event is one write, *)
AppendWhole(c) ==
    /\ converter[c].pc = "append"
    /\ Len(evidence) + 2 <= MaxPieces
    /\ evidence' = evidence \o <<Piece(c, NextEvent(c), "first"), Piece(c, NextEvent(c), "last")>>
    /\ Complete(c)
    /\ UNCHANGED report

(* that of a large one is two. *)
AppendFirst(c) ==
    /\ converter[c].pc = "append"
    /\ Len(evidence) < MaxPieces
    /\ evidence' = Append(evidence, Piece(c, NextEvent(c), "first"))
    /\ converter' = [converter EXCEPT ![c].pc = "rest"]
    /\ UNCHANGED <<report, appended>>

AppendRest(c) ==
    /\ converter[c].pc = "rest"
    /\ Len(evidence) < MaxPieces
    /\ evidence' = Append(evidence, Piece(c, NextEvent(c), "last"))
    /\ Complete(c)
    /\ UNCHANGED report

ConverterDies(c) ==
    /\ converter[c] # Idling
    /\ converter' = [converter EXCEPT ![c] = Idling]
    /\ UNCHANGED <<evidence, report, appended>>

(***************************************************************************)
(* evidence report and harness status: what the report lists is kept as    *)
(* how often it has each event, since it is sorted; so what it is built    *)
(* from is a function to events, whatever the places it is defined at.     *)
(***************************************************************************)
Tally(events) ==
    [e \in Range(events) |-> Cardinality({i \in DOMAIN events : events[i] = e})]

OfType(events, type) ==
    [i \in {j \in DOMAIN events : events[j].type = type} |-> events[i]]

BlockedActions(events) == Tally(OfType(events, "safety_guard.action.blocked"))
Failures(events) == Tally(OfType(events, "failure.observed"))
RuleProposals(events) == Tally(OfType(events, "rule.proposed"))

(* Mutant of OperatorReport: a line that cannot be read is skipped.        *)
LenientReport(stream) ==
    [all |-> Tally(EventsRead(stream)), blocked |-> BlockedActions(EventsRead(stream)),
     failures |-> Failures(EventsRead(stream)), proposals |-> RuleProposals(EventsRead(stream))]

(* A file that is not there, or not readable, gives no report.             *)
OperatorReport(stream) ==
    IF stream = <<>> \/ ~ReadsWell(stream) THEN Refused
    ELSE LET events == EventsRead(stream) IN
         [all |-> Tally(events), blocked |-> BlockedActions(events),
          failures |-> Failures(events), proposals |-> RuleProposals(events)]

BuildReport ==
    /\ report' = OperatorReport(evidence)
    /\ UNCHANGED <<evidence, converter, appended>>

EvidenceNext ==
    \/ BuildReport
    \/ \E c \in Converters :
          \/ Convert(c) \/ ConverterDies(c)
          \/ AppendWhole(c) \/ AppendFirst(c) \/ AppendRest(c)

EvidenceSpec == EvidenceInit /\ [][EvidenceNext]_evidenceVars

\* The stream is pieces of events, and a converter has events left to append.
EvidenceTypeOK ==
    /\ \A i \in DOMAIN evidence :
           /\ evidence[i].by \in Converters
           /\ evidence[i].part \in {"first", "last"}
           /\ evidence[i].event.type \in EventTypes
    /\ \A c \in Converters :
               \/ converter[c] = Idling
               \/ /\ converter[c].pc \in {"append", "rest"}
                  /\ converter[c].todo # <<>> /\ Head(converter[c].todo) # <<>>

(* A report that is given is whole: it has every event that was appended,  *)
(* as often as it was, and no other, though writers overlap and die in the *)
(* middle of a line; and each comes from a file in which every line was    *)
(* valid ("fail closed", reporting.py:55).                                 *)
ReportIsWhole ==
    [][report' \notin {report, NoReport, Refused} =>
           /\ report'.all = Tally(appended)
           /\ report'.blocked = BlockedActions(appended)
           /\ \A e \in DOMAIN report'.all : \E tool \in Tools, file \in InputFiles :
                 Sound(tool, file) /\ \E line \in Range(EventsOf(tool, file)) : e \in Range(line)]_evidenceVars
=============================================================================

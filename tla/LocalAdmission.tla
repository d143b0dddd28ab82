--------------------------- MODULE LocalAdmission ---------------------------
(***************************************************************************)
(* local_admission.check: may a task run on the local model lane now?  The *)
(* contract file, the mode file and three endpoints of the server are read *)
(* one after another, while the lane may be switched to another model.     *)
(***************************************************************************)
EXTENDS Naturals

CONSTANTS
    LaneModes,
    LaneModels,
    Alike,          \* pairs of model names of which one contains the other
    ContextSizes,   \* context lengths, as small numbers
    Absent,         \* a value that is missing
    Malformed       \* a value that cannot be parsed

ASSUME AdmissionAssumption ==
    /\ Alike \subseteq LaneModels \X LaneModels
    /\ ContextSizes \subseteq Nat \ {0}
    /\ {Absent, Malformed} \cap (LaneModes \cup LaneModels \cup ContextSizes) = {}

VARIABLES
    lane,           \* the mode file and what the server answers
    check,          \* the check in progress, or its answer
    laneMoved       \* has the lane changed since the check began?

admissionVars == <<lane, check, laneMoved>>

AdmissionStates == {"READY", "WAITING_FOR_LOCAL_GPU", "WAITING_FOR_MODEL_MODE",
                    "ROUTE_INCOMPATIBLE", "LOCAL_UNAVAILABLE"}

(* The entry of the route in the contract.  A field that is falsy counts   *)
(* as absent.                                                              *)
Entry == [served   : ContextSizes \cup {Absent, Malformed},
          model    : LaneModels \cup {Absent},
          mode     : LaneModes \cup {Absent},
          verified : ContextSizes \cup {Absent, Malformed}]

Lane == [mode : LaneModes \cup {Absent}, healthy : BOOLEAN,
         context : ContextSizes \cup {Malformed},
         model : LaneModels \cup {Malformed}]

Answered(state) == [pc |-> "answer", state |-> state, entry |-> Absent,
                    mode |-> Absent, required |-> Absent]

AdmissionInit ==
    /\ lane = [mode |-> Absent, healthy |-> FALSE, context |-> Malformed,
               model |-> Malformed]
    /\ check = Answered("LOCAL_UNAVAILABLE")
    /\ laneMoved = FALSE

Answer(state) == check' = Answered(state)
GoOn(pc) == check' = [check EXCEPT !.pc = pc]

(* A contract that is missing or malformed, or has no entry, ends it. *)
ReadContract ==
    /\ check.pc = "answer"
    /\ \/ Answer("ROUTE_INCOMPATIBLE")
       \/ \E e \in Entry, r \in ContextSizes \cup {Absent} :
             check' = [pc |-> "mode", state |-> "ROUTE_INCOMPATIBLE", entry |-> e,
                       mode |-> Absent, required |-> r]
    /\ laneMoved' = FALSE
    /\ UNCHANGED lane

ReadMode ==
    /\ check.pc = "mode"
    /\ IF lane.mode = Absent THEN Answer("LOCAL_UNAVAILABLE")
       ELSE check' = [check EXCEPT !.pc = "health", !.mode = lane.mode]
    /\ UNCHANGED <<lane, laneMoved>>

ReadHealth ==
    /\ check.pc = "health"
    /\ IF lane.healthy THEN GoOn("props") ELSE Answer("WAITING_FOR_LOCAL_GPU")
    /\ UNCHANGED <<lane, laneMoved>>

ServedEnough(entry, context) ==
    \/ entry.served = Absent
    \/ entry.served # Malformed /\ context >= entry.served

ReadProps ==
    /\ check.pc = "props"
    /\ IF /\ lane.healthy /\ lane.context # Malformed
          /\ ServedEnough(check.entry, lane.context)
       THEN GoOn("models") ELSE Answer("ROUTE_INCOMPATIBLE")
    /\ UNCHANGED <<lane, laneMoved>>

SameModel(entry, model) ==
    \/ entry.model \in {Absent, model}
    \/ <<entry.model, model>> \in Alike \/ <<model, entry.model>> \in Alike

(* Mutant of VerifiedEnough: what was never verified is not compared. *)
VerifiedIfGiven(entry, required) ==
    \/ Absent \in {required, entry.verified}
    \/ entry.verified # Malformed /\ entry.verified >= required

VerifiedEnough(entry, required) ==
    /\ entry.verified # Absent
    /\ \/ required = Absent
       \/ entry.verified # Malformed /\ entry.verified >= required

(* The model is read last; the mode is the one that was read first. *)
ReadModels ==
    /\ check.pc = "models"
    /\ Answer(CASE ~(/\ lane.healthy /\ lane.model # Malformed
                     /\ SameModel(check.entry, lane.model)) -> "ROUTE_INCOMPATIBLE"
                [] check.entry.mode \notin {Absent, check.mode} ->
                       "WAITING_FOR_MODEL_MODE"
                [] ~VerifiedEnough(check.entry, check.required) ->
                       "ROUTE_INCOMPATIBLE"
                [] OTHER -> "READY")
    /\ UNCHANGED <<lane, laneMoved>>

(* The lane is switched, and its server comes, goes and loads models. *)
MoveLane ==
    /\ \/ \E m \in LaneModes \cup {Absent} : lane' = [lane EXCEPT !.mode = m]
       \/ lane' = [lane EXCEPT !.healthy = ~@]
       \/ \E c \in ContextSizes \cup {Malformed}, m \in LaneModels \cup {Malformed} :
             lane' = [lane EXCEPT !.context = c, !.model = m]
    /\ lane' # lane
    /\ laneMoved' = TRUE
    /\ UNCHANGED check

AdmissionNext ==
    \/ ReadContract \/ ReadMode \/ ReadHealth \/ ReadProps \/ ReadModels
    \/ MoveLane

AdmissionSpec == AdmissionInit /\ [][AdmissionNext]_admissionVars

-----------------------------------------------------------------------------
(* Properties *)

(* A check in progress holds an entry, and from its second step a mode.    *)
AdmissionTypeOK ==
    /\ lane \in Lane
    /\ laneMoved \in BOOLEAN
    /\ check.pc \in {"answer", "mode", "health", "props", "models"}
    /\ check.pc # "answer" => check.entry \in Entry
    /\ check.pc \in {"health", "props", "models"} => check.mode \in LaneModes
    /\ check.pc = "answer" => check.state \in AdmissionStates

(* The lane is what the entry asks for, field by field. *)
LaneServes(entry, required) ==
    /\ lane.mode # Absent /\ entry.mode \in {Absent, lane.mode}
    /\ lane.healthy
    /\ lane.context # Malformed /\ ServedEnough(entry, lane.context)
    /\ lane.model # Malformed /\ SameModel(entry, lane.model)
    /\ entry.verified # Absent
    /\ required # Absent => entry.verified # Malformed /\ entry.verified >= required

(* Fail-closed: a check during which the lane did not move answers READY   *)
(* only when the lane serves the route now.  (One that was switched in the *)
(* middle may combine the mode of the old lane with the model of the new.) *)
ReadyIsEarned ==
    [][(check.pc # "answer" /\ check'.pc = "answer" /\ check'.state = "READY"
        /\ ~laneMoved)
          => LaneServes(check.entry, check.required)]_admissionVars

=============================================================================

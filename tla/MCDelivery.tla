----------------------------- MODULE MCDelivery -----------------------------
(***************************************************************************)
(* Small instances of Delivery for TLC.  The initial state picks one of    *)
(* three scenarios, each of which bounds another dimension of the state.   *)
(***************************************************************************)
EXTENDS Delivery

CONSTANTS d1, d2,
          Scenarios     \* the scenarios the run explores

VARIABLE scenario

(* One attempt, published again and again. *)
DeliveryPulls ==
    /\ base' = 0 /\ completed' \subseteq {d1} /\ selection' = NoRecord
    /\ op'.view.merge \in {"CLEAN", "UNKNOWN"}
    /\ \A d \in DeliveryIds :
          records'[d] = NoRecord \/ records'[d].checks \in {"none", "green"}

(* One attempt, while the base branch moves. *)
DeliveryDrift ==
    /\ pulls'[2] = NoRecord /\ records'[2] = NoRecord
    /\ completed' \subseteq {d1} /\ selection' = NoRecord

(* Two attempts, where nothing fails. *)
DeliveryAttempts ==
    /\ base' = 0 /\ pulls'[2] = NoRecord /\ disturbances' = 0
    /\ \A d \in DeliveryIds :
          records'[d] = NoRecord \/ records'[d].checks \in {"none", "green"}

MCDeliveryInit == DeliveryInit /\ scenario \in Scenarios

MCDeliveryNext ==
    /\ UNCHANGED scenario
    /\ DeliveryNext
    /\ scenario = "pulls" => DeliveryPulls
    /\ scenario = "drift" => DeliveryDrift
    /\ scenario = "attempts" => DeliveryAttempts

MCDeliverySpec == MCDeliveryInit /\ [][MCDeliveryNext]_<<deliveryVars, scenario>>

=============================================================================

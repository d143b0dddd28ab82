------------------------------ MODULE SlotPool ------------------------------
(***************************************************************************)
(* What the control plane promises about execution slots, without queues,  *)
(* files, threads or sessions.  An attempt takes one of Limit slots,       *)
(* starts at most one process in its whole life, and gives the slot back   *)
(* only when that process is dead.                                         *)
(***************************************************************************)
EXTENDS Naturals, FiniteSets

CONSTANTS Attempts, Limit

SlotPoolAssumption == IsFiniteSet(Attempts) /\ Limit \in Nat

VARIABLES
    holding,        \* attempts that have a slot
    started,        \* attempts whose process was started, now or before
    live            \* attempts whose process is running

poolVars == <<holding, started, live>>

PoolInit ==
    /\ holding = {}
    /\ started = {}
    /\ live = {}

Acquire(a) ==
    /\ a \notin holding
    /\ a \notin started
    /\ Cardinality(holding) < Limit
    /\ holding' = holding \cup {a}
    /\ UNCHANGED <<started, live>>

Start(a) ==
    /\ a \in holding
    /\ a \notin started
    /\ started' = started \cup {a}
    /\ live' = live \cup {a}
    /\ UNCHANGED holding

Exit(a) ==
    /\ live' = live \ {a}
    /\ UNCHANGED <<holding, started>>

(* Several slots at once: a dispatch pass recovers every expired claim. *)
Release(S) ==
    /\ S \cap live = {}
    /\ holding' = holding \ S
    /\ UNCHANGED <<started, live>>

PoolNext ==
    \/ \E a \in Attempts : Acquire(a) \/ Start(a) \/ Exit(a)
    \/ \E S \in SUBSET Attempts : Release(S)

PoolSpec == PoolInit /\ [][PoolNext]_poolVars

-----------------------------------------------------------------------------

(* A running process always has a slot, so the machine never runs more     *)
(* harness processes than Scheduler.global_limit.                          *)
LiveWithinLimit == live \subseteq holding /\ Cardinality(live) <= Limit

=============================================================================

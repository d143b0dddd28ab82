------------------------------ MODULE AiBudget ------------------------------
(***************************************************************************)
(* The assistant's router (utils/ai_router.py) between Ollama, which is    *)
(* free, and Claude, which is paid, and its use by ask_claude: the monthly *)
(* budget is a file that every process reads before a question and reads   *)
(* and rewrites whole after it.                                            *)
(***************************************************************************)
EXTENDS Naturals, FiniteSets, Functions

CONSTANTS
    Askers,         \* the processes that show an assistant
    MonthlyBudget,  \* monthly_budget, in units of money
    Costs,          \* what a question to Claude may cost
    LastMonth,      \* months are numbered; the last one of the model
    Kept,           \* how many months the tracker keeps: 3 in the code
    MaxOutlay       \* bound on what is spent in a month

(* A budget of 0 is valid and makes every question divide by it.           *)
ASSUME BudgetAssumption ==
    /\ MonthlyBudget \in Nat \ {0}
    /\ Costs \subseteq Nat /\ Costs # {}
    /\ LastMonth \in Nat \ {0} /\ Kept \in Nat \ {0}

VARIABLES
    month,          \* the month it is
    tracker,        \* budget_tracker.json: what was spent in the months it has
    asker,          \* the question each process is at
    outlay,         \* what Claude was paid in each month (history)
    disturbed       \* months with something the router cannot see (history)

budgetVars == <<month, tracker, asker, outlay, disturbed>>

Months == 1..LastMonth
NoQuestion == [pc |-> "idle"]

(* A file that is missing, or torn by a writer, reads as an empty one.     *)
NoFile == [m \in {} |-> 0]

BudgetInit ==
    /\ month = 1
    /\ tracker = NoFile
    /\ asker = [a \in Askers |-> NoQuestion]
    /\ outlay = [m \in Months |-> 0]
    /\ disturbed = {}

Now(a, question) == asker' = [asker EXCEPT ![a] = question]
Disturbs(months) == disturbed' = disturbed \cup months

(* get_budget_status: the tracker, with an entry for this month.           *)
Status(data) ==
    [m \in DOMAIN data \cup {month} |-> IF m \in DOMAIN data THEN data[m] ELSE 0]

HasRoom(data) == Status(data)[month] < MonthlyBudget

(* The choices the three ways of routing have for a question that is, or   *)
(* is not, complex.  The classifier is not asked about the budget, and its *)
(* answer is taken apart in the wrong order by the hybrid way, which then  *)
(* raises: no choice, and the question ends.                               *)
WeightedChoices(data, complex) == {HasRoom(data) /\ complex}

BertChoices(data, complex, bert) ==
    IF bert THEN BOOLEAN ELSE WeightedChoices(data, complex)

HybridChoices(data, complex, bert) ==
    IF bert THEN {} ELSE WeightedChoices(data, complex)

WaysToRoute == {"weighted", "bert", "hybrid"}

(* Mutant of RoutePrompt: each way of routing minds the budget by itself.  *)
RouteByMode(data, way, complex, bert) ==
    CASE way = "bert"     -> BertChoices(data, complex, bert)
      [] way = "hybrid"   -> HybridChoices(data, complex, bert)
      [] way = "weighted" -> WeightedChoices(data, complex)

RoutePrompt(data, way, complex, bert) ==
    IF ~HasRoom(data) THEN {FALSE}
    ELSE CASE way = "bert"     -> BertChoices(data, complex, bert)
           [] way = "hybrid"   -> HybridChoices(data, complex, bert)
           [] way = "weighted" -> WeightedChoices(data, complex)

(* get_routing_info: the recommended model and the estimated price.        *)
Question(data, claude, cost) ==
    [pc |-> IF claude THEN "claude" ELSE "ollama", cost |-> cost, room |-> HasRoom(data)]

Alone(a) == \A b \in Askers \ {a} : asker[b] = NoQuestion

(* ask_claude: the route is chosen with the price of the question.         *)
Ask(a) ==
    /\ asker[a] = NoQuestion
    /\ \E way \in WaysToRoute, complex, bert \in BOOLEAN, cost \in Costs :
          \E claude \in RoutePrompt(tracker, way, complex, bert) :
             Now(a, Question(tracker, claude, cost))
    /\ Disturbs(IF Alone(a) THEN {} ELSE {month})
    /\ UNCHANGED <<month, tracker, outlay>>

Pay(cost) ==
    /\ outlay[month] + cost <= MaxOutlay
    /\ outlay' = [outlay EXCEPT ![month] = @ + cost]

(* A question that fails is not charged, whether or not Claude was paid.   *)
CallClaude(a) ==
    LET op == asker[a] IN
    /\ op.pc = "claude"
    /\ \/ /\ Pay(op.cost)
          /\ Now(a, [pc |-> "charge", cost |-> op.cost])
          /\ UNCHANGED disturbed
       \/ /\ Pay(op.cost)
          /\ Now(a, NoQuestion)
          /\ Disturbs({month})
       \/ /\ Now(a, NoQuestion)
          /\ UNCHANGED <<outlay, disturbed>>
    /\ UNCHANGED <<month, tracker>>

(* What Ollama does not answer goes to Claude, budget or no budget.        *)
CallOllama(a) ==
    LET op == asker[a] IN
    /\ op.pc = "ollama"
    /\ \/ /\ Now(a, [pc |-> "charge", cost |-> 0])
          /\ UNCHANGED disturbed
       \/ /\ Now(a, [op EXCEPT !.pc = "claude"])
          /\ Disturbs(IF op.room THEN {} ELSE {month})
    /\ UNCHANGED <<month, tracker, outlay>>

(* update_budget: read, add, drop the old months; then the file is emptied *)
(* and written.                                                            *)
Newest(data) ==
    Restrict(data, {m \in DOMAIN data : Cardinality({n \in DOMAIN data : n > m}) < Kept})

Charged(data, cost) == Newest([Status(data) EXCEPT ![month] = @ + cost])

ReadTracker(a) ==
    /\ asker[a].pc = "charge"
    /\ Now(a, [pc |-> "empty", data |-> Charged(tracker, asker[a].cost)])
    /\ UNCHANGED <<month, tracker, outlay, disturbed>>

EmptyTracker(a) ==
    /\ asker[a].pc = "empty"
    /\ tracker' = NoFile
    /\ Now(a, [asker[a] EXCEPT !.pc = "write"])
    /\ UNCHANGED <<month, outlay, disturbed>>

WriteTracker(a) ==
    /\ asker[a].pc = "write"
    /\ tracker' = asker[a].data
    /\ Now(a, NoQuestion)
    /\ UNCHANGED <<month, outlay, disturbed>>

(* reset_budget, of a month the file has. *)
ResetBudget(a, m) ==
    /\ asker[a] = NoQuestion
    /\ m \in DOMAIN tracker
    /\ Now(a, [pc |-> "empty", data |-> [tracker EXCEPT ![m] = 0]])
    /\ Disturbs({m} \cup IF Alone(a) THEN {} ELSE {month})
    /\ UNCHANGED <<month, tracker, outlay>>

AskerDies(a) ==
    /\ asker[a] # NoQuestion
    /\ Now(a, NoQuestion)
    /\ Disturbs(IF asker[a].pc \in {"charge", "empty", "write"} THEN {month} ELSE {})
    /\ UNCHANGED <<month, tracker, outlay>>

MonthPasses ==
    /\ month < LastMonth
    /\ month' = month + 1
    /\ Disturbs(IF \A a \in Askers : asker[a] = NoQuestion THEN {} ELSE {month, month + 1})
    /\ UNCHANGED <<tracker, asker, outlay>>

BudgetNext ==
    \/ \E a \in Askers :
          \/ Ask(a) \/ CallClaude(a) \/ CallOllama(a)
          \/ ReadTracker(a) \/ EmptyTracker(a) \/ WriteTracker(a) \/ AskerDies(a)
          \/ \E m \in Months : ResetBudget(a, m)
    \/ MonthPasses

BudgetSpec == BudgetInit /\ [][BudgetNext]_budgetVars

\* The tracker has sums for months, and each process is at a step of ask_claude.
BudgetTypeOK ==
    /\ month \in Months
    /\ DOMAIN tracker \subseteq Months
    /\ DOMAIN outlay = Months
    /\ disturbed \subseteq Months
    /\ \A a \in Askers : asker[a].pc \in
           {"idle", "claude", "ollama", "charge", "empty", "write"}

(* The budget of a month is overdrawn by less than one question, and with  *)
(* nobody at a question the tracker has just what Claude was paid, unless  *)
(* in that month two processes asked at once, the month changed during a   *)
(* question, a paid question failed or died, the sum was reset, or Ollama  *)
(* failed when the budget was used up ("hard limit", ai_router.py:369).    *)
BudgetHolds ==
    /\ \A m \in Months \ disturbed : \E c \in Costs :
           outlay[m] < MonthlyBudget + c
    /\ month \notin disturbed /\ (\A a \in Askers : asker[a] = NoQuestion)
           => Status(tracker)[month] = outlay[month]
=============================================================================

--------------------------- MODULE CostGovernance ---------------------------
(***************************************************************************)
(* Cost governance (src/reliability/costGovernance.ts): what each action   *)
(* has cost, budgets over sliding windows, and the alerts of budgets that  *)
(* are exceeded.  Each operation is one mutation under the lock of the     *)
(* store.  Of the six amounts one is kept, of the five dimensions of       *)
(* attribution the value that budgets ask for.                             *)
(***************************************************************************)
EXTENDS Clock, Integers, Sequences, FiniteSetsExt, Filters

CONSTANTS
    CostTenant, CostAction, Attribution, Amount,
    BudgetName, BudgetLimit, BudgetWindow,
    MaxCostRecords, MaxBudgets, MaxAlerts,
    LongestWindow,          \* MAX_WINDOW_MS
    MaxAlertsRaised,        \* bound: alerts ever raised
    NoCost

ASSUME CostAssumption ==
    /\ Amount \subseteq Nat /\ BudgetLimit \subseteq Nat
    /\ BudgetWindow \subseteq 0 .. LongestWindow
    /\ {MaxCostRecords, MaxBudgets, MaxAlerts, LongestWindow, MaxAlertsRaised} \subseteq Nat

VARIABLES costRecord, budgets, alerts,
    raised          \* alerts raised so far; the last one's number is its id

costOnly == <<costRecord, budgets, alerts, raised>>
costVars == <<now, costOnly>>

CostInit ==
    /\ now = 0
    /\ costRecord = [t \in CostTenant |-> [a \in CostAction |-> NoCost]]
    /\ budgets = <<>> /\ alerts = <<>> /\ raised = 0

Records == {r \in CostTenant \X CostAction : costRecord[r[1]][r[2]] # NoCost}
-----------------------------------------------------------------------------
\* recordCost(): once for an action of a tenant; records are never removed.
RecordCost(t, a, value, amount) ==
    /\ costRecord[t][a] = NoCost /\ Cardinality(Records) < MaxCostRecords
    /\ costRecord' = [costRecord EXCEPT ![t] = [costRecord[t] EXCEPT ![a] =
            [recordedAt |-> now, attribution |-> value, amount |-> amount]]]
    /\ UNCHANGED <<now, budgets, alerts, raised>>

Named(b) == {i \in DOMAIN budgets : budgets[i].id = b}

ConfigureBudget(budget) ==
    /\ Named(budget.id) = {} => Len(budgets) < MaxBudgets
    /\ budgets' = IF Named(budget.id) = {} THEN Append(budgets, budget)
                  ELSE [i \in DOMAIN budgets |->
                            IF i \in Named(budget.id) THEN budget ELSE budgets[i]]
    /\ UNCHANGED <<now, costRecord, alerts, raised>>

\* Its alerts stay, open ones too.
RemoveBudget(b) ==
    /\ Named(b) # {}
    /\ budgets' = Kept(budgets, DOMAIN budgets \ Named(b))
    /\ UNCHANGED <<now, costRecord, alerts, raised>>
-----------------------------------------------------------------------------
\* evaluateBudget(), over the records of all tenants in the longest window.
Spent(budget) ==
    MapThenSumSet(LAMBDA r : costRecord[r[1]][r[2]].amount,
        {r \in Records : /\ costRecord[r[1]][r[2]].attribution = budget.scope
                         /\ costRecord[r[1]][r[2]].recordedAt >= now - LongestWindow
                         /\ costRecord[r[1]][r[2]].recordedAt >= now - budget.windowMs})
Exceeded(budget) == Spent(budget) > budget.limit

OpenAlerts(list, b) == {i \in DOMAIN list : list[i].budgetId = b /\ list[i].status = "open"}

\* The first acknowledged alert makes room for a new one.
Removable(list) ==
    {i \in DOMAIN list : /\ list[i].status = "acknowledged"
                         /\ \A j \in 1 .. i - 1 : list[j].status = "open"}

Raised(list, n, ok) == [alerts |-> list, raised |-> n, ok |-> ok]
Raising == Raised(alerts, raised, TRUE)

\* What an open alert of an exceeded budget becomes, and what is raised for one without.
RefreshedAlert(alert, budget) == [alert EXCEPT !.total = Spent(budget), !.windowEnd = now]
FreshAlert(n, budget) ==
    [id |-> n, budgetId |-> budget.id, status |-> "open", total |-> Spent(budget), windowEnd |-> now]

WithRoom(list) ==
    IF Len(list) < MaxAlerts THEN list ELSE Kept(list, DOMAIN list \ Removable(list))

\* deriveAlerts(), for one budget: refresh its open alert or raise one.
Raise(st, budget) ==
    LET open == OpenAlerts(st.alerts, budget.id)
        refreshed == [i \in DOMAIN st.alerts |->
            IF i = Min(open) THEN RefreshedAlert(st.alerts[i], budget) ELSE st.alerts[i]]
        full == Len(st.alerts) >= MaxAlerts /\ Removable(st.alerts) = {}
    IN  IF ~st.ok \/ ~Exceeded(budget) \/ ~budget.alertOnExceed THEN st
        ELSE IF open # {} THEN Raised(refreshed, st.raised, TRUE)
        ELSE IF full THEN Raised(st.alerts, st.raised, FALSE)
        ELSE Raised(Append(WithRoom(st.alerts), FreshAlert(st.raised + 1, budget)),
                    st.raised + 1, TRUE)

\* deriveAlerts(), for one budget after the other.
Derived ==
    LET after[n \in 0 .. Len(budgets)] ==
            IF n = 0 THEN Raising ELSE Raise(after[n - 1], budgets[n])
    IN  after[Len(budgets)]

\* listAlerts(): one budget without room for its alert and nothing is saved.
ListAlerts ==
    LET st == Derived
    IN  /\ st.ok /\ st.raised <= MaxAlertsRaised
        /\ alerts' = st.alerts /\ raised' = st.raised
        /\ UNCHANGED <<now, costRecord, budgets>>

AcknowledgeAlert(i) ==
    /\ i \in DOMAIN alerts /\ alerts[i].status = "open"
    /\ alerts' = [alerts EXCEPT ![i] = [alerts[i] EXCEPT !.status = "acknowledged"]]
    /\ UNCHANGED <<now, costRecord, budgets, raised>>

CostTick == Tick /\ UNCHANGED costOnly

CostBudget ==
    [id : BudgetName, scope : Attribution, limit : BudgetLimit, windowMs : BudgetWindow,
     alertOnExceed : BOOLEAN]

CostNext ==
    \/ CostTick \/ ListAlerts
    \/ \E t \in CostTenant, a \in CostAction, value \in Attribution, amount \in Amount :
        RecordCost(t, a, value, amount)
    \/ \E budget \in CostBudget : ConfigureBudget(budget)
    \/ \E b \in BudgetName : RemoveBudget(b)
    \/ \E i \in DOMAIN alerts : AcknowledgeAlert(i)

CostSpec == CostInit /\ [][CostNext]_costVars
-----------------------------------------------------------------------------
\* The store keeps to its bounds.
CostTypeOK ==
    /\ Cardinality(Records) <= MaxCostRecords
    /\ budgets \in Seq(CostBudget) /\ Len(budgets) <= MaxBudgets
    /\ Len(alerts) <= MaxAlerts /\ raised \in 0 .. MaxAlertsRaised
    /\ \A i \in DOMAIN alerts : alerts[i].status \in {"open", "acknowledged"}

\* An alert nobody has acknowledged is not lost: not when the alerts are full, its budget
\* is removed or no longer exceeded, and no budget ever has two of them.
OpenAlertsAreKept ==
    [][/\ \A i \in DOMAIN alerts : alerts[i].status = "open" =>
            \E j \in DOMAIN alerts' : alerts'[j].id = alerts[i].id
       /\ \A i, j \in DOMAIN alerts' :
            i # j /\ alerts'[i].status = "open" /\ alerts'[j].status = "open" =>
                alerts'[i].budgetId # alerts'[j].budgetId
      ]_costVars

=============================================================================

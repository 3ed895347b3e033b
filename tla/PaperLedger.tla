---------------------------- MODULE PaperLedger ----------------------------
(***************************************************************************)
(* The append-only paper trading ledger: paper_trading/ledger.py and the   *)
(* tables, CHECKs and triggers of migration                                *)
(* 001_autonomous_paper_trading_ledgers.sql.                               *)
(*                                                                         *)
(* A table is a function from the row identifiers present to their rows;   *)
(* an event log is one sequence per owner, its index being the column seq. *)
(* Every public append_* method is one action.  A method either inserts a  *)
(* row with all the child rows its AFTER INSERT trigger emits, recognises  *)
(* a replay and returns, or raises; only the first changes the ledger, so  *)
(* an action is enabled exactly when its outcome is "inserted" and the     *)
(* outcome operators also say what a repeated call would do.               *)
(*                                                                         *)
(* Hashes, model names, currencies and reason codes are carried by the     *)
(* code without being compared to anything else: they are left out.        *)
(***************************************************************************)
EXTENDS Integers, Sequences, FiniteSets, Functions

CONSTANTS
    Accounts, Symbols,
    DecisionIds, ProposalIds, ReviewIds, OrderIds, FillIds, NavIds, EventIds,
    KsfIds,        \* KSF decisions a paper decision may cite
    Keys,          \* caller-supplied idempotency keys
    MaxTime,       \* bound: instants are 0 .. MaxTime
    ChainTimes,    \* bound: instants the authority chain is dated at
    Deposits,      \* initial cash of an account, KRW
    TargetBps,     \* target exposures a proposal may ask for, basis points
    Quantities,    \* share counts a risk review may approve
    Prices,        \* prices per share, KRW
    Charges        \* fee and tax amounts of one fill, KRW

Times == 0 .. MaxTime

(***************************************************************************)
(* The value ranges the CHECK constraints and _require_int admit.          *)
(***************************************************************************)
ASSUME TimeAssumption == MaxTime \in Nat /\ ChainTimes \subseteq Times
ASSUME ValueAssumption ==
    /\ Deposits   \subseteq Nat \ {0}
    /\ TargetBps  \subseteq 0 .. 10000
    /\ Quantities \subseteq Nat \ {0}
    /\ Prices     \subseteq Nat \ {0}
    /\ Charges    \subseteq Nat

(***************************************************************************)
(* No SQL constraint keeps the charges of a SELL below its proceeds: the   *)
(* broker, the only writer of fills, derives both from basis points of the *)
(* proceeds.                                                               *)
(***************************************************************************)
ASSUME ChargeAssumption ==
    \A price \in Prices, quantity \in Quantities, fee, tax \in Charges :
        fee + tax <= price * quantity

ASSUME EmittedAssumption == "emitted" \notin EventIds

VARIABLES
    accounts,       \* paper_accounts
    accountEvents,  \* paper_account_events, per account
    killEvents,     \* paper_kill_switch_events, per account
    decisions,      \* paper_agent_decisions
    proposals,      \* paper_order_proposals
    reviews,        \* paper_risk_reviews
    orders,         \* paper_orders
    orderEvents,    \* paper_order_events, per order
    fills,          \* paper_fills
    navs,           \* paper_nav_snapshots
    cashAsOf,       \* [account][t]: sum of paper_cash_events with event_at <= t
    positionAsOf    \* [account][symbol][t]: the same for paper_position_events

chain    == <<decisions, proposals, reviews, orders>>
balances == <<cashAsOf, positionAsOf>>
ledger   == <<accounts, accountEvents, killEvents, chain, orderEvents, fills,
              navs, balances>>

(***************************************************************************)
(* Rows                                                                    *)
(***************************************************************************)
Sides   == {"BUY", "SELL"}
Actions == {"ENTER", "HOLD", "REDUCE", "EXIT", "ABSTAIN"}

Account  == [initial_cash : Nat, created_at : Times]
Event    == [id : EventIds \cup {"emitted"},
             type : {"CREATED", "ENABLED", "DISABLED", "ENGAGED", "RELEASED",
                     "ACCEPTED", "FILLED", "CANCELLED", "EXPIRED"},
             at : Times]
Decision == [account : Accounts, symbol : Symbols, ksf : KsfIds,
             cutoff : Times, action : Actions, created_at : Times]
Proposal == [decision : DecisionIds, account : Accounts, symbol : Symbols,
             side : Sides, target : Nat, key : Keys, proposed_at : Times]
Review   == [proposal : ProposalIds, verdict : {"APPROVE", "RESIZE", "REJECT"},
             quantity : Nat, price : Nat, reviewed_at : Times]
Order    == [review : ReviewIds, proposal : ProposalIds, account : Accounts,
             symbol : Symbols, side : Sides, quantity : Nat, key : Keys,
             created_at : Times]
Fill     == [order : OrderIds, account : Accounts, symbol : Symbols,
             side : Sides, price : Nat, quantity : Nat, fee : Nat, tax : Nat,
             observed_at : Times, filled_at : Times]
Mark     == [quantity : Nat, price : Nat, observed_at : Times]

IsTable(table, Ids, Rows) ==
    DOMAIN table \subseteq Ids /\ table \in [DOMAIN table -> Rows]

TypeOK ==
    /\ IsTable(accounts, Accounts, Account)
    /\ accountEvents \in [Accounts -> Seq(Event)]
    /\ killEvents    \in [Accounts -> Seq(Event)]
    /\ IsTable(decisions, DecisionIds, Decision)
    /\ IsTable(proposals, ProposalIds, Proposal)
    /\ IsTable(reviews, ReviewIds, Review)
    /\ IsTable(orders, OrderIds, Order)
    /\ orderEvents \in [OrderIds -> Seq(Event)]
    /\ IsTable(fills, FillIds, Fill)
    /\ DOMAIN navs \subseteq NavIds
    /\ \A n \in DOMAIN navs :
         /\ navs[n].account \in Accounts
         /\ navs[n].cash \in Nat
         /\ navs[n].snapshot_at \in Times
         /\ IsTable(navs[n].marks, Symbols, Mark)
    /\ cashAsOf \in [Accounts -> [Times -> Int]]
    /\ positionAsOf \in [Accounts -> [Symbols -> [Times -> Int]]]

Init ==
    /\ accounts = << >> /\ decisions = << >> /\ proposals = << >>
    /\ reviews = << >> /\ orders = << >> /\ fills = << >> /\ navs = << >>
    /\ accountEvents = [a \in Accounts |-> << >>]
    /\ killEvents    = [a \in Accounts |-> << >>]
    /\ orderEvents   = [o \in OrderIds |-> << >>]
    /\ cashAsOf      = [a \in Accounts |-> [t \in Times |-> 0]]
    /\ positionAsOf  = [a \in Accounts |-> [s \in Symbols |-> [t \in Times |-> 0]]]

-----------------------------------------------------------------------------
(***************************************************************************)
(* What one call does.  arguments: the checks made on the call itself;     *)
(* constraints: what INSERT and its triggers require of the row.  The      *)
(* replay test stands between the two.                                     *)
(***************************************************************************)
Submit(arguments, table, id, row, constraints) ==
    IF ~arguments THEN "refused"
    ELSE IF id \in DOMAIN table
         THEN IF table[id] = row THEN "replayed" ELSE "conflict"
    ELSE IF constraints THEN "inserted" ELSE "refused"

Put(table, id, row) ==
    [k \in DOMAIN table \cup {id} |-> IF k = id THEN row ELSE table[k]]

(* The CHECKs and triggers of an event log: never before its owner's      *)
(* creation, never before the last event of the owner.                     *)
EventCausalToCreation(log, created_at, at) == created_at <= at  \* mutant: prior events ignored

EventCausal(log, created_at, at) ==
    /\ created_at <= at
    /\ \A i \in 1 .. Len(log) : log[i].at <= at

(* An event identifier is a primary key of the whole table.  The row that *)
(* replays must agree on everything but seq.                               *)
LogEvent(logs, owner, event, constraints) ==
    IF \E o \in DOMAIN logs : \E i \in 1 .. Len(logs[o]) : logs[o][i].id = event.id
    THEN IF \E i \in 1 .. Len(logs[owner]) : logs[owner][i] = event
         THEN "replayed" ELSE "conflict"
    ELSE IF constraints THEN "inserted" ELSE "refused"

EntrySwapped(id, type, at) == [id |-> type, type |-> id, at |-> at]  \* mutant
Entry(id, type, at) == [id |-> id, type |-> type, at |-> at]

(* Mutant: an event does not count at its own instant. *)
AccrueAfter(balance, at, amount) ==
    [t \in Times |-> IF t <= at THEN balance[t] ELSE balance[t] + amount]

Accrue(balance, at, amount) ==
    [t \in Times |-> IF t < at THEN balance[t] ELSE balance[t] + amount]

-----------------------------------------------------------------------------
(***************************************************************************)
(* Accounts and the two operator switches                                  *)
(***************************************************************************)
AccountOutcome(a, cash, at) ==
    Submit(cash \in Nat \ {0}, accounts, a, [created_at |-> at, initial_cash |-> cash], TRUE)

CreateAccount(a, cash, at) ==
    /\ AccountOutcome(a, cash, at) = "inserted"
    /\ accounts' = Put(accounts, a, [created_at |-> at, initial_cash |-> cash])
    /\ accountEvents' = [accountEvents EXCEPT ![a] = <<Entry("emitted", "CREATED", at)>>]
    /\ cashAsOf' = [cashAsOf EXCEPT ![a] = Accrue(@, at, cash)]
    /\ UNCHANGED <<killEvents, chain, orderEvents, fills, navs, positionAsOf>>

AccountEventOutcome(a, event) ==
    LogEvent(accountEvents, a, event,
             /\ a \in DOMAIN accounts
             /\ EventCausal(accountEvents[a], accounts[a].created_at, event.at))

AppendAccountEvent(id, a, type, at) ==
    LET event == Entry(id, type, at) IN
    /\ type \in {"ENABLED", "DISABLED"}
    /\ AccountEventOutcome(a, event) = "inserted"
    /\ accountEvents' = [accountEvents EXCEPT ![a] = Append(@, event)]
    /\ UNCHANGED <<accounts, killEvents, chain, orderEvents, fills, navs, balances>>

KillSwitchOutcome(a, event) ==
    LogEvent(killEvents, a, event,
             /\ a \in DOMAIN accounts
             /\ EventCausal(killEvents[a], accounts[a].created_at, event.at))

AppendKillSwitchEvent(id, a, type, at) ==
    LET event == Entry(id, type, at) IN
    /\ type \in {"ENGAGED", "RELEASED"}
    /\ KillSwitchOutcome(a, event) = "inserted"
    /\ killEvents' = [killEvents EXCEPT ![a] = Append(@, event)]
    /\ UNCHANGED <<accounts, accountEvents, chain, orderEvents, fills, navs, balances>>

-----------------------------------------------------------------------------
(***************************************************************************)
(* The authority chain: decision, proposal, review, order                  *)
(***************************************************************************)
(* Mutant: UNIQUE (account_id, ksf_decision_id) is missing. *)
DecisionOutcomeNotUnique(d, row) ==
    Submit(row.cutoff <= row.created_at, decisions, d, row, row.account \in DOMAIN accounts)

DecisionOutcome(d, row) ==
    Submit(row.cutoff <= row.created_at, decisions, d, row,
           /\ row.account \in DOMAIN accounts
           /\ \A e \in DOMAIN decisions :
                <<decisions[e].account, decisions[e].ksf>> # <<row.account, row.ksf>>)

AppendAgentDecision(d, row) ==
    /\ DecisionOutcome(d, row) = "inserted"
    /\ decisions' = Put(decisions, d, row)
    /\ UNCHANGED <<accounts, accountEvents, killEvents, proposals, reviews, orders,
                   orderEvents, fills, navs, balances>>

(* The side and the kind of target each action authorises. *)
Authorises(action, side, target) ==
    \/ action = "ENTER"  /\ side = "BUY"  /\ target > 0
    \/ action = "REDUCE" /\ side = "SELL" /\ target > 0
    \/ action = "EXIT"   /\ side = "SELL" /\ target = 0

ProposalRow(d, side, target, key, at) ==
    [account |-> decisions[d].account, symbol |-> decisions[d].symbol, decision |-> d,
     side |-> side, target |-> target, key |-> key, proposed_at |-> at]

ProposalOutcome(p, d, side, target, key, at) ==
    Submit(target \in Nat /\ d \in DOMAIN decisions /\ Authorises(decisions[d].action, side, target),
           proposals, p, ProposalRow(d, side, target, key, at),
           /\ \A q \in DOMAIN proposals : proposals[q].key # key /\ proposals[q].decision # d
           /\ decisions[d].created_at <= at)

AppendOrderProposal(p, d, side, target, key, at) ==
    /\ ProposalOutcome(p, d, side, target, key, at) = "inserted"
    /\ proposals' = Put(proposals, p, ProposalRow(d, side, target, key, at))
    /\ UNCHANGED <<accounts, accountEvents, killEvents, decisions, reviews, orders,
                   orderEvents, fills, navs, balances>>

(* Mutant: a review may be dated before its proposal. *)
ReviewOutcomeAnyTime(r, row) ==
    Submit(IF row.verdict = "REJECT" THEN row.quantity = 0 /\ row.price = 0
                                     ELSE row.quantity \in Nat \ {0} /\ row.price \in Nat \ {0},
           reviews, r, row,
           /\ row.proposal \in DOMAIN proposals
           /\ \A q \in DOMAIN reviews : reviews[q].proposal # row.proposal)

(* A rejected review carries neither quantity nor reference price: 0. *)
ReviewOutcome(r, row) ==
    Submit(IF row.verdict = "REJECT" THEN row.quantity = 0 /\ row.price = 0
                                     ELSE row.quantity \in Nat \ {0} /\ row.price \in Nat \ {0},
           reviews, r, row,
           /\ row.proposal \in DOMAIN proposals
           /\ \A q \in DOMAIN reviews : reviews[q].proposal # row.proposal
           /\ proposals[row.proposal].proposed_at <= row.reviewed_at)

AppendRiskReview(r, row) ==
    /\ ReviewOutcome(r, row) = "inserted"
    /\ reviews' = Put(reviews, r, row)
    /\ UNCHANGED <<accounts, accountEvents, killEvents, decisions, proposals, orders,
                   orderEvents, fills, navs, balances>>

OrderRow(r, key, at) ==
    LET p == reviews[r].proposal IN
    [account |-> proposals[p].account, created_at |-> at, symbol |-> proposals[p].symbol,
     quantity |-> reviews[r].quantity, side |-> proposals[p].side, key |-> key,
     proposal |-> p, review |-> r]

OrderOutcome(o, r, key, at) ==
    Submit(r \in DOMAIN reviews /\ reviews[r].verdict # "REJECT",
           orders, o, OrderRow(r, key, at),
           /\ \A q \in DOMAIN orders :
                orders[q].key # key /\ orders[q].proposal # reviews[r].proposal
           /\ reviews[r].reviewed_at <= at)

AppendOrder(o, r, key, at) ==
    /\ OrderOutcome(o, r, key, at) = "inserted"
    /\ orders' = Put(orders, o, OrderRow(r, key, at))
    /\ orderEvents' = [orderEvents EXCEPT ![o] = <<Entry("emitted", "ACCEPTED", at)>>]
    /\ UNCHANGED <<accounts, accountEvents, killEvents, decisions, proposals, reviews,
                   fills, navs, balances>>

(* Mutant: a cancelled order can still be filled. *)
OpenUnlessFilled(o) ==
    /\ orderEvents[o] # << >>
    /\ \A i \in 1 .. Len(orderEvents[o]) : orderEvents[o][i].type # "FILLED"

(* trg_paper_order_events_no_after_terminal and the same test on fills. *)
Open(o) ==
    /\ \E i \in 1 .. Len(orderEvents[o]) : orderEvents[o][i].type = "ACCEPTED"
    /\ \A i \in 1 .. Len(orderEvents[o]) :
         orderEvents[o][i].type \notin {"FILLED", "CANCELLED", "EXPIRED"}

OrderEventOutcome(o, event) ==
    LogEvent(orderEvents, o, event,
             /\ o \in DOMAIN orders
             /\ Open(o)
             /\ EventCausal(orderEvents[o], orders[o].created_at, event.at))

AppendOrderEvent(id, o, type, at) ==
    LET event == Entry(id, type, at) IN
    /\ type \in {"CANCELLED", "EXPIRED"}
    /\ OrderEventOutcome(o, event) = "inserted"
    /\ orderEvents' = [orderEvents EXCEPT ![o] = Append(@, event)]
    /\ UNCHANGED <<accounts, accountEvents, killEvents, chain, fills, navs, balances>>

-----------------------------------------------------------------------------
(***************************************************************************)
(* Derived state                                                           *)
(***************************************************************************)
CashBalance(a)       == cashAsOf[a][MaxTime]
Position(a, s)       == positionAsOf[a][s][MaxTime]
HeldAsOf(a, t)       == {s \in Symbols : positionAsOf[a][s][t] # 0}
LedgerReadable(a, t) == \A s \in Symbols : positionAsOf[a][s][t] >= 0

(* The last switch event of the log that is not after t decides; a missing *)
(* record fails closed.                                                    *)
LastAsOf(log, t, type) ==
    \E i \in 1 .. Len(log) :
        /\ log[i].at <= t /\ log[i].type = type
        /\ \A j \in i + 1 .. Len(log) : log[j].at > t
AccountEnabledAsOf(a, t)    == LastAsOf(accountEvents[a], t, "ENABLED")
KillSwitchEngagedAsOf(a, t) ==
    \/ \A i \in 1 .. Len(killEvents[a]) : killEvents[a][i].at > t
    \/ LastAsOf(killEvents[a], t, "ENGAGED")

-----------------------------------------------------------------------------
(***************************************************************************)
(* Fills and NAV snapshots                                                 *)
(***************************************************************************)
Gross(f) == f.price * f.quantity
CashDelta(f) ==
    (IF f.side = "BUY" THEN -Gross(f) ELSE Gross(f)) - f.fee - f.tax
PositionDelta(f) == IF f.side = "BUY" THEN f.quantity ELSE -f.quantity

FillRow(o, price, fee, tax, observed_at, filled_at) ==
    [account |-> orders[o].account, filled_at |-> filled_at, symbol |-> orders[o].symbol,
     price |-> price, quantity |-> orders[o].quantity, fee |-> fee, tax |-> tax,
     side |-> orders[o].side, order |-> o, observed_at |-> observed_at]

BuyFundedGross(f) ==  \* mutant: the charges are not covered
    f.side = "BUY" => CashBalance(f.account) >= Gross(f)
BuyFunded(f) == f.side = "BUY" => CashBalance(f.account) >= Gross(f) + f.fee + f.tax
SellHeld(f)  == f.side = "SELL" => Position(f.account, f.symbol) >= f.quantity
FillCausalSameInstant(f) ==  \* mutant: the deciding instant may be the filling one
    orders[f.order].created_at <= f.observed_at /\ f.observed_at <= f.filled_at
FillCausal(f) ==
    orders[f.order].created_at < f.observed_at /\ f.observed_at <= f.filled_at

(* Mutant: cash, holdings and order state are tested before the replay. *)
FillOutcomeChecksFirst(i, o, price, fee, tax, observed_at, filled_at) ==
    LET row == FillRow(o, price, fee, tax, observed_at, filled_at) IN
    Submit(/\ price \in Nat \ {0} /\ fee \in Nat /\ tax \in Nat
           /\ o \in DOMAIN orders /\ BuyFunded(row) /\ SellHeld(row),
           fills, i, row,
           (\A g \in DOMAIN fills : fills[g].order # o) /\ Open(o) /\ FillCausal(row))

FillOutcome(i, o, price, fee, tax, observed_at, filled_at) ==
    LET row == FillRow(o, price, fee, tax, observed_at, filled_at) IN
    Submit(price \in Nat \ {0} /\ fee \in Nat /\ tax \in Nat /\ o \in DOMAIN orders, fills, i, row,
           /\ \A g \in DOMAIN fills : fills[g].order # o
           /\ Open(o)
           /\ FillCausal(row)
           /\ BuyFunded(row)
           /\ SellHeld(row))

AppendFill(i, o, price, fee, tax, observed_at, filled_at) ==
    LET row == FillRow(o, price, fee, tax, observed_at, filled_at) IN
    /\ FillOutcome(i, o, price, fee, tax, observed_at, filled_at) = "inserted"
    /\ fills' = Put(fills, i, row)
    /\ cashAsOf' = [cashAsOf EXCEPT ![row.account] = Accrue(@, filled_at, CashDelta(row))]
    /\ positionAsOf' = [positionAsOf EXCEPT ![row.account][row.symbol] =
         Accrue(@, filled_at, PositionDelta(row))]
    /\ orderEvents' = [orderEvents EXCEPT ![o] =
         Append(@, Entry("emitted", "FILLED", filled_at))]
    /\ UNCHANGED <<accounts, accountEvents, killEvents, chain, navs>>

(* A snapshot must equal the event-sourced state as of its own instant,    *)
(* and this is tested before the replay test.                              *)
NavMatchesEvents(nav) ==
    /\ LedgerReadable(nav.account, nav.snapshot_at)
    /\ DOMAIN nav.marks = HeldAsOf(nav.account, nav.snapshot_at)
    /\ \A s \in DOMAIN nav.marks :
         nav.marks[s].quantity = positionAsOf[nav.account][s][nav.snapshot_at]
    /\ nav.cash = cashAsOf[nav.account][nav.snapshot_at]

NavOutcome(n, nav) ==
    Submit(/\ nav.cash \in Nat
           /\ \A s \in DOMAIN nav.marks :
                /\ nav.marks[s].quantity \in Nat \ {0} /\ nav.marks[s].price \in Nat \ {0}
                /\ nav.marks[s].observed_at <= nav.snapshot_at
           /\ NavMatchesEvents(nav),
           navs, n, nav, nav.account \in DOMAIN accounts)

AppendNavSnapshot(n, nav) ==
    /\ NavOutcome(n, nav) = "inserted"
    /\ navs' = Put(navs, n, nav)
    /\ UNCHANGED <<accounts, accountEvents, killEvents, chain, orderEvents, fills, balances>>

(* The snapshots that can pass NavMatchesEvents: only the marks are free.  *)
CandidateNavs(a, t) ==
    {[account |-> a,
      marks |-> [s \in HeldAsOf(a, t) |->
        [price |-> price, quantity |-> positionAsOf[a][s][t], observed_at |-> at]],
      cash |-> cashAsOf[a][t], snapshot_at |-> t] :
     price \in Prices, at \in 0 .. t}

-----------------------------------------------------------------------------
(***************************************************************************)
(* The callers: any legal call, in any order, with any instants.  The      *)
(* ledger is written under BEGIN IMMEDIATE, so one call is one step.       *)
(***************************************************************************)
SwitchCalls ==
    \E a \in Accounts, at \in Times :
        \/ \E cash \in Deposits : CreateAccount(a, cash, at)
        \/ \E id \in EventIds :
             \/ \E type \in {"ENABLED", "DISABLED"} : AppendAccountEvent(id, a, type, at)
             \/ \E type \in {"ENGAGED", "RELEASED"} : AppendKillSwitchEvent(id, a, type, at)

ChainCalls ==
    \E at \in ChainTimes :
        \/ \E d \in DecisionIds, a \in Accounts, s \in Symbols, k \in KsfIds,
              cutoff \in Times, action \in Actions :
             AppendAgentDecision(d, [account |-> a, created_at |-> at, symbol |-> s,
                ksf |-> k, cutoff |-> cutoff, action |-> action])
        \/ \E p \in ProposalIds, d \in DecisionIds, side \in Sides,
              target \in TargetBps, key \in Keys :
             AppendOrderProposal(p, d, side, target, key, at)
        \/ \E r \in ReviewIds, p \in ProposalIds,
              verdict \in {"APPROVE", "RESIZE", "REJECT"},
              quantity \in Quantities \cup {0}, price \in Prices \cup {0} :
             AppendRiskReview(r, [price |-> price, quantity |-> quantity,
                proposal |-> p, verdict |-> verdict, reviewed_at |-> at])
        \/ \E o \in OrderIds, r \in ReviewIds, key \in Keys : AppendOrder(o, r, key, at)

OrderCalls ==
    \E o \in OrderIds, at \in Times :
        \/ \E id \in EventIds, type \in {"CANCELLED", "EXPIRED"} :
             AppendOrderEvent(id, o, type, at)
        \/ \E i \in FillIds, price \in Prices, fee, tax \in Charges, observed_at \in Times :
             AppendFill(i, o, price, fee, tax, observed_at, at)

NavCalls ==
    \E n \in NavIds, a \in Accounts, t \in Times :
        \E nav \in CandidateNavs(a, t) : AppendNavSnapshot(n, nav)

Next == SwitchCalls \/ ChainCalls \/ OrderCalls \/ NavCalls

Spec == Init /\ [][Next]_ledger

-----------------------------------------------------------------------------
(***************************************************************************)
(* Safety                                                                  *)
(***************************************************************************)
ReviewOf(f)   == reviews[orders[fills[f].order].review]
ProposalOf(f) == proposals[ReviewOf(f).proposal]
DecisionOf(f) == decisions[ProposalOf(f).decision]

(* Every row of the chain agrees with the row that authorises it, is not   *)
(* dated before it, and is the only row of its table that it authorises.   *)
(* The three properties of fills below follow from this by walking up.     *)
DecisionsSound ==
    \A d \in DOMAIN decisions :
        /\ decisions[d].cutoff <= decisions[d].created_at
        /\ \A e \in DOMAIN decisions :
             /\ decisions[e].account = decisions[d].account
             /\ decisions[e].ksf = decisions[d].ksf
             => d = e
ProposalsSound ==
    \A p \in DOMAIN proposals :
        LET row == proposals[p]  d == row.decision IN
        /\ d \in DOMAIN decisions
        /\ row.account = decisions[d].account /\ row.symbol = decisions[d].symbol
        /\ Authorises(decisions[d].action, row.side, row.target)
        /\ decisions[d].created_at <= row.proposed_at
        /\ \A q \in DOMAIN proposals : proposals[q].decision = d => p = q
ReviewsSound ==
    \A r \in DOMAIN reviews :
        LET row == reviews[r]  p == row.proposal IN
        /\ p \in DOMAIN proposals
        /\ row.verdict # "REJECT" => row.quantity \in Nat \ {0}
        /\ proposals[p].proposed_at <= row.reviewed_at
        /\ \A q \in DOMAIN reviews : reviews[q].proposal = p => r = q
OrdersSound ==
    \A o \in DOMAIN orders :
        LET row == orders[o]  r == row.review  p == row.proposal IN
        /\ r \in DOMAIN reviews /\ p = reviews[r].proposal
        /\ reviews[r].verdict # "REJECT" /\ row.quantity = reviews[r].quantity
        /\ row.account = proposals[p].account /\ row.symbol = proposals[p].symbol
        /\ row.side = proposals[p].side
        /\ reviews[r].reviewed_at <= row.created_at
        /\ \A q \in DOMAIN orders : orders[q].proposal = p => o = q
FillsSound ==
    \A f \in DOMAIN fills :
        LET row == fills[f]  o == row.order IN
        /\ o \in DOMAIN orders
        /\ row.account = orders[o].account /\ row.symbol = orders[o].symbol
        /\ row.side = orders[o].side /\ row.quantity = orders[o].quantity
        /\ orders[o].created_at < row.observed_at /\ row.observed_at <= row.filled_at
        /\ \A g \in DOMAIN fills : fills[g].order = o => f = g
AuthorityChain ==
    DecisionsSound /\ ProposalsSound /\ ReviewsSound /\ OrdersSound /\ FillsSound

(* Every fill is authorised: its order, review, proposal and decision      *)
(* exist, the review accepted it, and account, symbol, side and quantity   *)
(* are those that were decided, proposed and reviewed.                     *)
FillsAuthorised ==
    \A f \in DOMAIN fills :
        /\ fills[f].order \in DOMAIN orders
        /\ orders[fills[f].order].review \in DOMAIN reviews
        /\ ReviewOf(f).proposal \in DOMAIN proposals
        /\ ProposalOf(f).decision \in DOMAIN decisions
        /\ ReviewOf(f).verdict # "REJECT"
        /\ fills[f].quantity = ReviewOf(f).quantity
        /\ <<fills[f].account, fills[f].symbol>> = <<DecisionOf(f).account, DecisionOf(f).symbol>>
        /\ Authorises(DecisionOf(f).action, fills[f].side, ProposalOf(f).target)

(* One KSF decision moves an account's money at most once, however its     *)
(* decision, proposal, review, order and fill calls are repeated under     *)
(* other identifiers and keys.                                             *)
OneFillPerSignal ==
    \A f, g \in DOMAIN fills :
        <<DecisionOf(f).account, DecisionOf(f).ksf>> = <<DecisionOf(g).account, DecisionOf(g).ksf>>
            => f = g

(* No look-ahead: the price a fill uses was observed strictly after the    *)
(* decision was made and after every datum the decision could see.         *)
NoLookAhead ==
    \A f \in DOMAIN fills :
        /\ DecisionOf(f).cutoff < fills[f].observed_at
        /\ DecisionOf(f).created_at < fills[f].observed_at
        /\ fills[f].observed_at <= fills[f].filled_at

(* An order's log is empty before the order exists, starts with ACCEPTED,  *)
(* ends at its first terminal event, and says FILLED exactly when a fill   *)
(* exists: no order is both filled and cancelled.                          *)
LifeOf(o) ==
    LET log == orderEvents[o] IN
    /\ (o \in DOMAIN orders) <=> (log # << >>)
    /\ Len(log) <= 2
    /\ \A i \in 1 .. Len(log) : IF i = 1 THEN log[i].type = "ACCEPTED"
         ELSE log[i].type \in {"FILLED", "CANCELLED", "EXPIRED"}
    /\ (\E i \in 1 .. Len(log) : log[i].type = "FILLED")
         <=> (\E f \in DOMAIN fills : fills[f].order = o)
OrderLifecycle == \A o \in OrderIds : LifeOf(o)

(* Long-only, without borrowing: neither the cash of an account nor its    *)
(* holding of any symbol is ever negative.                                 *)
LongOnly ==
    \A a \in Accounts : CashBalance(a) >= 0 /\ \A s \in Symbols : Position(a, s) >= 0

(* The as-of balances are exactly the sums of the events: the deposit and  *)
(* what the fills of the account moved.  A fill is charged once, with its  *)
(* fee and tax, at its own instant.                                        *)
FillsUpTo(a, t) == {f \in DOMAIN fills : fills[f].account = a /\ fills[f].filled_at <= t}
CashMoved       == [f \in DOMAIN fills |-> CashDelta(fills[f])]
SharesMoved(s)  ==
    [f \in DOMAIN fills |-> IF fills[f].symbol = s THEN PositionDelta(fills[f]) ELSE 0]
Conservation ==
    \A a \in DOMAIN accounts, t \in Times :
        /\ cashAsOf[a][t] =
             (IF accounts[a].created_at <= t THEN accounts[a].initial_cash ELSE 0)
               + SumFunctionOnSet(CashMoved, FillsUpTo(a, t))
        /\ \A s \in Symbols :
             positionAsOf[a][s][t] = SumFunctionOnSet(SharesMoved(s), FillsUpTo(a, t))

(* A call that recorded an account, a decision, a proposal, a review, an   *)
(* order or a fill can be repeated at any later time and is recognised as  *)
(* a replay, whatever was recorded in between.  The calls that append      *)
(* switch and order events are not covered, nor are NAV snapshots:         *)
(* append_nav_snapshot compares the snapshot with the events before it     *)
(* looks for a replay, and raises for one behind a later fill.             *)
Replayable ==
    /\ \A a \in DOMAIN accounts :
         AccountOutcome(a, accounts[a].initial_cash, accounts[a].created_at) = "replayed"
    /\ \A d \in DOMAIN decisions : DecisionOutcome(d, decisions[d]) = "replayed"
    /\ \A p \in DOMAIN proposals :
         LET row == proposals[p] IN
         ProposalOutcome(p, row.decision, row.side, row.target, row.key, row.proposed_at)
             = "replayed"
    /\ \A r \in DOMAIN reviews : ReviewOutcome(r, reviews[r]) = "replayed"
    /\ \A o \in DOMAIN orders :
         OrderOutcome(o, orders[o].review, orders[o].key, orders[o].created_at) = "replayed"
    /\ \A f \in DOMAIN fills :
         LET row == fills[f] IN
         FillOutcome(f, row.order, row.price, row.fee, row.tax, row.observed_at, row.filled_at)
             = "replayed"

(* Once a switch event later than t is recorded, what the switches said as *)
(* of t is final: a review dated t that is audited or repeated later sees  *)
(* the authority it saw then.  No more than that: as long as no event is   *)
(* later than t, one dated t or before it can still be recorded, also      *)
(* after the state as of t was read.                                       *)
Passed(log, t) == \E i \in 1 .. Len(log) : log[i].at > t
SwitchHistoryFinal ==
    [][\A a \in Accounts, t \in Times :
         /\ Passed(accountEvents[a], t) =>
              (AccountEnabledAsOf(a, t)' <=> AccountEnabledAsOf(a, t))
         /\ Passed(killEvents[a], t) =>
              (KillSwitchEngagedAsOf(a, t)' <=> KillSwitchEngagedAsOf(a, t))]_ledger
=============================================================================

----------------------------- MODULE PaperCycle -----------------------------
(***************************************************************************)
(* strategy/paper_cycle.py: one cycle per session settles the orders of    *)
(* earlier sessions (paper_broker), marks the book, asks the agent for one *)
(* proposal per symbol, reviews it (paper_risk) and, in fills mode, queues *)
(* an order.  Every step of a cycle is one call of the ledger              *)
(* (PaperLedger); the whole cycle is one BEGIN IMMEDIATE transaction, so   *)
(* the ledger's variables are the view of the connection that holds the    *)
(* transaction and saved is what a rollback restores.  The file lock and   *)
(* BEGIN IMMEDIATE leave no room for a second cycle or an operator's write *)
(* inside the transaction; a cycle that finds the lock taken returns.      *)
(*                                                                         *)
(* Identifiers are stable_id hashes of the cycle's payload.  A session     *)
(* commits at most one payload, so <<session, symbol>> identifies its      *)
(* decision, proposal, review, order and fill.                             *)
(*                                                                         *)
(* Bounds of the model: one account; data is never stale; HOLD, which the  *)
(* cycle treats as it treats ABSTAIN, is not among the answers.            *)
(***************************************************************************)
EXTENDS PaperLedger, PaperRisk, PaperBroker, FiniteSetsExt, TLC

CONSTANTS
    TheAccount,
    SymbolOrder,   \* the symbols, in the order the cycle reviews them
    MaxSession,    \* bound: sessions are 1 .. MaxSession
    Modes,         \* "shadow", "fills"
    Closes,        \* closing prices a session may observe
    Offsets,       \* when in a session each symbol's data is cut off: 0 or 1
    Answers,       \* what the agent may answer: [action, target]
    EventTimes     \* instants an operator's switch event may carry

Sessions == 1 .. MaxSession

(* Three instants per session: two where data may be cut off, then the     *)
(* cycle itself.                                                           *)
CutoffAt(session, offset) == 3 * session + offset
CycleAt(session)          == 3 * session + 2
SessionOf(t)              == t \div 3

ASSUME CycleAssumption ==
    /\ Accounts = {TheAccount} /\ Deposits # {}
    /\ Modes \subseteq {"shadow", "fills"} /\ EventTimes \subseteq Times
    /\ Closes \subseteq Nat \ {0} /\ MaxSession \in Nat
    /\ SymbolOrder \in Seq(Symbols) /\ Symbols = {SymbolOrder[i] : i \in 1 .. Len(SymbolOrder)}
    /\ MaxTime = CycleAt(MaxSession) /\ Offsets \subseteq [Symbols -> {0, 1}]
    /\ Sessions \X Symbols \subseteq
         DecisionIds \cap ProposalIds \cap ReviewIds \cap OrderIds \cap FillIds
           \cap NavIds \cap KsfIds \cap Keys
    /\ Sessions \X {"cycle"} \subseteq NavIds

VARIABLES
    run,       \* the running cycle; its stage is "idle" between cycles
    saved,     \* the tables as of BEGIN IMMEDIATE
    commits,   \* paper_cycle_commits: [session -> mode, "none" without a row]
    alerts,    \* [session -> digests delivered]
    outcome    \* how the last cycle ended

cycle == <<run, saved, commits, alerts, outcome>>
vars  == <<ledger, cycle>>

Idle      == [stage |-> "idle"]
InCycle   == run.stage \notin {"idle", "alert"}
Sym       == Head(run.left)
Id        == <<run.session, Sym>>
Close(s)  == run.closes[s]
CutOff(s) == CutoffAt(run.session, run.offsets[s])
Now       == CycleAt(run.session)
At(stage) == run.stage = stage
GoTo(next) == run' = next
Running(stage, left) ==
    [stage |-> stage, session |-> run.session, mode |-> run.mode, closes |-> run.closes,
     offsets |-> run.offsets, left |-> left]

CycleInit ==
    /\ \E cash \in Deposits :
         /\ accounts = [a \in Accounts |-> [initial_cash |-> cash, created_at |-> 0]]
         /\ cashAsOf = [a \in Accounts |-> [t \in Times |-> cash]]
    /\ accountEvents = [a \in Accounts |-> <<Entry("emitted", "CREATED", 0),
                                             Entry("emitted", "ENABLED", 0)>>]
    /\ killEvents = [a \in Accounts |-> <<Entry("emitted", "RELEASED", 0)>>]
    /\ decisions = << >> /\ proposals = << >> /\ reviews = << >> /\ orders = << >>
    /\ fills = << >> /\ navs = << >>
    /\ orderEvents = [o \in OrderIds |-> << >>]
    /\ positionAsOf = [a \in Accounts |-> [s \in Symbols |-> [t \in Times |-> 0]]]
    /\ run = Idle /\ saved = << >> /\ outcome = "none"
    /\ commits = [s \in Sessions |-> "none"] /\ alerts = [s \in Sessions |-> 0]

-----------------------------------------------------------------------------
(***************************************************************************)
(* Beginning, failing, committing                                          *)
(***************************************************************************)
Tables == [decisions |-> decisions, proposals |-> proposals, reviews |-> reviews,
           orders |-> orders, orderEvents |-> orderEvents, fills |-> fills,
           navs |-> navs, cash |-> cashAsOf, position |-> positionAsOf]

RollbackButNavs ==  \* mutant: the NAV snapshots are written by another connection
    /\ decisions' = saved.decisions /\ proposals' = saved.proposals
    /\ reviews' = saved.reviews /\ orders' = saved.orders
    /\ orderEvents' = saved.orderEvents /\ fills' = saved.fills
    /\ cashAsOf' = saved.cash /\ positionAsOf' = saved.position
    /\ saved' = << >>
    /\ UNCHANGED <<accounts, accountEvents, killEvents, commits, alerts, navs>>

Rollback ==
    /\ decisions' = saved.decisions /\ proposals' = saved.proposals
    /\ reviews' = saved.reviews /\ orders' = saved.orders
    /\ orderEvents' = saved.orderEvents /\ fills' = saved.fills /\ navs' = saved.navs
    /\ cashAsOf' = saved.cash /\ positionAsOf' = saved.position
    /\ saved' = << >>
    /\ UNCHANGED <<accounts, accountEvents, killEvents, commits, alerts>>

Fail(reason) == Rollback /\ GoTo(Idle) /\ outcome' = reason

(* _authoritative_state: the switches must say go, and nothing may have    *)
(* been recorded on them for a time after the cycle.                       *)
AuthorityWithoutKill(at) ==  \* mutant: the kill switch is not consulted
    /\ \A i \in 1 .. Len(accountEvents[TheAccount]) : accountEvents[TheAccount][i].at <= at
    /\ AccountEnabledAsOf(TheAccount, at)
Authority(at) ==
    /\ \A i \in 1 .. Len(accountEvents[TheAccount]) : accountEvents[TheAccount][i].at <= at
    /\ \A i \in 1 .. Len(killEvents[TheAccount]) : killEvents[TheAccount][i].at <= at
    /\ AccountEnabledAsOf(TheAccount, at)
    /\ ~KillSwitchEngagedAsOf(TheAccount, at)

Begin(s, mode, closes, offsets) ==
    /\ At("idle") /\ Authority(CycleAt(s)) /\ commits[s] = "none"
    /\ saved' = Tables
    /\ GoTo([stage |-> "settle", session |-> s, mode |-> mode, closes |-> closes,
             offsets |-> offsets, left |-> SymbolOrder])
    /\ outcome' = "running"
    /\ UNCHANGED <<ledger, commits, alerts>>

RerunAlerting(s) ==  \* mutant: a replayed cycle delivers its digest again
    /\ At("idle") /\ Authority(CycleAt(s)) /\ commits[s] # "none" /\ alerts[s] < 2
    /\ outcome' = "replayed"
    /\ alerts' = [alerts EXCEPT ![s] = @ + 1]
    /\ UNCHANGED <<ledger, run, saved, commits>>

(* A session that has a commit row is only compared: with the same payload *)
(* it replays the recorded counts, with another it conflicts.              *)
Rerun(s) ==
    /\ At("idle") /\ Authority(CycleAt(s)) /\ commits[s] # "none"
    /\ outcome' \in {"replayed", "conflict"}
    /\ UNCHANGED <<ledger, run, saved, commits, alerts>>

Refuse(s) ==
    /\ At("idle") /\ ~Authority(CycleAt(s))
    /\ outcome' = "refused"
    /\ UNCHANGED <<ledger, run, saved, commits, alerts>>

(* The commit row is the last write of the transaction. *)
Commit ==
    /\ At("decide") /\ run.left = << >>
    /\ commits' = [commits EXCEPT ![run.session] = run.mode]
    /\ saved' = << >>
    /\ GoTo([stage |-> "alert", session |-> run.session])
    /\ outcome' = "committed"
    /\ UNCHANGED <<ledger, alerts>>

(* The digest is delivered after the transaction and the lock are over; a  *)
(* delivery that raises changes nothing.                                   *)
Alert ==
    /\ At("alert")
    /\ alerts' \in {alerts, [alerts EXCEPT ![run.session] = @ + 1]}
    /\ GoTo(Idle)
    /\ UNCHANGED <<ledger, saved, commits, outcome>>

CrashAutocommitted ==  \* mutant: every call commits by itself
    \/ InCycle /\ GoTo(Idle) /\ saved' = << >> /\ outcome' = "crashed"
              /\ UNCHANGED <<ledger, commits, alerts>>
    \/ /\ At("alert") /\ GoTo(Idle)
       /\ UNCHANGED <<ledger, saved, commits, alerts, outcome>>

(* The process dies: SQLite rolls an open transaction back, a digest not   *)
(* yet delivered is lost.                                                  *)
Crash ==
    \/ InCycle /\ Fail("crashed")
    \/ /\ At("alert") /\ GoTo(Idle)
       /\ UNCHANGED <<ledger, saved, commits, alerts, outcome>>

-----------------------------------------------------------------------------
(***************************************************************************)
(* Settlement: execute_order for every open order, in the order of the     *)
(* order identifiers, which are hashes: any order                          *)
(***************************************************************************)
Pending == {o \in DOMAIN orders : Open(o)}

DecisionFor(o) == decisions[proposals[orders[o].proposal].decision]

PriceOf(o)  == FillPrice(orders[o].side, Close(orders[o].symbol))
GrossOf(o)  == PriceOf(o) * orders[o].quantity
FeeOf(o)    == Fee(GrossOf(o))
TaxOf(o)    == Tax(orders[o].side, GrossOf(o))
SeenAt(o)   == CutOff(orders[o].symbol)

(* The checks execute_order makes before it appends the fill. *)
Executable(o) ==
    /\ SeenAt(o) > DecisionFor(o).cutoff /\ SeenAt(o) > DecisionFor(o).created_at
    /\ PriceOf(o) >= 1
    /\ orders[o].side = "BUY" => CashBalance(TheAccount) >= GrossOf(o) + FeeOf(o) + TaxOf(o)
    /\ orders[o].side = "SELL" => Position(TheAccount, orders[o].symbol) >= orders[o].quantity

Settled(o) ==
    Executable(o) /\ FillOutcome(o, o, PriceOf(o), FeeOf(o), TaxOf(o), SeenAt(o), SeenAt(o))
                       = "inserted"

SettleOrder(o) ==
    /\ run.mode = "fills" /\ Settled(o)
    /\ AppendFill(o, o, PriceOf(o), FeeOf(o), TaxOf(o), SeenAt(o), SeenAt(o))
    /\ GoTo([stage |-> "fill_nav", session |-> run.session, mode |-> run.mode,
             closes |-> run.closes, offsets |-> run.offsets, left |-> run.left, filled |-> o])
    /\ UNCHANGED <<saved, commits, alerts, outcome>>

SettleFails ==
    /\ At("settle") /\ run.mode = "fills"
    /\ \E o \in Pending : ~Settled(o)
    /\ Fail("settlement")

(* The snapshot of a fill marks its own symbol at the price observed and   *)
(* every other holding as the latest snapshot marked it.                   *)
LatestNav == CHOOSE n \in DOMAIN navs :
    \A m \in DOMAIN navs : navs[m].snapshot_at <= navs[n].snapshot_at
Held == {s \in Symbols : Position(TheAccount, s) # 0}
PriorMarks == IF DOMAIN navs = {} THEN << >> ELSE navs[LatestNav].marks

FillNav(o) ==
    [account |-> TheAccount, cash |-> CashBalance(TheAccount), snapshot_at |-> SeenAt(o),
     marks |-> [s \in Held |->
       IF s = orders[o].symbol
       THEN [quantity |-> Position(TheAccount, s), price |-> Close(s), observed_at |-> SeenAt(o)]
       ELSE [PriorMarks[s] EXCEPT !.quantity = Position(TheAccount, s)]]]

Marked(o) ==
    /\ Held \subseteq DOMAIN PriorMarks \cup {orders[o].symbol}
    /\ NavOutcome(o, FillNav(o)) = "inserted"

SnapshotFill ==
    /\ At("fill_nav") /\ Marked(run.filled)
    /\ AppendNavSnapshot(run.filled, FillNav(run.filled))
    /\ GoTo(Running("settle", run.left))
    /\ UNCHANGED <<saved, commits, alerts, outcome>>

SnapshotFillFails == At("fill_nav") /\ ~Marked(run.filled) /\ Fail("fill_nav")

-----------------------------------------------------------------------------
(***************************************************************************)
(* The cycle's own NAV snapshot                                            *)
(***************************************************************************)
CycleNavId == <<run.session, "cycle">>
CycleNav ==
    [account |-> TheAccount, cash |-> CashBalance(TheAccount), snapshot_at |-> Now,
     marks |-> [s \in Held |->
       [quantity |-> Position(TheAccount, s), price |-> Close(s), observed_at |-> CutOff(s)]]]

SettlementOver == run.mode = "fills" => Pending = {}

Marking ==
    /\ At("settle") /\ SettlementOver
    /\ NavOutcome(CycleNavId, CycleNav) = "inserted"
    /\ AppendNavSnapshot(CycleNavId, CycleNav)
    /\ GoTo(Running("decide", run.left))
    /\ UNCHANGED <<saved, commits, alerts, outcome>>

MarkingFails ==
    /\ At("settle") /\ SettlementOver
    /\ NavOutcome(CycleNavId, CycleNav) # "inserted"
    /\ Fail("mark")

MarkedValue(n) ==
    MapThenSumSet(LAMBDA s : n.marks[s].quantity * n.marks[s].price, DOMAIN n.marks)
NavValue(n) == n.cash + MarkedValue(n)

-----------------------------------------------------------------------------
(***************************************************************************)
(* The agent, through its gate: an answer that does not fit the real       *)
(* holdings becomes ABSTAIN                                                *)
(***************************************************************************)
Exposure(s) == Position(TheAccount, s) * Close(s) * 10000  \* times NAV
GateAllows(answer, s) ==
    LET nav == NavValue(navs[CycleNavId])  held == Position(TheAccount, s) > 0 IN
    /\ answer.target <= MaxPositionBps
    /\ \/ answer.action = "ENTER"  /\ answer.target * nav > Exposure(s)
       \/ answer.action = "REDUCE" /\ held /\ answer.target > 0
                                   /\ answer.target * nav < Exposure(s)
       \/ answer.action = "EXIT"   /\ held /\ answer.target = 0

Rest == Running("decide", Tail(run.left))

DecisionRow(action) ==
    [account |-> TheAccount, symbol |-> Sym, ksf |-> Id, cutoff |-> CutOff(Sym),
     action |-> action, created_at |-> Now]

Decide(answer) ==
    /\ At("decide") /\ run.left # << >>
    /\ LET action == IF GateAllows(answer, Sym) THEN answer.action ELSE "ABSTAIN" IN
       /\ AppendAgentDecision(Id, DecisionRow(action))
       /\ IF action = "ABSTAIN" THEN GoTo(Rest)
          ELSE GoTo([stage |-> "propose", session |-> run.session, mode |-> run.mode,
                     closes |-> run.closes, offsets |-> run.offsets, left |-> run.left,
                     target |-> answer.target])
    /\ UNCHANGED <<saved, commits, alerts, outcome>>

SideOf(action) == IF action = "ENTER" THEN "BUY" ELSE "SELL"

Propose ==
    /\ At("propose")
    /\ AppendOrderProposal(Id, Id, SideOf(decisions[Id].action), run.target, Id, Now)
    /\ GoTo(Running("review", run.left))
    /\ UNCHANGED <<saved, commits, alerts, outcome>>

-----------------------------------------------------------------------------
(***************************************************************************)
(* review_and_persist: the request is rebuilt from the ledger              *)
(***************************************************************************)
AcceptedReviews == {r \in DOMAIN reviews : reviews[r].verdict # "REJECT" /\ r # Id}
Ordered(r)      == r \in DOMAIN orders
SessionOfReview(r) == SessionOf(decisions[proposals[reviews[r].proposal].decision].created_at)

(* An approval is reserved until its order is terminal, at the price it    *)
(* was reviewed at; one that was never ordered is reserved for ever.       *)
ReservedNone == {}  \* mutant: approvals are not reserved
Reserved == {r \in AcceptedReviews : ~Ordered(r) \/ Open(r)}
ReservedFor(side) == {r \in Reserved : proposals[reviews[r].proposal].side = side}
ReservedShares(side, s) ==
    MapThenSumSet(LAMBDA r : IF proposals[reviews[r].proposal].symbol = s
                             THEN reviews[r].quantity ELSE 0, ReservedFor(side))
ReservedKrw == MapThenSumSet(LAMBDA r : reviews[r].quantity * reviews[r].price,
                             ReservedFor("BUY"))

(* Reservations are taken in no stated order, and a sale that finds too    *)
(* few shares raises: at the earliest before every purchase, at the latest *)
(* after all of them.                                                      *)
MayOversell(s) ==
    ReservedShares("SELL", s) > Position(TheAccount, s)
MustOversell(s) ==
    ReservedShares("SELL", s) > Position(TheAccount, s) + ReservedShares("BUY", s)

(* Every snapshot up to this session, the current one included, is audited *)
(* against the events.                                                     *)
Audited == {n \in DOMAIN navs : SessionOf(navs[n].snapshot_at) <= run.session}
HistoryMatches == \A n \in Audited : NavMatchesEvents(navs[n])
Earlier == {n \in Audited : SessionOf(navs[n].snapshot_at) < run.session}
SessionStart ==
    IF Earlier = {} THEN NavValue(navs[CycleNavId])
    ELSE NavValue(navs[CHOOSE n \in Earlier :
           \A m \in Earlier : navs[m].snapshot_at <= navs[n].snapshot_at])

PendingWithoutOrder == {r \in AcceptedReviews : ~Ordered(r) /\ SessionOfReview(r) = run.session}
OrdersToday ==
    Cardinality({o \in DOMAIN orders : SessionOf(orders[o].created_at) = run.session})
      + Cardinality(PendingWithoutOrder)
FillsToday == Cardinality({f \in DOMAIN fills : SessionOf(fills[f].filled_at) = run.session})

(* The session's proposals have one symbol each: none is a duplicate.      *)
RiskRequest ==
    LET nav == navs[CycleNavId] IN
    [action |-> decisions[Id].action, target |-> proposals[Id].target, price |-> Close(Sym),
     cash |-> nav.cash - ReservedKrw,
     holdings |-> Position(TheAccount, Sym) + ReservedShares("BUY", Sym)
                    - ReservedShares("SELL", Sym),
     position_value |-> MarkedValue(nav) + ReservedKrw,
     nav |-> NavValue(nav),
     high_water |-> Max({NavValue(navs[n]) : n \in Audited}), start_nav |-> SessionStart,
     orders |-> OrdersToday, fills |-> FillsToday,
     enabled |-> AccountEnabledAsOf(TheAccount, Now),
     killed |-> KillSwitchEngagedAsOf(TheAccount, Now),
     duplicate |-> FALSE, stale |-> FALSE]

Reviewable ==
    /\ HistoryMatches
    /\ \A s \in Symbols : ~MustOversell(s)
    /\ \E request \in {RiskRequest} : RequestValid(request)

ReviewRow(result) ==
    [proposal |-> Id, verdict |-> result.verdict, quantity |-> result.quantity,
     price |-> IF Accepted(result) THEN Close(Sym) ELSE 0, reviewed_at |-> Now]

OrdersWanted(result) == run.mode = "fills" /\ Accepted(result)

(* The request is evaluated once (a LET would be expanded at every use).   *)
ReviewProposal ==
    /\ At("review") /\ Reviewable
    /\ \E request \in {RiskRequest} : \E result \in {EvaluateRisk(request)} :
         IF result.verdict = "NO_OP"
         THEN GoTo(Rest) /\ UNCHANGED ledger
         ELSE /\ AppendRiskReview(Id, ReviewRow(result))
              /\ IF OrdersWanted(result) THEN GoTo(Running("order", run.left)) ELSE GoTo(Rest)
    /\ UNCHANGED <<saved, commits, alerts, outcome>>

ReviewFails ==
    /\ At("review")
    /\ \/ ~HistoryMatches /\ Fail("history")
       \/ HistoryMatches /\ (\E s \in Symbols : MayOversell(s)) /\ Fail("oversold")
       \/ HistoryMatches /\ (\A s \in Symbols : ~MustOversell(s))
            /\ ~RequestValid(RiskRequest) /\ Fail("request")

PlaceOrder ==
    /\ At("order")
    /\ AppendOrder(Id, Id, Id, Now)
    /\ GoTo(Rest)
    /\ UNCHANGED <<saved, commits, alerts, outcome>>

-----------------------------------------------------------------------------
(***************************************************************************)
(* An operator flips the switches between cycles, with any time that is    *)
(* not before the last event.                                              *)
(***************************************************************************)
Operator ==
    /\ ~InCycle
    /\ \E id \in EventIds, at \in EventTimes :
         \/ \E type \in {"ENGAGED", "RELEASED"} :
              AppendKillSwitchEvent(id, TheAccount, type, at)
         \/ \E type \in {"ENABLED", "DISABLED"} :
              AppendAccountEvent(id, TheAccount, type, at)
    /\ UNCHANGED cycle

Settle ==
    \/ At("settle") /\ \E o \in Pending : SettleOrder(o)
    \/ SnapshotFill
SettlementFails == SettleFails \/ SnapshotFillFails

(* The steps of the process once it has begun.                             *)
Step ==
    \/ Settle \/ SettlementFails
    \/ Marking \/ MarkingFails
    \/ \E answer \in Answers : Decide(answer)
    \/ Propose \/ ReviewProposal \/ ReviewFails \/ PlaceOrder
    \/ Commit \/ Alert

Start ==
    \E s \in Sessions :
        \/ \E mode \in Modes, closes \in [Symbols -> Closes], offsets \in Offsets :
             Begin(s, mode, closes, offsets)
        \/ Rerun(s)
        \/ Refuse(s)

CycleNext == Start \/ Step \/ Crash \/ Operator

CycleSpec == CycleInit /\ [][CycleNext]_vars

-----------------------------------------------------------------------------
(***************************************************************************)
(* Properties                                                              *)
(***************************************************************************)
(* A cycle is all or nothing.  Between cycles a session without a commit   *)
(* row has left nothing behind; one with a commit row has its snapshot,    *)
(* one decision per symbol, an accepted review's order exactly when it ran *)
(* in fills mode; and no fill is without its snapshot.                     *)
OfSession(ids, s) == {id \in ids : id[1] = s}
LeftNothing(s) ==
    /\ \A ids \in {DOMAIN decisions, DOMAIN proposals, DOMAIN reviews, DOMAIN orders} :
         OfSession(ids, s) = {}
    /\ \A n \in DOMAIN navs : SessionOf(navs[n].snapshot_at) # s
    /\ \A f \in DOMAIN fills : SessionOf(fills[f].filled_at) # s
LeftAll(s) ==
    /\ <<s, "cycle">> \in DOMAIN navs
    /\ OfSession(DOMAIN decisions, s) = {s} \X Symbols
    /\ \A r \in OfSession(DOMAIN reviews, s) :
         (r \in DOMAIN orders) <=> (commits[s] = "fills" /\ reviews[r].verdict # "REJECT")
AllOrNothing ==
    ~InCycle =>
        /\ \A s \in Sessions : IF commits[s] = "none" THEN LeftNothing(s) ELSE LeftAll(s)
        /\ DOMAIN fills \subseteq DOMAIN navs

(* The approvals of one session, reviewed one after the other in either    *)
(* mode, do not together spend more than the cash, exceed the aggregate    *)
(* cap or outnumber the orders of a day.                                   *)
ApprovedIn(s) == {r \in OfSession(DOMAIN reviews, s) : reviews[r].verdict # "REJECT"}
BoughtIn(s)   == {r \in ApprovedIn(s) : proposals[r].side = "BUY"}
Spend(s) == MapThenSumSet(LAMBDA r : reviews[r].quantity * reviews[r].price, BoughtIn(s))
WithinBook(s) ==
    LET nav == navs[<<s, "cycle">>] IN
    /\ Spend(s) <= nav.cash
    /\ (MarkedValue(nav) + Spend(s)) * 10000 <= NavValue(nav) * MaxAggregateBps
SessionWithinLimits ==
    ~InCycle => \A s \in Sessions :
        /\ Cardinality(ApprovedIn(s)) <= DailyOrderCap
        /\ BoughtIn(s) # {} => WithinBook(s)

(* Nothing is committed while the account is disabled or the kill switch   *)
(* is engaged as the ledger last recorded them, at whatever time.          *)
LastType(log) == log[Len(log)].type
CommitsAuthorised ==
    [][commits' # commits =>
         /\ LastType(accountEvents[TheAccount]) = "ENABLED"
         /\ LastType(killEvents[TheAccount]) = "RELEASED"]_vars

(* A session's digest is delivered only after its commit, and at most      *)
(* once, however often the session is run again.                           *)
DigestOnce == \A s \in Sessions : alerts[s] <= (IF commits[s] = "none" THEN 0 ELSE 1)

(* A session is one step of the account (PaperBook).  The book that other  *)
(* connections read is the one of BEGIN IMMEDIATE until the commit: every  *)
(* step inside a cycle, every failure and every crash leaves it as it was, *)
(* and the commit settles each queued order exactly once.                  *)
Read(table, current) == IF InCycle THEN saved[table] ELSE current
Latest(balance) == balance[MaxTime]
QueueOf(theOrders, theEvents) ==
    {[session |-> SessionOf(theOrders[o].created_at), symbol |-> theOrders[o].symbol,
      side |-> theOrders[o].side, quantity |-> theOrders[o].quantity] :
        o \in {id \in DOMAIN theOrders : theEvents[id][Len(theEvents[id])].type = "ACCEPTED"}}
Book == INSTANCE PaperBook WITH
    sessions <- commits,
    cash     <- Latest(Read("cash", cashAsOf)[TheAccount]),
    holdings <- [s \in Symbols |-> Latest(Read("position", positionAsOf)[TheAccount][s])],
    queue    <- QueueOf(Read("orders", orders), Read("orderEvents", orderEvents))
SessionsAreAtomic == Book!Spec

-----------------------------------------------------------------------------
(***************************************************************************)
(* What the code asserts of its own ledger and does not hold               *)
(***************************************************************************)
(* review_and_persist refuses a ledger in which some NAV snapshot differs  *)
(* from the events as of its instant.                                      *)
SnapshotsMatchEvents == ~InCycle => \A n \in DOMAIN navs : NavMatchesEvents(navs[n])

(* review_and_persist refuses a ledger whose accepted sales exceed the     *)
(* shares held.                                                            *)
AcceptedSalesHeld ==
    ~InCycle => \A o \in DOMAIN orders :
        (Open(o) /\ orders[o].side = "SELL") =>
            orders[o].quantity <= Position(TheAccount, orders[o].symbol)
=============================================================================

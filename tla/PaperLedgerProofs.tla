------------------------- MODULE PaperLedgerProofs -------------------------
(***************************************************************************)
(* What PaperLedger promises for any accounts, identifiers, instants and   *)
(* amounts.                                                                *)
(***************************************************************************)
EXTENDS PaperLedger, SumProofs, TLAPS

(* A call inserts only what its checks and constraints admit, under an     *)
(* identifier that is new.                                                 *)
LEMMA SubmitInserted ==
    ASSUME NEW arguments, NEW table, NEW id, NEW row, NEW constraints,
           Submit(arguments, table, id, row, constraints) = "inserted"
    PROVE  arguments /\ id \notin DOMAIN table /\ constraints
BY DEF Submit

LEMMA LogEventInserted ==
    ASSUME NEW logs, NEW owner, NEW event, NEW constraints,
           LogEvent(logs, owner, event, constraints) = "inserted"
    PROVE  constraints
BY DEF LogEvent

(* Inserting a row keeps the type of the table. *)
LEMMA PutRow ==
    ASSUME NEW table, NEW Ids, NEW Rows, IsTable(table, Ids, Rows),
           NEW id \in Ids, NEW row \in Rows
    PROVE  IsTable(Put(table, id, row), Ids, Rows)
BY DEF IsTable, Put

LEMMA AccrueType ==
    ASSUME NEW balance \in [Times -> Int], NEW at \in Times, NEW amount \in Int
    PROVE  Accrue(balance, at, amount) \in [Times -> Int]
BY DEF Accrue

LEMMA AccruedAt ==
    ASSUME NEW balance \in [Times -> Int], NEW at \in Times, NEW amount \in Int, NEW t \in Times
    PROVE  Accrue(balance, at, amount)[t] =
             IF at <= t THEN balance[t] + amount ELSE balance[t]
BY TimeAssumption DEF Accrue, Times

-----------------------------------------------------------------------------
(* The amounts a caller passes are integers. *)
LEMMA Amounts ==
    /\ \A x \in Deposits : x \in Nat /\ x > 0
    /\ \A x \in TargetBps : x \in Nat
    /\ \A x \in Quantities : x \in Nat /\ x > 0
    /\ \A x \in Prices : x \in Nat /\ x > 0
    /\ \A x \in Charges : x \in Nat
<1>1. \A x \in Deposits : x \in Nat /\ x > 0  BY SMTT(40), ValueAssumption
<1>2. \A x \in TargetBps : x \in Nat          BY SMTT(40), ValueAssumption
<1>3. \A x \in Quantities : x \in Nat /\ x > 0  BY SMTT(40), ValueAssumption
<1>4. \A x \in Prices : x \in Nat /\ x > 0  BY SMTT(40), ValueAssumption
<1>5. \A x \in Charges : x \in Nat            BY SMTT(40), ValueAssumption
<1> QED BY <1>1, <1>2, <1>3, <1>4, <1>5

LEMMA EntryType ==
    ASSUME NEW id \in EventIds \cup {"emitted"}, NEW at \in Times,
           NEW type \in {"CREATED", "ENABLED", "DISABLED", "ENGAGED", "RELEASED",
                         "ACCEPTED", "FILLED", "CANCELLED", "EXPIRED"}
    PROVE  Entry(id, type, at) \in Event
BY DEF Entry, Event

LEMMA InitTypeOK == Init => TypeOK
BY DEF Init, TypeOK, IsTable

LEMMA CreateAccountType ==
    ASSUME TypeOK, NEW a \in Accounts, NEW cash, NEW at \in Times, CreateAccount(a, cash, at)
    PROVE  TypeOK'
<1>0. cash \in Nat \ {0}
  BY DEF CreateAccount, AccountOutcome, Submit
<1>1. IsTable(accounts', Accounts, Account)
  <2>1. [initial_cash |-> cash, created_at |-> at] \in Account
    BY <1>0 DEF Account
  <2> QED BY <2>1, PutRow DEF TypeOK, CreateAccount
<1>2. accountEvents' \in [Accounts -> Seq(Event)]
  <2>1. Entry("emitted", "CREATED", at) \in Event
    BY EntryType
  <2> QED BY <2>1 DEF TypeOK, CreateAccount
<1>3. cashAsOf' \in [Accounts -> [Times -> Int]]
  <2>1. Accrue(cashAsOf[a], at, cash) \in [Times -> Int]
    <3>1. cash \in Int /\ cashAsOf[a] \in [Times -> Int]
      BY <1>0 DEF TypeOK
    <3> QED BY <3>1, AccrueType
  <2> QED BY <2>1 DEF TypeOK, CreateAccount
<1> QED
  BY <1>1, <1>2, <1>3 DEF TypeOK, CreateAccount, chain, IsTable

LEMMA EventTypes ==
    ASSUME TypeOK, NEW id \in EventIds, NEW at \in Times, NEW type,
           \/ \E a \in Accounts : AppendAccountEvent(id, a, type, at)
           \/ \E a \in Accounts : AppendKillSwitchEvent(id, a, type, at)
           \/ \E o \in OrderIds : AppendOrderEvent(id, o, type, at)
    PROVE  TypeOK'
<1>1. Entry(id, type, at) \in Event
  BY EntryType DEF AppendAccountEvent, AppendKillSwitchEvent, AppendOrderEvent
<1>2. CASE \E a \in Accounts : AppendAccountEvent(id, a, type, at)
  <2>1. accountEvents' \in [Accounts -> Seq(Event)]
    BY <1>1, <1>2 DEF TypeOK, AppendAccountEvent
  <2> QED BY <1>2, <2>1 DEF TypeOK, AppendAccountEvent, chain, balances, IsTable
<1>3. CASE \E a \in Accounts : AppendKillSwitchEvent(id, a, type, at)
  <2>1. killEvents' \in [Accounts -> Seq(Event)]
    BY <1>1, <1>3 DEF TypeOK, AppendKillSwitchEvent
  <2> QED BY <1>3, <2>1 DEF TypeOK, AppendKillSwitchEvent, chain, balances, IsTable
<1>4. CASE \E o \in OrderIds : AppendOrderEvent(id, o, type, at)
  <2>1. orderEvents' \in [OrderIds -> Seq(Event)]
    BY <1>1, <1>4 DEF TypeOK, AppendOrderEvent
  <2> QED BY <1>4, <2>1 DEF TypeOK, AppendOrderEvent, chain, balances, IsTable
<1> QED BY <1>2, <1>3, <1>4

LEMMA DecisionType ==
    ASSUME TypeOK, NEW d \in DecisionIds, NEW row \in Decision, AppendAgentDecision(d, row)
    PROVE  TypeOK'
<1>1. IsTable(decisions', DecisionIds, Decision)
  BY PutRow DEF TypeOK, AppendAgentDecision
<1> QED BY <1>1 DEF TypeOK, AppendAgentDecision, balances, IsTable

LEMMA ProposalType ==
    ASSUME TypeOK, NEW p \in ProposalIds, NEW d \in DecisionIds, NEW side \in Sides,
           NEW target, NEW key \in Keys, NEW at \in Times,
           AppendOrderProposal(p, d, side, target, key, at)
    PROVE  TypeOK'
<1>1. target \in Nat /\ d \in DOMAIN decisions
  BY SubmitInserted DEF AppendOrderProposal, ProposalOutcome
<1>2. ProposalRow(d, side, target, key, at) \in Proposal
  <2>1. decisions[d] \in Decision /\ d \in DecisionIds
    BY <1>1 DEF TypeOK, IsTable
  <2> QED BY <1>1, <2>1 DEF ProposalRow, Proposal, Decision
<1>3. IsTable(proposals', ProposalIds, Proposal)
  BY <1>2, PutRow DEF TypeOK, AppendOrderProposal
<1> QED BY <1>3 DEF TypeOK, AppendOrderProposal, balances, IsTable

LEMMA ReviewType ==
    ASSUME TypeOK, NEW r \in ReviewIds, NEW row \in Review, AppendRiskReview(r, row)
    PROVE  TypeOK'
<1>1. IsTable(reviews', ReviewIds, Review)
  BY PutRow DEF TypeOK, AppendRiskReview
<1> QED BY <1>1 DEF TypeOK, AppendRiskReview, balances, IsTable

LEMMA OrderType ==
    ASSUME TypeOK, AuthorityChain, NEW o \in OrderIds, NEW r \in ReviewIds,
           NEW key \in Keys, NEW at \in Times, AppendOrder(o, r, key, at)
    PROVE  TypeOK'
<1>1. r \in DOMAIN reviews
  BY SubmitInserted DEF AppendOrder, OrderOutcome
<1>2. reviews[r] \in Review /\ reviews[r].proposal \in DOMAIN proposals
  BY <1>1 DEF TypeOK, IsTable, AuthorityChain, ReviewsSound
<1>3. proposals[reviews[r].proposal] \in Proposal
  BY <1>2 DEF TypeOK, IsTable
<1>4. OrderRow(r, key, at) \in Order
  BY <1>1, <1>2, <1>3 DEF OrderRow, Order, Review, Proposal
<1>5. IsTable(orders', OrderIds, Order)
  BY <1>4, PutRow DEF TypeOK, AppendOrder
<1>6. orderEvents' \in [OrderIds -> Seq(Event)]
  <2>1. Entry("emitted", "ACCEPTED", at) \in Event
    BY EntryType
  <2> QED BY <2>1 DEF TypeOK, AppendOrder
<1> QED BY <1>5, <1>6 DEF TypeOK, AppendOrder, balances, IsTable

(* The amounts a fill moves. *)
LEMMA DeltasType ==
    ASSUME NEW row \in Fill
    PROVE  CashDelta(row) \in Int /\ PositionDelta(row) \in Int
<1>1. /\ row.price \in Int /\ row.quantity \in Int /\ row.fee \in Int /\ row.tax \in Int
  BY DEF Fill
<1>2. Gross(row) \in Int
  BY <1>1 DEF Gross
<1> QED BY <1>1, <1>2 DEF CashDelta, PositionDelta

(* The row a fill inserts and the amounts it moves. *)
LEMMA FillRowType ==
    ASSUME TypeOK, NEW o \in DOMAIN orders, NEW price \in Nat, NEW fee \in Nat, NEW tax \in Nat,
           NEW observed_at \in Times, NEW filled_at \in Times
    PROVE  LET row == FillRow(o, price, fee, tax, observed_at, filled_at) IN
           row \in Fill /\ CashDelta(row) \in Int /\ PositionDelta(row) \in Int
<1>1. orders[o] \in Order /\ o \in OrderIds
  BY DEF TypeOK, IsTable
<1>2. FillRow(o, price, fee, tax, observed_at, filled_at) \in Fill
  BY <1>1 DEF FillRow, Fill, Order
<1> QED BY <1>2, DeltasType

LEMMA FillType ==
    ASSUME TypeOK, NEW i \in FillIds, NEW o \in OrderIds, NEW price, NEW fee, NEW tax,
           NEW observed_at \in Times, NEW filled_at \in Times,
           AppendFill(i, o, price, fee, tax, observed_at, filled_at)
    PROVE  TypeOK'
<1> DEFINE row == FillRow(o, price, fee, tax, observed_at, filled_at)
<1>1. price \in Nat /\ fee \in Nat /\ tax \in Nat /\ o \in DOMAIN orders
  BY SubmitInserted DEF AppendFill, FillOutcome
<1>2. row \in Fill /\ CashDelta(row) \in Int /\ PositionDelta(row) \in Int
  BY <1>1, FillRowType
<1>3. row.account \in Accounts /\ row.symbol \in Symbols
  BY <1>2 DEF Fill
<1> HIDE DEF row
<1>4. IsTable(fills', FillIds, Fill)
  BY <1>2, PutRow DEF TypeOK, AppendFill, row
<1>5. cashAsOf' \in [Accounts -> [Times -> Int]]
  <2>1. cashAsOf' = [cashAsOf EXCEPT ![row.account] =
                       Accrue(cashAsOf[row.account], filled_at, CashDelta(row))]
    BY DEF AppendFill, row
  <2> QED BY <2>1, <1>2, <1>3, AccrueType DEF TypeOK
<1>6. positionAsOf' \in [Accounts -> [Symbols -> [Times -> Int]]]
  <2>1. positionAsOf' = [positionAsOf EXCEPT ![row.account][row.symbol] =
          Accrue(positionAsOf[row.account][row.symbol], filled_at, PositionDelta(row))]
    BY DEF AppendFill, row
  <2>2. Accrue(positionAsOf[row.account][row.symbol], filled_at, PositionDelta(row))
          \in [Times -> Int]
    BY ZenonT(40), <1>2, <1>3, AccrueType DEF TypeOK
  <2> QED BY <2>1, <2>2, <1>3 DEF TypeOK
<1>7. orderEvents' \in [OrderIds -> Seq(Event)]
  <2>1. Entry("emitted", "FILLED", filled_at) \in Event
    BY EntryType
  <2> QED BY <2>1 DEF TypeOK, AppendFill
<1> QED BY <1>4, <1>5, <1>6, <1>7 DEF TypeOK, AppendFill, chain, IsTable

(* A snapshot that names holdings of the account and instants of the model. *)
LEMMA NavType ==
    ASSUME TypeOK, NEW n \in NavIds, NEW nav, AppendNavSnapshot(n, nav),
           nav.account \in Accounts, nav.snapshot_at \in Times,
           nav.marks \in [DOMAIN nav.marks -> Mark]
    PROVE  TypeOK'
<1>1. /\ nav.cash \in Nat
      /\ DOMAIN nav.marks = HeldAsOf(nav.account, nav.snapshot_at)
  BY SubmitInserted DEF AppendNavSnapshot, NavOutcome, NavMatchesEvents
<1>2. IsTable(nav.marks, Symbols, Mark)
  BY <1>1 DEF HeldAsOf, IsTable
<1>3. navs' = Put(navs, n, nav)
  BY DEF AppendNavSnapshot
<1>4. /\ DOMAIN navs' \subseteq NavIds
      /\ \A m \in DOMAIN navs' : navs'[m] = nav \/ (m \in DOMAIN navs /\ navs'[m] = navs[m])
  <2>1. DOMAIN navs' = DOMAIN navs \cup {n} /\ navs'[n] = nav
    BY <1>3 DEF Put
  <2>2. \A m \in DOMAIN navs : m # n => navs'[m] = navs[m]
    BY <1>3 DEF Put
  <2>3. DOMAIN navs \subseteq NavIds
    BY DEF TypeOK
  <2> QED BY <2>1, <2>2, <2>3
<1>5. \A m \in DOMAIN navs' :
        /\ navs'[m].account \in Accounts /\ navs'[m].cash \in Nat
        /\ navs'[m].snapshot_at \in Times /\ IsTable(navs'[m].marks, Symbols, Mark)
  BY <1>1, <1>2, <1>4 DEF TypeOK
<1> QED BY <1>4, <1>5 DEF TypeOK, AppendNavSnapshot, chain, balances, IsTable

(* The same for the snapshots the callers try. *)
LEMMA CandidateNavType ==
    ASSUME TypeOK, NEW n \in NavIds, NEW a \in Accounts, NEW t \in Times,
           NEW nav \in CandidateNavs(a, t), AppendNavSnapshot(n, nav)
    PROVE  TypeOK'
<1>1. PICK price \in Prices, at \in 0 .. t :
        nav = [account |-> a, cash |-> cashAsOf[a][t], snapshot_at |-> t,
               marks |-> [s \in HeldAsOf(a, t) |->
                 [quantity |-> positionAsOf[a][s][t], price |-> price, observed_at |-> at]]]
  BY DEF CandidateNavs
<1>2. \A s \in DOMAIN nav.marks : nav.marks[s].quantity \in Nat
  BY SubmitInserted DEF AppendNavSnapshot, NavOutcome
<1>3. price \in Nat /\ at \in Times
  BY Amounts, TimeAssumption, t \in 0 .. MaxTime, at \in 0 .. t DEF Times
<1>4. ASSUME NEW s \in HeldAsOf(a, t)
      PROVE  [quantity |-> positionAsOf[a][s][t], price |-> price, observed_at |-> at] \in Mark
  <2>1. positionAsOf[a][s][t] \in Nat
    BY <1>1, <1>2
  <2> QED BY <1>3, <2>1 DEF Mark
<1> QED BY <1>1, <1>4, NavType

-----------------------------------------------------------------------------
(***************************************************************************)
(* The authority chain is inductive: each insertion is checked against its *)
(* parent, and parents never change.                                       *)
(***************************************************************************)
LEMMA InitChain == Init => AuthorityChain
BY DEF Init, AuthorityChain, DecisionsSound, ProposalsSound, ReviewsSound, OrdersSound,
       FillsSound

LEMMA DecisionChain ==
    ASSUME AuthorityChain, NEW d, NEW row, AppendAgentDecision(d, row)
    PROVE  AuthorityChain'
<1>1. /\ row.cutoff <= row.created_at /\ d \notin DOMAIN decisions
      /\ \A e \in DOMAIN decisions :
           <<decisions[e].account, decisions[e].ksf>> # <<row.account, row.ksf>>
  BY SubmitInserted DEF AppendAgentDecision, DecisionOutcome
<1>2. /\ DOMAIN decisions' = DOMAIN decisions \cup {d} /\ decisions'[d] = row
      /\ \A e \in DOMAIN decisions : decisions'[e] = decisions[e]
  BY <1>1 DEF AppendAgentDecision, Put
<1>3. DecisionsSound'
  BY <1>1, <1>2 DEF AuthorityChain, DecisionsSound
<1>4. ProposalsSound'
  BY <1>2 DEF AuthorityChain, ProposalsSound, AppendAgentDecision
<1> QED
  BY <1>3, <1>4 DEF AuthorityChain, ReviewsSound, OrdersSound, FillsSound, AppendAgentDecision

LEMMA ProposalChain ==
    ASSUME AuthorityChain, NEW p, NEW d, NEW side, NEW target, NEW key, NEW at,
           AppendOrderProposal(p, d, side, target, key, at)
    PROVE  AuthorityChain'
<1> DEFINE row == ProposalRow(d, side, target, key, at)
<1>1. /\ d \in DOMAIN decisions /\ Authorises(decisions[d].action, side, target)
      /\ p \notin DOMAIN proposals
      /\ \A q \in DOMAIN proposals : proposals[q].decision # d
      /\ decisions[d].created_at <= at
  BY SubmitInserted DEF AppendOrderProposal, ProposalOutcome
<1>2. /\ DOMAIN proposals' = DOMAIN proposals \cup {p} /\ proposals'[p] = row
      /\ \A q \in DOMAIN proposals : proposals'[q] = proposals[q]
  BY <1>1 DEF AppendOrderProposal, Put
<1>3. /\ row.decision = d /\ row.account = decisions[d].account
      /\ row.symbol = decisions[d].symbol /\ row.side = side /\ row.target = target
      /\ row.proposed_at = at
  BY DEF ProposalRow
<1>4. decisions' = decisions /\ reviews' = reviews /\ orders' = orders /\ fills' = fills
  BY DEF AppendOrderProposal
<1> HIDE DEF row
<1>5. ProposalsSound'
  BY <1>1, <1>2, <1>3, <1>4 DEF AuthorityChain, ProposalsSound
<1>6. ReviewsSound' /\ OrdersSound'
  BY <1>2, <1>4 DEF AuthorityChain, ReviewsSound, OrdersSound
<1> QED BY <1>4, <1>5, <1>6 DEF AuthorityChain, DecisionsSound, FillsSound

LEMMA ReviewChain ==
    ASSUME AuthorityChain, NEW r, NEW row, AppendRiskReview(r, row)
    PROVE  AuthorityChain'
<1>1. /\ row.verdict # "REJECT" => row.quantity \in Nat \ {0}
      /\ r \notin DOMAIN reviews /\ row.proposal \in DOMAIN proposals
      /\ \A q \in DOMAIN reviews : reviews[q].proposal # row.proposal
      /\ proposals[row.proposal].proposed_at <= row.reviewed_at
  BY SubmitInserted DEF AppendRiskReview, ReviewOutcome
<1>3. /\ DOMAIN reviews' = DOMAIN reviews \cup {r} /\ reviews'[r] = row
      /\ \A q \in DOMAIN reviews : reviews'[q] = reviews[q]
  BY <1>1 DEF AppendRiskReview, Put
<1>4. decisions' = decisions /\ proposals' = proposals /\ orders' = orders /\ fills' = fills
  BY DEF AppendRiskReview
<1>5. ReviewsSound'
  BY <1>1, <1>3, <1>4 DEF AuthorityChain, ReviewsSound
<1>6. OrdersSound'
  BY <1>3, <1>4 DEF AuthorityChain, OrdersSound
<1> QED BY <1>4, <1>5, <1>6 DEF AuthorityChain, DecisionsSound, ProposalsSound, FillsSound

LEMMA OrderChain ==
    ASSUME AuthorityChain, NEW o, NEW r, NEW key, NEW at, AppendOrder(o, r, key, at)
    PROVE  AuthorityChain'
<1> DEFINE row == OrderRow(r, key, at)
           p   == reviews[r].proposal
<1>1. /\ r \in DOMAIN reviews /\ reviews[r].verdict # "REJECT" /\ o \notin DOMAIN orders
      /\ \A q \in DOMAIN orders : orders[q].proposal # p
      /\ reviews[r].reviewed_at <= at
  BY SubmitInserted DEF AppendOrder, OrderOutcome
<1>2. /\ DOMAIN orders' = DOMAIN orders \cup {o} /\ orders'[o] = row
      /\ \A q \in DOMAIN orders : orders'[q] = orders[q]
  BY <1>1 DEF AppendOrder, Put
<1>3. /\ row.review = r /\ row.proposal = p /\ row.quantity = reviews[r].quantity
      /\ row.account = proposals[p].account /\ row.symbol = proposals[p].symbol
      /\ row.side = proposals[p].side /\ row.created_at = at
  BY DEF OrderRow
<1>4. /\ decisions' = decisions /\ proposals' = proposals
      /\ reviews' = reviews /\ fills' = fills
  BY DEF AppendOrder
<1> HIDE DEF row
<1>5. OrdersSound'
  BY <1>1, <1>2, <1>3, <1>4 DEF AuthorityChain, OrdersSound
<1>6. FillsSound'
  BY <1>2, <1>4 DEF AuthorityChain, FillsSound
<1> QED BY <1>4, <1>5, <1>6 DEF AuthorityChain, DecisionsSound, ProposalsSound, ReviewsSound

LEMMA FillChain ==
    ASSUME AuthorityChain, NEW i, NEW o, NEW price, NEW fee, NEW tax, NEW observed_at,
           NEW filled_at, AppendFill(i, o, price, fee, tax, observed_at, filled_at)
    PROVE  AuthorityChain'
<1> DEFINE row == FillRow(o, price, fee, tax, observed_at, filled_at)
<1>1. /\ o \in DOMAIN orders /\ i \notin DOMAIN fills /\ FillCausal(row)
      /\ \A g \in DOMAIN fills : fills[g].order # o
  BY SubmitInserted DEF AppendFill, FillOutcome
<1>2. /\ DOMAIN fills' = DOMAIN fills \cup {i} /\ fills'[i] = row
      /\ \A g \in DOMAIN fills : fills'[g] = fills[g]
  BY <1>1 DEF AppendFill, Put
<1>3. /\ row.order = o /\ row.account = orders[o].account /\ row.symbol = orders[o].symbol
      /\ row.side = orders[o].side /\ row.quantity = orders[o].quantity
      /\ orders[o].created_at < row.observed_at /\ row.observed_at <= row.filled_at
  BY <1>1 DEF FillRow, FillCausal
<1>4. /\ decisions' = decisions /\ proposals' = proposals
      /\ reviews' = reviews /\ orders' = orders
  BY DEF AppendFill, chain
<1> HIDE DEF row
<1>5. FillsSound'
  BY <1>1, <1>2, <1>3, <1>4 DEF AuthorityChain, FillsSound
<1> QED BY <1>4, <1>5 DEF AuthorityChain, DecisionsSound, ProposalsSound, ReviewsSound, OrdersSound

-----------------------------------------------------------------------------
(***************************************************************************)
(* Long-only: only a deposit and a fill move a balance.                    *)
(***************************************************************************)
LEMMA AccrueTotal ==
    ASSUME NEW balance \in [Times -> Int], NEW at \in Times, NEW amount \in Int
    PROVE  Accrue(balance, at, amount)[MaxTime] = balance[MaxTime] + amount
<1>1. MaxTime \in Times /\ ~(MaxTime < at)
  BY TimeAssumption DEF Times
<1> QED BY <1>1 DEF Accrue

LEMMA InitLongOnly == Init => LongOnly
<1>1. MaxTime \in Times
  BY TimeAssumption DEF Times
<1> QED BY <1>1 DEF Init, LongOnly, CashBalance, Position

LEMMA DepositLongOnly ==
    ASSUME TypeOK, LongOnly, NEW a \in Accounts, NEW cash \in Deposits, NEW at \in Times,
           CreateAccount(a, cash, at)
    PROVE  LongOnly'
<1>1. cash \in Int /\ cash > 0 /\ cashAsOf[a] \in [Times -> Int]
  BY Amounts DEF TypeOK
<1>2. Accrue(cashAsOf[a], at, cash)[MaxTime] = CashBalance(a) + cash
  BY <1>1, AccrueTotal DEF CashBalance
<1>3. CashBalance(a) \in Int
  BY <1>1, TimeAssumption DEF CashBalance, Times
<1>4. cashAsOf' = [cashAsOf EXCEPT ![a] = Accrue(cashAsOf[a], at, cash)]
      /\ positionAsOf' = positionAsOf
  BY DEF CreateAccount
<1>5. \A b \in Accounts : CashBalance(b)' >= 0
  <2>1. CashBalance(a)' = CashBalance(a) + cash
    BY <1>2, <1>4 DEF TypeOK, CashBalance
  <2>2. \A b \in Accounts : b # a => CashBalance(b)' = CashBalance(b)
    BY <1>4 DEF TypeOK, CashBalance
  <2> QED BY <2>1, <2>2, <1>1, <1>3 DEF LongOnly
<1> QED BY <1>4, <1>5 DEF LongOnly, Position

(* A BUY is funded and a SELL brings in more than it costs. *)
LEMMA FillLongOnly ==
    ASSUME TypeOK, AuthorityChain, LongOnly, NEW i \in FillIds, NEW o \in OrderIds,
           NEW price, NEW fee, NEW tax, NEW observed_at \in Times, NEW filled_at \in Times,
           AppendFill(i, o, price, fee, tax, observed_at, filled_at),
           orders[o].side = "SELL" => fee + tax <= price * orders[o].quantity
    PROVE  LongOnly'
<1>0. price \in Nat /\ fee \in Nat /\ tax \in Nat /\ o \in DOMAIN orders
  BY SubmitInserted DEF AppendFill, FillOutcome
<1>2. PICK row \in Fill : /\ row = FillRow(o, price, fee, tax, observed_at, filled_at)
                          /\ CashDelta(row) \in Int /\ PositionDelta(row) \in Int
  BY <1>0, FillRowType
<1> DEFINE a == row.account
           s == row.symbol
<1>1. BuyFunded(row) /\ SellHeld(row)
  BY <1>2, SubmitInserted DEF AppendFill, FillOutcome
<1>3. /\ row.price = price /\ row.fee = fee /\ row.tax = tax
      /\ row.quantity = orders[o].quantity /\ row.side = orders[o].side
      /\ row.quantity \in Nat \ {0}
  <2>1. row.quantity = orders[o].quantity
    BY <1>2 DEF FillRow
  <2>2. orders[o].quantity \in Nat \ {0}
    BY <1>0 DEF AuthorityChain, OrdersSound, ReviewsSound
  <2> QED BY <1>2, <2>1, <2>2 DEF FillRow
<1>4. /\ cashAsOf' = [cashAsOf EXCEPT ![a] = Accrue(cashAsOf[a], filled_at, CashDelta(row))]
      /\ positionAsOf' = [positionAsOf EXCEPT ![a][s] =
           Accrue(positionAsOf[a][s], filled_at, PositionDelta(row))]
  BY <1>2 DEF AppendFill
<1>5. a \in Accounts /\ s \in Symbols /\ row.side \in Sides
  BY <1>2 DEF Fill
<1>6. cashAsOf[a] \in [Times -> Int] /\ positionAsOf[a][s] \in [Times -> Int]
  BY <1>5 DEF TypeOK
<1>7. CashBalance(a) \in Int /\ Position(a, s) \in Int
  <2>1. MaxTime \in Times
    BY TimeAssumption DEF Times
  <2> QED BY <1>6, <2>1 DEF CashBalance, Position
<1>8. /\ Accrue(cashAsOf[a], filled_at, CashDelta(row))[MaxTime] = CashBalance(a) + CashDelta(row)
      /\ Accrue(positionAsOf[a][s], filled_at, PositionDelta(row))[MaxTime]
           = Position(a, s) + PositionDelta(row)
  BY ZenonT(40), <1>2, <1>6, AccrueTotal DEF CashBalance, Position
<1>9. /\ Gross(row) \in Int
      /\ row.side = "SELL" => fee + tax <= Gross(row)
  BY <1>0, <1>3 DEF Gross
<1>10. CashBalance(a) + CashDelta(row) >= 0 /\ Position(a, s) + PositionDelta(row) >= 0
  <2>1. CashBalance(a) >= 0 /\ Position(a, s) >= 0
    BY <1>5 DEF LongOnly
  <2>2. CASE row.side = "BUY"
    BY <2>1, <2>2, <1>0, <1>1, <1>3, <1>7, <1>9 DEF BuyFunded, CashDelta, PositionDelta
  <2>3. CASE row.side = "SELL"
    BY <2>1, <2>3, <1>0, <1>1, <1>3, <1>7, <1>9 DEF SellHeld, CashDelta, PositionDelta
  <2> QED BY <2>2, <2>3, <1>5 DEF Sides
<1>11. \A b \in Accounts : CashBalance(b)' >= 0
  <2>1. CashBalance(a)' = CashBalance(a) + CashDelta(row)
    BY <1>4, <1>5, <1>8 DEF TypeOK, CashBalance
  <2>2. \A b \in Accounts : b # a => CashBalance(b)' = CashBalance(b)
    BY <1>4 DEF TypeOK, CashBalance
  <2> QED BY <2>1, <2>2, <1>10 DEF LongOnly
<1>12. \A b \in Accounts, u \in Symbols : Position(b, u)' >= 0
  <2>1. Position(a, s)' = Position(a, s) + PositionDelta(row)
    BY <1>4, <1>5, <1>8 DEF TypeOK, Position
  <2>2. \A b \in Accounts, u \in Symbols : b # a \/ u # s => Position(b, u)' = Position(b, u)
    BY <1>4, <1>5 DEF TypeOK, Position
  <2> QED BY <2>1, <2>2, <1>10 DEF LongOnly
<1> QED BY <1>11, <1>12 DEF LongOnly

-----------------------------------------------------------------------------
(***************************************************************************)
(* The life of an order.  An open order's log is its ACCEPTED event alone. *)
(***************************************************************************)
LEMMA OpenLog ==
    ASSUME TypeOK, OrderLifecycle, NEW o \in OrderIds, Open(o)
    PROVE  /\ orderEvents[o] \in Seq(Event) /\ Len(orderEvents[o]) = 1
           /\ orderEvents[o][1].type = "ACCEPTED"
           /\ o \in DOMAIN orders
           /\ ~\E f \in DOMAIN fills : fills[f].order = o
<1> DEFINE log == orderEvents[o]
<1>1. log \in Seq(Event) /\ Len(log) \in Nat /\ log # << >> /\ Len(log) # 0
  BY DEF TypeOK, Open
<1>2. Len(log) <= 2 /\ \A i \in 1 .. Len(log) : IF i = 1 THEN log[i].type = "ACCEPTED"
             ELSE log[i].type \in {"FILLED", "CANCELLED", "EXPIRED"}
  BY DEF OrderLifecycle, LifeOf
<1>3. \A i \in 1 .. Len(log) : log[i].type \notin {"FILLED", "CANCELLED", "EXPIRED"}
  BY DEF Open
<1>4. Len(log) = 1
  <2>1. Len(log) # 2
    <3>1. SUFFICES ASSUME Len(log) = 2  PROVE FALSE
      OBVIOUS
    <3>2. 2 \in 1 .. Len(log)
      BY <3>1
    <3> QED BY <3>2, <1>2, <1>3
  <2>2. Len(log) \in Nat /\ Len(log) # 0 /\ Len(log) <= 2
    BY <1>1, <1>2
  <2>3. \A n \in Nat : n # 0 /\ n <= 2 /\ n # 2 => n = 1
    OBVIOUS
  <2> QED BY <2>1, <2>2, <2>3
<1> QED BY <1>1, <1>2, <1>3, <1>4 DEF OrderLifecycle, LifeOf

LEMMA InitLifecycle == Init => OrderLifecycle
BY DEF Init, OrderLifecycle, LifeOf

LEMMA OrderAcceptedLifecycle ==
    ASSUME TypeOK, AuthorityChain, OrderLifecycle, NEW o \in OrderIds, NEW r, NEW key,
           NEW at \in Times, AppendOrder(o, r, key, at)
    PROVE  OrderLifecycle'
<1>1. o \notin DOMAIN orders
  BY SubmitInserted DEF AppendOrder, OrderOutcome
<1>2. ~\E f \in DOMAIN fills : fills[f].order = o
  BY <1>1 DEF AuthorityChain, FillsSound
<1>3. DOMAIN orders' = DOMAIN orders \cup {o} /\ fills' = fills
  BY DEF AppendOrder, Put
<1>4. /\ orderEvents'[o] = <<Entry("emitted", "ACCEPTED", at)>>
      /\ \A q \in OrderIds : q # o => orderEvents'[q] = orderEvents[q]
  BY DEF AppendOrder, TypeOK
<1>5. Entry("emitted", "ACCEPTED", at).type = "ACCEPTED"
  BY DEF Entry
<1>6. /\ Len(orderEvents'[o]) = 1 /\ orderEvents'[o] # << >>
      /\ orderEvents'[o][1].type = "ACCEPTED"
  BY <1>4, <1>5
<1>7. LifeOf(o)'
  BY <1>2, <1>3, <1>6 DEF LifeOf
<1>8. ASSUME NEW q \in OrderIds, q # o  PROVE LifeOf(q)'
  BY <1>3, <1>4, <1>8 DEF OrderLifecycle, LifeOf
<1> QED BY <1>7, <1>8 DEF OrderLifecycle

LEMMA OrderClosedLifecycle ==
    ASSUME TypeOK, OrderLifecycle, NEW id, NEW o \in OrderIds, NEW type, NEW at,
           AppendOrderEvent(id, o, type, at)
    PROVE  OrderLifecycle'
<1> DEFINE event == Entry(id, type, at)
<1>1. Open(o) /\ type \in {"CANCELLED", "EXPIRED"}
  BY LogEventInserted DEF AppendOrderEvent, OrderEventOutcome
<1>2. /\ orderEvents[o] \in Seq(Event) /\ Len(orderEvents[o]) = 1
      /\ orderEvents[o][1].type = "ACCEPTED" /\ o \in DOMAIN orders
      /\ ~\E f \in DOMAIN fills : fills[f].order = o
  BY <1>1, OpenLog
<1>3. orders' = orders /\ fills' = fills
  BY DEF AppendOrderEvent, chain
<1>4. /\ orderEvents'[o] = Append(orderEvents[o], event)
      /\ \A q \in OrderIds : q # o => orderEvents'[q] = orderEvents[q]
  BY DEF AppendOrderEvent, TypeOK
<1>5. event.type = type
  BY DEF Entry
<1> HIDE DEF event
<1>6. /\ Len(orderEvents'[o]) = 2 /\ orderEvents'[o][1] = orderEvents[o][1]
      /\ orderEvents'[o][2] = event /\ orderEvents'[o] # << >>
  BY <1>2, <1>4
<1>7. LifeOf(o)'
  BY <1>1, <1>2, <1>3, <1>5, <1>6 DEF LifeOf
<1>8. ASSUME NEW q \in OrderIds, q # o  PROVE LifeOf(q)'
  BY <1>3, <1>4, <1>8 DEF OrderLifecycle, LifeOf
<1> QED BY <1>7, <1>8 DEF OrderLifecycle

LEMMA OrderFilledLifecycle ==
    ASSUME TypeOK, OrderLifecycle, NEW i, NEW o \in OrderIds, NEW price, NEW fee, NEW tax,
           NEW observed_at, NEW filled_at,
           AppendFill(i, o, price, fee, tax, observed_at, filled_at)
    PROVE  OrderLifecycle'
<1> DEFINE event == Entry("emitted", "FILLED", filled_at)
<1>1. Open(o) /\ i \notin DOMAIN fills
  BY SubmitInserted DEF AppendFill, FillOutcome
<1>2. /\ orderEvents[o] \in Seq(Event) /\ Len(orderEvents[o]) = 1
      /\ orderEvents[o][1].type = "ACCEPTED" /\ o \in DOMAIN orders
  BY <1>1, OpenLog
<1>3. /\ orders' = orders /\ DOMAIN fills' = DOMAIN fills \cup {i}
      /\ fills'[i].order = o /\ \A f \in DOMAIN fills : fills'[f] = fills[f]
  BY <1>1 DEF AppendFill, chain, Put, FillRow
<1>4. /\ orderEvents'[o] = Append(orderEvents[o], event)
      /\ \A q \in OrderIds : q # o => orderEvents'[q] = orderEvents[q]
  BY DEF AppendFill, TypeOK
<1>5. event.type = "FILLED"
  BY DEF Entry
<1> HIDE DEF event
<1>6. /\ Len(orderEvents'[o]) = 2 /\ orderEvents'[o][1] = orderEvents[o][1]
      /\ orderEvents'[o][2] = event /\ orderEvents'[o] # << >>
  BY <1>2, <1>4
<1>7. LifeOf(o)'
  BY <1>2, <1>3, <1>5, <1>6 DEF LifeOf
<1>8. ASSUME NEW q \in OrderIds, q # o  PROVE LifeOf(q)'
  <2>1. \A f \in DOMAIN fills' : fills'[f].order = q <=> (f \in DOMAIN fills /\ fills[f].order = q)
    BY <1>1, <1>3, <1>8
  <2> QED BY <1>3, <1>4, <1>8, <2>1 DEF OrderLifecycle, LifeOf
<1> QED BY <1>7, <1>8 DEF OrderLifecycle

-----------------------------------------------------------------------------
(***************************************************************************)
(* The inductive invariant and its step                                    *)
(***************************************************************************)
ReviewedQuantities ==
    \A r \in DOMAIN reviews : reviews[r].verdict # "REJECT" => reviews[r].quantity \in Quantities

LedgerInvariant == TypeOK /\ AuthorityChain /\ LongOnly /\ OrderLifecycle /\ ReviewedQuantities

LEMMA SwitchStep ==
    ASSUME LedgerInvariant, SwitchCalls
    PROVE  LedgerInvariant'
<1>1. PICK a \in Accounts, at \in Times :
        \/ \E cash \in Deposits : CreateAccount(a, cash, at)
        \/ \E id \in EventIds :
             \/ \E type \in {"ENABLED", "DISABLED"} : AppendAccountEvent(id, a, type, at)
             \/ \E type \in {"ENGAGED", "RELEASED"} : AppendKillSwitchEvent(id, a, type, at)
  BY DEF SwitchCalls
<1>2. UNCHANGED <<chain, orderEvents, fills, navs, positionAsOf>>
  BY <1>1 DEF CreateAccount, AppendAccountEvent, AppendKillSwitchEvent, balances
<1>3. TypeOK'
  BY <1>1, CreateAccountType, EventTypes DEF LedgerInvariant
<1>4. LongOnly'
  <2>1. CASE \E cash \in Deposits : CreateAccount(a, cash, at)
    BY <2>1, DepositLongOnly DEF LedgerInvariant
  <2>2. CASE UNCHANGED balances
    BY <2>2 DEF LedgerInvariant, LongOnly, CashBalance, Position, balances
  <2> QED BY <1>1, <2>1, <2>2 DEF AppendAccountEvent, AppendKillSwitchEvent
<1>5. AuthorityChain' /\ OrderLifecycle' /\ ReviewedQuantities'
  BY <1>2 DEF LedgerInvariant, ReviewedQuantities, AuthorityChain, DecisionsSound, ProposalsSound, ReviewsSound,
     OrdersSound, FillsSound, OrderLifecycle, LifeOf, chain
<1> QED BY <1>3, <1>4, <1>5 DEF LedgerInvariant

LEMMA ChainStep ==
    ASSUME LedgerInvariant, ChainCalls
    PROVE  LedgerInvariant'
<1>1. PICK at \in ChainTimes :
        \/ \E d \in DecisionIds, a \in Accounts, s \in Symbols, k \in KsfIds,
              cutoff \in Times, action \in Actions :
             AppendAgentDecision(d, [account |-> a, symbol |-> s, ksf |-> k,
                cutoff |-> cutoff, action |-> action, created_at |-> at])
        \/ \E p \in ProposalIds, d \in DecisionIds, side \in Sides,
              target \in TargetBps, key \in Keys :
             AppendOrderProposal(p, d, side, target, key, at)
        \/ \E r \in ReviewIds, p \in ProposalIds,
              verdict \in {"APPROVE", "RESIZE", "REJECT"},
              quantity \in Quantities \cup {0}, price \in Prices \cup {0} :
             AppendRiskReview(r, [proposal |-> p, verdict |-> verdict,
                quantity |-> quantity, price |-> price, reviewed_at |-> at])
        \/ \E o \in OrderIds, r \in ReviewIds, key \in Keys : AppendOrder(o, r, key, at)
  BY ZenonT(40) DEF ChainCalls
<1>2. at \in Times
  BY <1>1, TimeAssumption
<1>3. CASE \E d \in DecisionIds, row \in Decision : AppendAgentDecision(d, row)
  <2>1. UNCHANGED <<reviews, orders, orderEvents, fills, balances>>
    BY <1>3 DEF AppendAgentDecision
  <2>2. LongOnly' /\ OrderLifecycle' /\ ReviewedQuantities'
    BY <2>1 DEF LedgerInvariant, ReviewedQuantities, LongOnly, CashBalance, Position, balances, OrderLifecycle, LifeOf
  <2> QED BY <1>3, <2>2, DecisionType, DecisionChain DEF LedgerInvariant
<1>4. CASE \E p \in ProposalIds, d \in DecisionIds, side \in Sides,
              target \in TargetBps, key \in Keys :
             AppendOrderProposal(p, d, side, target, key, at)
  <2>1. UNCHANGED <<reviews, orders, orderEvents, fills, balances>>
    BY <1>4 DEF AppendOrderProposal
  <2>2. LongOnly' /\ OrderLifecycle' /\ ReviewedQuantities'
    BY <2>1 DEF LedgerInvariant, ReviewedQuantities, LongOnly, CashBalance, Position, balances, OrderLifecycle, LifeOf
  <2> QED BY <1>2, <1>4, <2>2, ProposalType, ProposalChain DEF LedgerInvariant
<1>5. CASE \E r \in ReviewIds, row \in Review :
             row.quantity \in Quantities \cup {0} /\ AppendRiskReview(r, row)
  <2>1. UNCHANGED <<orders, orderEvents, fills, balances>>
    BY <1>5 DEF AppendRiskReview
  <2>2. LongOnly' /\ OrderLifecycle'
    BY <2>1 DEF LedgerInvariant, LongOnly, CashBalance, Position, balances, OrderLifecycle, LifeOf
  <2>3. ReviewedQuantities'
    <3>1. PICK r \in ReviewIds, row \in Review :
            row.quantity \in Quantities \cup {0} /\ AppendRiskReview(r, row)
      BY <1>5
    <3>2. row.verdict # "REJECT" => row.quantity \in Quantities
      BY <3>1, SubmitInserted DEF AppendRiskReview, ReviewOutcome
    <3>3. /\ DOMAIN reviews' = DOMAIN reviews \cup {r} /\ reviews'[r] = row
          /\ \A q \in DOMAIN reviews \ {r} : reviews'[q] = reviews[q]
      BY <3>1 DEF AppendRiskReview, Put
    <3> QED BY <3>2, <3>3 DEF LedgerInvariant, ReviewedQuantities
  <2> QED BY <1>5, <2>2, <2>3, ReviewType, ReviewChain DEF LedgerInvariant
<1>6. CASE \E o \in OrderIds, r \in ReviewIds, key \in Keys : AppendOrder(o, r, key, at)
  <2>1. UNCHANGED <<reviews, balances>>
    BY <1>6 DEF AppendOrder
  <2>2. LongOnly' /\ ReviewedQuantities'
    BY <2>1 DEF LedgerInvariant, ReviewedQuantities, LongOnly, CashBalance, Position, balances
  <2> QED BY <1>2, <1>6, <2>2, OrderType, OrderChain, OrderAcceptedLifecycle DEF LedgerInvariant
<1>7. ASSUME NEW a \in Accounts, NEW s \in Symbols, NEW k \in KsfIds, NEW cutoff \in Times,
             NEW action \in Actions
      PROVE  [account |-> a, symbol |-> s, ksf |-> k, cutoff |-> cutoff, action |-> action,
              created_at |-> at] \in Decision
  BY <1>2 DEF Decision
<1>8. ASSUME NEW p \in ProposalIds, NEW verdict \in {"APPROVE", "RESIZE", "REJECT"},
             NEW quantity \in Quantities \cup {0}, NEW price \in Prices \cup {0}
      PROVE  [proposal |-> p, verdict |-> verdict, quantity |-> quantity, price |-> price,
              reviewed_at |-> at] \in Review
  <2>1. quantity \in Nat /\ price \in Nat
    BY Amounts
  <2> QED BY <1>2, <2>1 DEF Review
<1> QED BY <1>1, <1>3, <1>4, <1>5, <1>6, <1>7, <1>8

LEMMA OrderStep ==
    ASSUME LedgerInvariant, OrderCalls
    PROVE  LedgerInvariant'
<1>1. PICK o \in OrderIds, at \in Times :
        \/ \E id \in EventIds, type \in {"CANCELLED", "EXPIRED"} :
             AppendOrderEvent(id, o, type, at)
        \/ \E i \in FillIds, price \in Prices, fee, tax \in Charges, observed_at \in Times :
             AppendFill(i, o, price, fee, tax, observed_at, at)
  BY DEF OrderCalls
<1>2. CASE \E id \in EventIds, type \in {"CANCELLED", "EXPIRED"} :
             AppendOrderEvent(id, o, type, at)
  <2>1. UNCHANGED <<chain, fills, balances>>
    BY <1>2 DEF AppendOrderEvent
  <2>2. LongOnly' /\ AuthorityChain' /\ ReviewedQuantities'
    BY <2>1 DEF LedgerInvariant, ReviewedQuantities, LongOnly, CashBalance, Position, balances, AuthorityChain,
       DecisionsSound, ProposalsSound, ReviewsSound, OrdersSound, FillsSound, chain
  <2> QED BY <1>2, <2>2, EventTypes, OrderClosedLifecycle DEF LedgerInvariant
<1>3. CASE \E i \in FillIds, price \in Prices, fee, tax \in Charges, observed_at \in Times :
             AppendFill(i, o, price, fee, tax, observed_at, at)
  <2>1. PICK i \in FillIds, price \in Prices, fee \in Charges, tax \in Charges,
             observed_at \in Times : AppendFill(i, o, price, fee, tax, observed_at, at)
    BY <1>3
  <2>2. o \in DOMAIN orders
    BY <2>1, SubmitInserted DEF AppendFill, FillOutcome
  <2>3. orders[o].quantity \in Quantities
    BY <2>2 DEF LedgerInvariant, ReviewedQuantities, AuthorityChain, OrdersSound
  <2>4. fee + tax <= price * orders[o].quantity
    BY <2>3, ChargeAssumption
  <2>5. ReviewedQuantities'
    BY <2>1 DEF LedgerInvariant, ReviewedQuantities, AppendFill, chain
  <2> QED BY <2>1, <2>4, <2>5, FillType, FillChain, FillLongOnly, OrderFilledLifecycle
          DEF LedgerInvariant
<1> QED BY <1>1, <1>2, <1>3

LEMMA NavStep ==
    ASSUME LedgerInvariant, NavCalls
    PROVE  LedgerInvariant'
<1>1. PICK n \in NavIds, a \in Accounts, t \in Times :
        \E nav \in CandidateNavs(a, t) : AppendNavSnapshot(n, nav)
  BY DEF NavCalls
<1>2. UNCHANGED <<chain, orderEvents, fills, balances>>
  BY <1>1 DEF AppendNavSnapshot
<1>3. TypeOK'
  BY <1>1, CandidateNavType DEF LedgerInvariant
<1>4. LongOnly' /\ AuthorityChain' /\ OrderLifecycle' /\ ReviewedQuantities'
  BY <1>2 DEF LedgerInvariant, ReviewedQuantities, LongOnly, CashBalance, Position, balances, AuthorityChain,
     DecisionsSound, ProposalsSound, ReviewsSound, OrdersSound, FillsSound, chain,
     OrderLifecycle, LifeOf
<1> QED BY <1>3, <1>4 DEF LedgerInvariant

(* The conjunction of the type invariant, the authority chain, long-only   *)
(* balances and the order lifecycle is inductive over every ledger call.   *)
THEOREM LedgerInvariance == Spec => []LedgerInvariant
<1>1. Init => LedgerInvariant
  <2>1. Init => ReviewedQuantities
    BY DEF Init, ReviewedQuantities
  <2> QED BY <2>1, InitTypeOK, InitChain, InitLongOnly, InitLifecycle DEF LedgerInvariant
<1>2. LedgerInvariant /\ [Next]_ledger => LedgerInvariant'
  <2> SUFFICES ASSUME LedgerInvariant, [Next]_ledger  PROVE LedgerInvariant'
    OBVIOUS
  <2>1. CASE Next
    BY <2>1, SwitchStep, ChainStep, OrderStep, NavStep DEF Next
  <2>2. CASE UNCHANGED ledger
    BY <2>2 DEF ledger, chain, balances, LedgerInvariant, TypeOK, IsTable, AuthorityChain,
       DecisionsSound, ProposalsSound, ReviewsSound, OrdersSound, FillsSound, LongOnly,
       CashBalance, Position, OrderLifecycle, LifeOf, ReviewedQuantities
  <2> QED BY <2>1, <2>2
<1> QED BY <1>1, <1>2, PTL DEF Spec

(* Every row the ledger accepts has the shape its table declares. *)
THEOREM TypeCorrect == Spec => []TypeOK
BY LedgerInvariance, PTL DEF LedgerInvariant

(* No sequence of calls borrows cash or sells shares that are not held,    *)
(* provided no fill charges more than its proceeds (ChargeAssumption).     *)
THEOREM NeverShort == Spec => []LongOnly
BY LedgerInvariance, PTL DEF LedgerInvariant

(* No order is both filled and cancelled, and FILLED means a fill exists. *)
THEOREM LifecycleCorrect == Spec => []OrderLifecycle
BY LedgerInvariance, PTL DEF LedgerInvariant

(* A fill walks up its order, review, proposal to its decision. *)
LEMMA FillChainWalk ==
    ASSUME AuthorityChain, NEW f \in DOMAIN fills
    PROVE  LET o == fills[f].order  r == orders[o].review
               p == reviews[r].proposal  d == proposals[p].decision IN
           /\ o \in DOMAIN orders /\ r \in DOMAIN reviews /\ p \in DOMAIN proposals
           /\ d \in DOMAIN decisions /\ orders[o].proposal = p
           /\ reviews[r].verdict # "REJECT" /\ fills[f].quantity = reviews[r].quantity
           /\ fills[f].account = decisions[d].account /\ fills[f].symbol = decisions[d].symbol
           /\ Authorises(decisions[d].action, fills[f].side, proposals[p].target)
<1> DEFINE o == fills[f].order
           r == orders[o].review
           p == reviews[r].proposal
           d == proposals[p].decision
<1>1. /\ o \in DOMAIN orders /\ fills[f].quantity = orders[o].quantity
      /\ fills[f].account = orders[o].account /\ fills[f].symbol = orders[o].symbol
      /\ fills[f].side = orders[o].side
  BY DEF AuthorityChain, FillsSound
<1>2. /\ r \in DOMAIN reviews /\ reviews[r].verdict # "REJECT"
      /\ orders[o].proposal = p /\ orders[o].quantity = reviews[r].quantity
      /\ orders[o].account = proposals[p].account /\ orders[o].symbol = proposals[p].symbol
      /\ orders[o].side = proposals[p].side
  BY <1>1 DEF AuthorityChain, OrdersSound
<1>3. p \in DOMAIN proposals
  BY SMTT(40), <1>2 DEF AuthorityChain, ReviewsSound
<1>4. /\ d \in DOMAIN decisions /\ proposals[p].account = decisions[d].account
      /\ proposals[p].symbol = decisions[d].symbol
      /\ Authorises(decisions[d].action, proposals[p].side, proposals[p].target)
  BY SMTT(40), <1>3 DEF AuthorityChain, ProposalsSound
<1> QED BY <1>1, <1>2, <1>3, <1>4

LEMMA ChainAuthorises == AuthorityChain => FillsAuthorised
BY ZenonT(40), FillChainWalk DEF FillsAuthorised, ReviewOf, ProposalOf, DecisionOf

(* Every fill is authorised by a whole chain that agrees with it. *)
THEOREM Authorised == Spec => []FillsAuthorised
BY ChainAuthorises, LedgerInvariance, PTL DEF LedgerInvariant

LEMMA ChainOnce == AuthorityChain => OneFillPerSignal
<1>1. ASSUME AuthorityChain, NEW f \in DOMAIN fills, NEW g \in DOMAIN fills,
             <<DecisionOf(f).account, DecisionOf(f).ksf>>
               = <<DecisionOf(g).account, DecisionOf(g).ksf>>
      PROVE  f = g
  <2> DEFINE d(h) == ProposalOf(h).decision
             p(h) == ReviewOf(h).proposal
  <2>1. \A h \in DOMAIN fills :
          /\ fills[h].order \in DOMAIN orders /\ p(h) \in DOMAIN proposals
          /\ d(h) \in DOMAIN decisions /\ orders[fills[h].order].proposal = p(h)
    BY <1>1, FillChainWalk DEF ReviewOf, ProposalOf
  <2>2. d(f) = d(g)
    BY <1>1, <2>1 DEF AuthorityChain, DecisionsSound, DecisionOf
  <2>3. p(f) = p(g)
    BY <1>1, <2>1, <2>2 DEF AuthorityChain, ProposalsSound, ProposalOf
  <2>4. fills[f].order = fills[g].order
    BY <1>1, <2>1, <2>3 DEF AuthorityChain, OrdersSound
  <2> QED BY <1>1, <2>4 DEF AuthorityChain, FillsSound
<1> QED BY <1>1 DEF OneFillPerSignal

(* One KSF decision moves an account's money at most once. *)
THEOREM ExactlyOnce == Spec => []OneFillPerSignal
BY ChainOnce, LedgerInvariance, PTL DEF LedgerInvariant

(* Every row of the ledger stands on the rows it names: whatever is         *)
(* recorded, in whatever order and however often.                          *)
THEOREM ChainsIntact == Spec => []AuthorityChain
BY LedgerInvariance, PTL DEF LedgerInvariant

LEMMA ChainDated == TypeOK /\ AuthorityChain => NoLookAhead
<1>1. ASSUME TypeOK, AuthorityChain, NEW f \in DOMAIN fills
      PROVE  /\ DecisionOf(f).cutoff < fills[f].observed_at
             /\ DecisionOf(f).created_at < fills[f].observed_at
             /\ fills[f].observed_at <= fills[f].filled_at
  <2> DEFINE o == fills[f].order
             r == orders[o].review
             p == reviews[r].proposal
             d == proposals[p].decision
  <2>1. /\ o \in DOMAIN orders /\ r \in DOMAIN reviews
        /\ p \in DOMAIN proposals /\ d \in DOMAIN decisions
    BY <1>1, FillChainWalk
  <2>2. /\ decisions[d].cutoff <= decisions[d].created_at
        /\ decisions[d].created_at <= proposals[p].proposed_at
        /\ proposals[p].proposed_at <= reviews[r].reviewed_at
        /\ reviews[r].reviewed_at <= orders[o].created_at
        /\ orders[o].created_at < fills[f].observed_at
        /\ fills[f].observed_at <= fills[f].filled_at
    BY SMTT(40), <1>1, <2>1 DEF AuthorityChain, DecisionsSound, ProposalsSound, ReviewsSound,
       OrdersSound, FillsSound
  <2>3. /\ decisions[d].cutoff \in Int /\ decisions[d].created_at \in Int
        /\ proposals[p].proposed_at \in Int /\ reviews[r].reviewed_at \in Int
        /\ orders[o].created_at \in Int /\ fills[f].observed_at \in Int
    <3>1. /\ decisions[d] \in Decision /\ proposals[p] \in Proposal /\ reviews[r] \in Review
          /\ orders[o] \in Order /\ fills[f] \in Fill
      BY SMTT(40), <1>1, <2>1 DEF TypeOK, IsTable
    <3>2. decisions[d].cutoff \in Times /\ decisions[d].created_at \in Times
      BY <3>1 DEF Decision
    <3>3. proposals[p].proposed_at \in Times
      BY <3>1 DEF Proposal
    <3>4. reviews[r].reviewed_at \in Times
      BY <3>1 DEF Review
    <3>5. orders[o].created_at \in Times
      BY <3>1 DEF Order
    <3>6. fills[f].observed_at \in Times
      BY <3>1 DEF Fill
    <3>7. \A t \in Times : t \in Int
      BY DEF Times
    <3> QED BY <3>2, <3>3, <3>4, <3>5, <3>6, <3>7
  <2>4. DecisionOf(f) = decisions[d]
    BY DEF DecisionOf, ProposalOf, ReviewOf
  <2> HIDE DEF d, p, r, o
  <2> QED BY SMTT(40), <2>2, <2>3, <2>4
<1> QED BY <1>1 DEF NoLookAhead

(* No fill uses a price observed at or before its decision or the data the *)
(* decision could see.                                                     *)
THEOREM LookAheadFree == Spec => []NoLookAhead
BY ChainDated, LedgerInvariance, PTL DEF LedgerInvariant

-----------------------------------------------------------------------------
(***************************************************************************)
(* The switches.  An event is never dated before the last one, so one that *)
(* is recorded after an instant has passed is later than the instant.      *)
(***************************************************************************)
LEMMA AppendFacts ==
    ASSUME NEW S, NEW s \in Seq(S), NEW e \in S
    PROVE  /\ Append(s, e) \in Seq(S) /\ Len(s) \in Nat
           /\ Len(Append(s, e)) = Len(s) + 1
           /\ \A i \in 1 .. Len(s) : Append(s, e)[i] = s[i] /\ s[i] \in S
           /\ Append(s, e)[Len(s) + 1] = e
  OBVIOUS

AllAfter(log, t) == \A i \in 1 .. Len(log) : log[i].at > t

LEMMA HistoryStands ==
    ASSUME NEW log \in Seq(Event), NEW e \in Event, NEW t \in Times, Passed(log, t),
           \A i \in 1 .. Len(log) : log[i].at <= e.at,
           NEW longer, longer = Append(log, e), NEW type
    PROVE  /\ LastAsOf(longer, t, type) <=> LastAsOf(log, t, type)
           /\ AllAfter(longer, t) <=> AllAfter(log, t)
<1>1. /\ Len(log) \in Nat /\ Len(longer) = Len(log) + 1
      /\ \A i \in 1 .. Len(log) : longer[i] = log[i] /\ log[i] \in Event
      /\ longer[Len(log) + 1] = e
  BY AppendFacts
<1>2. e.at > t
  <2>1. PICK i \in 1 .. Len(log) : log[i].at > t
    BY DEF Passed
  <2>2. log[i].at \in Int /\ e.at \in Int /\ t \in Int
    BY <1>1, <2>1 DEF Event, Times
  <2> QED BY <2>1, <2>2
<1>3. ~(e.at <= t)
  BY <1>2 DEF Event, Times
<1>4. ASSUME LastAsOf(log, t, type) PROVE LastAsOf(longer, t, type)
  <2>1. PICK i \in 1 .. Len(log) : /\ log[i].at <= t /\ log[i].type = type
                                   /\ \A j \in i + 1 .. Len(log) : log[j].at > t
    BY <1>4 DEF LastAsOf
  <2>2. i \in 1 .. Len(longer) /\ longer[i] = log[i]
    BY <1>1
  <2>3. ASSUME NEW j \in i + 1 .. Len(longer) PROVE longer[j].at > t
    <3>1. CASE j = Len(log) + 1
      BY <1>1, <1>2, <3>1
    <3>2. CASE j # Len(log) + 1
      <4>1. j \in i + 1 .. Len(log) /\ j \in 1 .. Len(log)
        BY <1>1, <3>2
      <4> QED BY <1>1, <2>1, <4>1
    <3> QED BY <3>1, <3>2
  <2> QED BY <2>1, <2>2, <2>3 DEF LastAsOf
<1>5. ASSUME LastAsOf(longer, t, type) PROVE LastAsOf(log, t, type)
  <2>1. PICK i \in 1 .. Len(longer) : /\ longer[i].at <= t /\ longer[i].type = type
                                      /\ \A j \in i + 1 .. Len(longer) : longer[j].at > t
    BY <1>5 DEF LastAsOf
  <2>2. i # Len(log) + 1
    BY <1>1, <1>3, <2>1
  <2>3. i \in 1 .. Len(log)
    BY <1>1, <2>2
  <2>4. ASSUME NEW j \in i + 1 .. Len(log) PROVE log[j].at > t
    <3>1. j \in 1 .. Len(log) /\ j \in i + 1 .. Len(longer)
      BY <1>1, <2>3
    <3> QED BY <1>1, <2>1, <3>1
  <2> QED BY <1>1, <2>1, <2>3, <2>4 DEF LastAsOf
<1>6. AllAfter(longer, t) <=> AllAfter(log, t)
  BY <1>1, <1>2 DEF AllAfter
<1> QED BY <1>4, <1>5, <1>6

(* The logs of an account that does not exist are empty. *)
SwitchInv ==
    /\ accountEvents \in [Accounts -> Seq(Event)] /\ killEvents \in [Accounts -> Seq(Event)]
    /\ \A a \in Accounts \ DOMAIN accounts : accountEvents[a] = << >> /\ killEvents[a] = << >>

HistoryKept ==
    \A a \in Accounts, t \in Times :
        /\ Passed(accountEvents[a], t) =>
             (AccountEnabledAsOf(a, t)' <=> AccountEnabledAsOf(a, t))
        /\ Passed(killEvents[a], t) =>
             (KillSwitchEngagedAsOf(a, t)' <=> KillSwitchEngagedAsOf(a, t))

LEMMA QuietSwitches ==
    ASSUME accountEvents' = accountEvents, killEvents' = killEvents
    PROVE  HistoryKept
  BY DEF HistoryKept, AccountEnabledAsOf, KillSwitchEngagedAsOf, LastAsOf

LEMMA CreateAccountHistory ==
    ASSUME SwitchInv, NEW a \in Accounts, NEW cash, NEW at \in Times, CreateAccount(a, cash, at)
    PROVE  SwitchInv' /\ HistoryKept
<1>1. a \notin DOMAIN accounts /\ DOMAIN accounts' = DOMAIN accounts \cup {a}
  BY SubmitInserted DEF CreateAccount, AccountOutcome, Put
<1>2. /\ accountEvents' = [accountEvents EXCEPT ![a] = <<Entry("emitted", "CREATED", at)>>]
      /\ killEvents' = killEvents
  BY DEF CreateAccount
<1>3. Entry("emitted", "CREATED", at) \in Event
  BY EntryType
<1>4. SwitchInv'
  BY <1>1, <1>2, <1>3 DEF SwitchInv
<1>5. ASSUME NEW b \in Accounts, NEW t \in Times, Passed(accountEvents[b], t)
      PROVE  accountEvents'[b] = accountEvents[b]
  BY <1>1, <1>2, <1>5 DEF SwitchInv, Passed
<1>6. HistoryKept
  BY <1>2, <1>5 DEF HistoryKept, AccountEnabledAsOf, KillSwitchEngagedAsOf, LastAsOf
<1> QED BY <1>4, <1>6

LEMMA SwitchEventHistory ==
    ASSUME SwitchInv, NEW id \in EventIds, NEW a \in Accounts, NEW type, NEW at \in Times,
           AppendAccountEvent(id, a, type, at) \/ AppendKillSwitchEvent(id, a, type, at)
    PROVE  SwitchInv' /\ HistoryKept
<1>1. PICK e \in Event : e = Entry(id, type, at)
  BY EntryType DEF AppendAccountEvent, AppendKillSwitchEvent
<1>2. CASE AppendAccountEvent(id, a, type, at)
  <2>1. /\ a \in DOMAIN accounts /\ \A i \in 1 .. Len(accountEvents[a]) : accountEvents[a][i].at <= e.at
        /\ accounts' = accounts /\ killEvents' = killEvents
        /\ accountEvents' = [accountEvents EXCEPT ![a] = Append(accountEvents[a], e)]
    BY <1>1, <1>2, LogEventInserted DEF AppendAccountEvent, AccountEventOutcome, EventCausal
  <2>2. accountEvents[a] \in Seq(Event) /\ accountEvents'[a] = Append(accountEvents[a], e)
        /\ \A b \in Accounts \ {a} : accountEvents'[b] = accountEvents[b]
    BY <2>1 DEF SwitchInv
  <2>3. SwitchInv'
    <3>1. Append(accountEvents[a], e) \in Seq(Event)
      BY <2>2, AppendFacts
    <3> QED BY <2>1, <3>1 DEF SwitchInv
  <2>4. ASSUME NEW t \in Times, Passed(accountEvents[a], t)
        PROVE  LastAsOf(accountEvents'[a], t, "ENABLED") <=> LastAsOf(accountEvents[a], t, "ENABLED")
    BY <2>1, <2>2, <2>4, HistoryStands
  <2>5. ASSUME NEW b \in Accounts, NEW t \in Times, Passed(accountEvents[b], t)
        PROVE  LastAsOf(accountEvents'[b], t, "ENABLED") <=> LastAsOf(accountEvents[b], t, "ENABLED")
    BY <2>2, <2>4, <2>5
  <2>6. HistoryKept
    <3>1. ASSUME NEW b \in Accounts, NEW t \in Times, Passed(accountEvents[b], t)
          PROVE  AccountEnabledAsOf(b, t)' <=> AccountEnabledAsOf(b, t)
      <4>1. LastAsOf(accountEvents'[b], t, "ENABLED") <=> LastAsOf(accountEvents[b], t, "ENABLED")
        BY <2>5, <3>1
      <4> QED BY <4>1 DEF AccountEnabledAsOf
    <3>2. ASSUME NEW b \in Accounts, NEW t \in Times
          PROVE  KillSwitchEngagedAsOf(b, t)' <=> KillSwitchEngagedAsOf(b, t)
      BY <2>1 DEF KillSwitchEngagedAsOf, LastAsOf
    <3> QED BY <3>1, <3>2 DEF HistoryKept
  <2> QED BY <2>3, <2>6
<1>3. CASE AppendKillSwitchEvent(id, a, type, at)
  <2>1. /\ a \in DOMAIN accounts /\ \A i \in 1 .. Len(killEvents[a]) : killEvents[a][i].at <= e.at
        /\ accounts' = accounts /\ accountEvents' = accountEvents
        /\ killEvents' = [killEvents EXCEPT ![a] = Append(killEvents[a], e)]
    BY <1>1, <1>3, LogEventInserted DEF AppendKillSwitchEvent, KillSwitchOutcome, EventCausal
  <2>2. killEvents[a] \in Seq(Event) /\ killEvents'[a] = Append(killEvents[a], e)
        /\ \A b \in Accounts \ {a} : killEvents'[b] = killEvents[b]
    BY <2>1 DEF SwitchInv
  <2>3. SwitchInv'
    <3>1. Append(killEvents[a], e) \in Seq(Event)
      BY <2>2, AppendFacts
    <3> QED BY <2>1, <3>1 DEF SwitchInv
  <2>4. ASSUME NEW t \in Times, Passed(killEvents[a], t)
        PROVE  /\ LastAsOf(killEvents'[a], t, "ENGAGED") <=> LastAsOf(killEvents[a], t, "ENGAGED")
               /\ AllAfter(killEvents'[a], t) <=> AllAfter(killEvents[a], t)
    BY <2>1, <2>2, <2>4, HistoryStands
  <2>5. ASSUME NEW b \in Accounts, NEW t \in Times, Passed(killEvents[b], t)
        PROVE  /\ LastAsOf(killEvents'[b], t, "ENGAGED") <=> LastAsOf(killEvents[b], t, "ENGAGED")
               /\ AllAfter(killEvents'[b], t) <=> AllAfter(killEvents[b], t)
    BY <2>2, <2>4, <2>5
  <2>6. HistoryKept
    <3>1. ASSUME NEW b \in Accounts, NEW t \in Times
          PROVE  AccountEnabledAsOf(b, t)' <=> AccountEnabledAsOf(b, t)
      BY <2>1 DEF AccountEnabledAsOf, LastAsOf
    <3>2. ASSUME NEW b \in Accounts, NEW t \in Times, Passed(killEvents[b], t)
          PROVE  KillSwitchEngagedAsOf(b, t)' <=> KillSwitchEngagedAsOf(b, t)
      <4>1. /\ LastAsOf(killEvents'[b], t, "ENGAGED") <=> LastAsOf(killEvents[b], t, "ENGAGED")
            /\ AllAfter(killEvents'[b], t) <=> AllAfter(killEvents[b], t)
        BY <2>5, <3>2
      <4> QED BY <4>1 DEF KillSwitchEngagedAsOf, AllAfter
    <3> QED BY <3>1, <3>2 DEF HistoryKept
  <2> QED BY <2>3, <2>6
<1> QED BY <1>2, <1>3

LEMMA SwitchesStep ==
    ASSUME SwitchInv, [Next]_ledger
    PROVE  SwitchInv' /\ HistoryKept
<1>1. CASE SwitchCalls
  BY <1>1, CreateAccountHistory, SwitchEventHistory DEF SwitchCalls
<1>2. CASE UNCHANGED <<accounts, accountEvents, killEvents>>
  BY <1>2, QuietSwitches DEF SwitchInv
<1>3. ChainCalls => UNCHANGED <<accounts, accountEvents, killEvents>>
  <2>1. /\ \A d, row : AppendAgentDecision(d, row) =>
             UNCHANGED <<accounts, accountEvents, killEvents>>
        /\ \A p, d, side, target, key, at : AppendOrderProposal(p, d, side, target, key, at) =>
             UNCHANGED <<accounts, accountEvents, killEvents>>
        /\ \A r, row : AppendRiskReview(r, row) =>
             UNCHANGED <<accounts, accountEvents, killEvents>>
        /\ \A o, r, key, at : AppendOrder(o, r, key, at) =>
             UNCHANGED <<accounts, accountEvents, killEvents>>
    BY DEF AppendAgentDecision, AppendOrderProposal, AppendRiskReview, AppendOrder
  <2> QED BY <2>1 DEF ChainCalls
<1>4. OrderCalls => UNCHANGED <<accounts, accountEvents, killEvents>>
  <2>1. /\ \A id, o, type, at : AppendOrderEvent(id, o, type, at) =>
             UNCHANGED <<accounts, accountEvents, killEvents>>
        /\ \A i, o, price, fee, tax, seen, at : AppendFill(i, o, price, fee, tax, seen, at) =>
             UNCHANGED <<accounts, accountEvents, killEvents>>
    BY DEF AppendOrderEvent, AppendFill
  <2> QED BY <2>1 DEF OrderCalls
<1>5. NavCalls => UNCHANGED <<accounts, accountEvents, killEvents>>
  BY DEF NavCalls, AppendNavSnapshot
<1> QED BY <1>1, <1>2, <1>3, <1>4, <1>5 DEF Next, ledger

(* What authoritative_state_as_of reads of the switches as of an instant   *)
(* does not change once a later event is recorded.                         *)
THEOREM SwitchHistory == Spec => SwitchHistoryFinal
<1>1. Init => SwitchInv
  BY DEF Init, SwitchInv
<1>2. SwitchInv /\ [Next]_ledger => SwitchInv'
  BY SwitchesStep
<1>3. SwitchInv /\ [Next]_ledger => [HistoryKept]_ledger
  BY SwitchesStep
<1> QED BY <1>1, <1>2, <1>3, PTL DEF Spec, SwitchHistoryFinal, HistoryKept

-----------------------------------------------------------------------------
(***************************************************************************)
(* Replays.  A repeated call passes the checks on its arguments, which     *)
(* name rows that stay, and derives the row that is stored.                *)
(***************************************************************************)
ReviewArguments(row) ==
    IF row.verdict = "REJECT" THEN row.quantity = 0 /\ row.price = 0
                              ELSE row.quantity \in Nat \ {0} /\ row.price \in Nat \ {0}

Admitted ==
    /\ \A a \in DOMAIN accounts : accounts[a].initial_cash \in Nat \ {0}
    /\ \A r \in DOMAIN reviews : ReviewArguments(reviews[r])
    /\ \A f \in DOMAIN fills : fills[f].price \in Nat \ {0}

LEMMA AdmittedStep ==
    ASSUME Admitted, [Next]_ledger
    PROVE  Admitted'
<1>1. ASSUME NEW a, NEW cash, NEW at, CreateAccount(a, cash, at) PROVE Admitted'
  <2>1. cash \in Nat \ {0} /\ a \notin DOMAIN accounts
    BY <1>1, SubmitInserted DEF CreateAccount, AccountOutcome
  <2>2. accounts' = Put(accounts, a, [created_at |-> at, initial_cash |-> cash])
        /\ reviews' = reviews /\ fills' = fills
    BY <1>1 DEF CreateAccount, chain
  <2>3. ASSUME NEW b \in DOMAIN accounts' PROVE accounts'[b].initial_cash \in Nat \ {0}
    <3>1. CASE b = a
      <4>1. accounts'[b] = [created_at |-> at, initial_cash |-> cash]
        BY <2>2, <3>1 DEF Put
      <4> QED BY <2>1, <4>1
    <3>2. CASE b # a
      <4>1. b \in DOMAIN accounts /\ accounts'[b] = accounts[b]
        BY <2>2, <2>3, <3>2 DEF Put
      <4> QED BY <4>1 DEF Admitted
    <3> QED BY <3>1, <3>2
  <2> QED BY <2>2, <2>3 DEF Admitted, ReviewArguments
<1>2. ASSUME NEW r, NEW row, AppendRiskReview(r, row) PROVE Admitted'
  <2>1. ReviewArguments(row) /\ r \notin DOMAIN reviews
    BY <1>2, SubmitInserted DEF AppendRiskReview, ReviewOutcome, ReviewArguments
  <2>2. reviews' = Put(reviews, r, row) /\ accounts' = accounts /\ fills' = fills
    BY <1>2 DEF AppendRiskReview
  <2>3. ASSUME NEW q \in DOMAIN reviews' PROVE ReviewArguments(reviews'[q])
    <3>1. CASE q = r
      <4>1. reviews'[q] = row
        BY <2>2, <3>1 DEF Put
      <4> QED BY <2>1, <4>1
    <3>2. CASE q # r
      <4>1. q \in DOMAIN reviews /\ reviews'[q] = reviews[q]
        BY <2>2, <2>3, <3>2 DEF Put
      <4> QED BY <4>1 DEF Admitted
    <3> QED BY <3>1, <3>2
  <2> QED BY <2>2, <2>3 DEF Admitted
<1>3. ASSUME NEW i, NEW o, NEW price, NEW fee, NEW tax, NEW seen, NEW at,
             AppendFill(i, o, price, fee, tax, seen, at)
      PROVE  Admitted'
  <2> DEFINE row == FillRow(o, price, fee, tax, seen, at)
  <2>1. price \in Nat \ {0} /\ i \notin DOMAIN fills
    BY <1>3, SubmitInserted DEF AppendFill, FillOutcome
  <2>2. fills' = Put(fills, i, row) /\ accounts' = accounts /\ reviews' = reviews
    BY <1>3 DEF AppendFill, chain
  <2>3. row.price = price
    BY DEF FillRow
  <2>4. ASSUME NEW f \in DOMAIN fills' PROVE fills'[f].price \in Nat \ {0}
    <3>1. CASE f = i
      <4>1. fills'[f] = row
        BY <2>2, <3>1 DEF Put
      <4> QED BY <2>1, <2>3, <4>1
    <3>2. CASE f # i
      <4>1. f \in DOMAIN fills /\ fills'[f] = fills[f]
        BY <2>2, <2>4, <3>2 DEF Put
      <4> QED BY <4>1 DEF Admitted
    <3> QED BY <3>1, <3>2
  <2> QED BY <2>2, <2>4 DEF Admitted, ReviewArguments
<1>4. CASE UNCHANGED <<accounts, reviews, fills>>
  BY <1>4 DEF Admitted, ReviewArguments
<1>5. CASE SwitchCalls
  BY <1>1, <1>4, <1>5 DEF SwitchCalls, AppendAccountEvent, AppendKillSwitchEvent, chain
<1>6. CASE ChainCalls
  <2>1. /\ \A d, row : AppendAgentDecision(d, row) => UNCHANGED <<accounts, reviews, fills>>
        /\ \A p, d, side, target, key, at : AppendOrderProposal(p, d, side, target, key, at) =>
             UNCHANGED <<accounts, reviews, fills>>
        /\ \A o, r, key, at : AppendOrder(o, r, key, at) => UNCHANGED <<accounts, reviews, fills>>
    BY DEF AppendAgentDecision, AppendOrderProposal, AppendOrder
  <2> QED BY <1>2, <1>4, <1>6, <2>1 DEF ChainCalls
<1>7. CASE OrderCalls
  <2>1. \A id, o, type, at : AppendOrderEvent(id, o, type, at) =>
             UNCHANGED <<accounts, reviews, fills>>
    BY DEF AppendOrderEvent, chain
  <2> QED BY <1>3, <1>4, <1>7, <2>1 DEF OrderCalls
<1>8. CASE NavCalls
  BY <1>4, <1>8 DEF NavCalls, AppendNavSnapshot, chain
<1>9. CASE UNCHANGED ledger
  BY <1>4, <1>9 DEF ledger, chain
<1> QED BY <1>5, <1>6, <1>7, <1>8, <1>9 DEF Next

LEMMA StoredIsReplayed ==
    ASSUME NEW arguments, NEW table, NEW id \in DOMAIN table, NEW row, NEW constraints,
           arguments, row = table[id]
    PROVE  Submit(arguments, table, id, row, constraints) = "replayed"
  BY DEF Submit

LEMMA AdmittedReplays ==
    ASSUME TypeOK, AuthorityChain, Admitted
    PROVE  Replayable
<1>1. ASSUME NEW a \in DOMAIN accounts
      PROVE  AccountOutcome(a, accounts[a].initial_cash, accounts[a].created_at) = "replayed"
  <2>1. accounts[a] \in Account /\ accounts[a].initial_cash \in Nat \ {0}
    BY DEF TypeOK, IsTable, Admitted
  <2>2. accounts[a] = [created_at |-> accounts[a].created_at,
                       initial_cash |-> accounts[a].initial_cash]
    BY <2>1 DEF Account
  <2> QED BY <2>1, <2>2, StoredIsReplayed DEF AccountOutcome
<1>2. ASSUME NEW d \in DOMAIN decisions
      PROVE  DecisionOutcome(d, decisions[d]) = "replayed"
  <2>1. decisions[d].cutoff <= decisions[d].created_at
    BY DEF AuthorityChain, DecisionsSound
  <2> QED BY <2>1, StoredIsReplayed DEF DecisionOutcome
<1>3. ASSUME NEW p \in DOMAIN proposals, NEW row, row = proposals[p]
      PROVE  ProposalOutcome(p, row.decision, row.side, row.target, row.key, row.proposed_at)
               = "replayed"
  <2>1. /\ row \in Proposal /\ row.decision \in DOMAIN decisions
        /\ row.account = decisions[row.decision].account
        /\ row.symbol = decisions[row.decision].symbol
        /\ Authorises(decisions[row.decision].action, row.side, row.target)
    BY <1>3 DEF TypeOK, IsTable, AuthorityChain, ProposalsSound
  <2>2. row = [account |-> row.account, symbol |-> row.symbol, decision |-> row.decision,
               side |-> row.side, target |-> row.target, key |-> row.key,
               proposed_at |-> row.proposed_at]
    BY <2>1 DEF Proposal
  <2>3. ProposalRow(row.decision, row.side, row.target, row.key, row.proposed_at) = row
    BY <2>1, <2>2 DEF ProposalRow
  <2>4. row.target \in Nat
    BY <2>1 DEF Proposal
  <2> QED BY <1>3, <2>1, <2>3, <2>4, StoredIsReplayed DEF ProposalOutcome
<1>4. ASSUME NEW r \in DOMAIN reviews
      PROVE  ReviewOutcome(r, reviews[r]) = "replayed"
  <2>1. ReviewArguments(reviews[r])
    BY DEF Admitted
  <2> QED BY <2>1, StoredIsReplayed DEF ReviewOutcome, ReviewArguments
<1>5. ASSUME NEW o \in DOMAIN orders, NEW row, row = orders[o]
      PROVE  OrderOutcome(o, row.review, row.key, row.created_at) = "replayed"
  <2>1. /\ row \in Order /\ row.review \in DOMAIN reviews
        /\ row.proposal = reviews[row.review].proposal
        /\ reviews[row.review].verdict # "REJECT"
        /\ row.quantity = reviews[row.review].quantity
        /\ row.account = proposals[row.proposal].account
        /\ row.symbol = proposals[row.proposal].symbol
        /\ row.side = proposals[row.proposal].side
    BY <1>5 DEF TypeOK, IsTable, AuthorityChain, OrdersSound
  <2>2. row = [account |-> row.account, created_at |-> row.created_at, symbol |-> row.symbol,
               quantity |-> row.quantity, side |-> row.side, key |-> row.key,
               proposal |-> row.proposal, review |-> row.review]
    BY <2>1 DEF Order
  <2>3. OrderRow(row.review, row.key, row.created_at) = row
    BY <2>1, <2>2 DEF OrderRow
  <2> QED BY <1>5, <2>1, <2>3, StoredIsReplayed DEF OrderOutcome
<1>6. ASSUME NEW f \in DOMAIN fills, NEW row, row = fills[f]
      PROVE  FillOutcome(f, row.order, row.price, row.fee, row.tax, row.observed_at, row.filled_at)
               = "replayed"
  <2>1. /\ row \in Fill /\ row.order \in DOMAIN orders /\ row.price \in Nat \ {0}
        /\ row.account = orders[row.order].account /\ row.symbol = orders[row.order].symbol
        /\ row.side = orders[row.order].side /\ row.quantity = orders[row.order].quantity
    BY <1>6 DEF TypeOK, IsTable, AuthorityChain, FillsSound, Admitted
  <2>2. row = [account |-> row.account, filled_at |-> row.filled_at, symbol |-> row.symbol,
               price |-> row.price, quantity |-> row.quantity, fee |-> row.fee, tax |-> row.tax,
               side |-> row.side, order |-> row.order, observed_at |-> row.observed_at]
    BY <2>1 DEF Fill
  <2>3. FillRow(row.order, row.price, row.fee, row.tax, row.observed_at, row.filled_at) = row
    BY <2>1, <2>2 DEF FillRow
  <2>4. row.fee \in Nat /\ row.tax \in Nat
    BY <2>1 DEF Fill
  <2> QED BY <1>6, <2>1, <2>3, <2>4, StoredIsReplayed DEF FillOutcome
<1> QED BY <1>1, <1>2, <1>3, <1>4, <1>5, <1>6 DEF Replayable

(* Whatever has been recorded since, a call that recorded an account, a    *)
(* decision, a proposal, a review, an order or a fill is recognised when   *)
(* it is repeated.                                                         *)
THEOREM ReplaysRecognised == Spec => []Replayable
<1>1. Init => Admitted
  BY DEF Init, Admitted
<1>2. Admitted /\ [Next]_ledger => Admitted'
  BY AdmittedStep
<1>3. LedgerInvariant /\ Admitted => Replayable
  BY AdmittedReplays DEF LedgerInvariant
<1> QED BY <1>1, <1>2, <1>3, LedgerInvariance, PTL DEF Spec

-----------------------------------------------------------------------------
(***************************************************************************)
(* The balances are the sums of the events.  Booked strengthens            *)
(* Conservation with what its steps need: a ledger holds finitely many     *)
(* fills, and an account that does not exist yet holds no deposit.         *)
(***************************************************************************)
Deposited(a, t) ==
    IF a \in DOMAIN accounts /\ accounts[a].created_at <= t THEN accounts[a].initial_cash ELSE 0
CashBooked(a, t) == cashAsOf[a][t] = Deposited(a, t) + SumFunctionOnSet(CashMoved, FillsUpTo(a, t))
SharesBooked(a, s, t) ==
    positionAsOf[a][s][t] = SumFunctionOnSet(SharesMoved(s), FillsUpTo(a, t))
Booked ==
    /\ IsFiniteSet(DOMAIN fills)
    /\ \A a \in Accounts, t \in Times : CashBooked(a, t) /\ \A s \in Symbols : SharesBooked(a, s, t)

(* One more key in a table adds its value to the sums that include it.     *)
LEMMA SumExtended ==
    ASSUME NEW D, IsFiniteSet(D), NEW id, id \notin D, NEW v, NEW w,
           \A x \in D : w[x] = v[x], \A x \in D \cup {id} : w[x] \in Int,
           NEW U \in SUBSET D
    PROVE  /\ SumFunctionOnSet(w, U) = SumFunctionOnSet(v, U)
           /\ SumFunctionOnSet(w, U \cup {id}) = SumFunctionOnSet(v, U) + w[id]
<1>1. IsFiniteSet(U)
  BY FS_Subset
<1>2. SumFunctionOnSet(w, U) = SumFunctionOnSet(v, U)
  BY <1>1, SumOfEqual
<1>3. SumFunctionOnSet(w, U \cup {id}) = SumFunctionOnSet(w, U) + w[id]
  <2>1. id \notin U /\ \A x \in U \cup {id} : w[x] \in Int
    OBVIOUS
  <2> QED BY <1>1, <2>1, SumWith
<1> QED BY <1>2, <1>3

LEMMA MovesType ==
    ASSUME TypeOK, NEW f \in DOMAIN fills
    PROVE  CashMoved[f] \in Int /\ \A s \in Symbols : SharesMoved(s)[f] \in Int
<1>1. fills[f] \in Fill
  BY DEF TypeOK, IsTable
<1>2. CashDelta(fills[f]) \in Int /\ PositionDelta(fills[f]) \in Int
  BY <1>1, DeltasType
<1> QED BY <1>2 DEF CashMoved, SharesMoved

LEMMA InitBooked == Init => Booked
<1>1. SUFFICES ASSUME Init PROVE Booked
  OBVIOUS
<1>2. DOMAIN fills = {} /\ DOMAIN accounts = {}
  BY <1>1 DEF Init
<1>3. IsFiniteSet(DOMAIN fills)
  BY <1>2, FS_EmptySet
<1>4. ASSUME NEW a \in Accounts, NEW t \in Times
      PROVE  CashBooked(a, t) /\ \A s \in Symbols : SharesBooked(a, s, t)
  <2>1. FillsUpTo(a, t) = {}
    BY <1>2 DEF FillsUpTo
  <2>2. /\ SumFunctionOnSet(CashMoved, FillsUpTo(a, t)) = 0
        /\ \A s \in Symbols : SumFunctionOnSet(SharesMoved(s), FillsUpTo(a, t)) = 0
    BY <2>1, SumOfNothing
  <2>3. Deposited(a, t) = 0
    BY <1>2 DEF Deposited
  <2>4. cashAsOf[a][t] = 0 /\ \A s \in Symbols : positionAsOf[a][s][t] = 0
    BY <1>1 DEF Init
  <2> QED BY <2>2, <2>3, <2>4 DEF CashBooked, SharesBooked
<1> QED BY <1>3, <1>4 DEF Booked

(* What the fills of an account move does not change while no fill is      *)
(* recorded.                                                               *)
LEMMA SameFillsBooked ==
    ASSUME Booked, UNCHANGED <<accounts, fills, balances>>
    PROVE  Booked'
BY DEF Booked, CashBooked, SharesBooked, Deposited, CashMoved, SharesMoved, FillsUpTo, balances

LEMMA DepositBooked ==
    ASSUME TypeOK, Booked, NEW a \in Accounts, NEW cash, NEW at \in Times,
           CreateAccount(a, cash, at)
    PROVE  Booked'
<1>1. cash \in Nat /\ a \notin DOMAIN accounts
  BY DEF CreateAccount, AccountOutcome, Submit
<1>2. UNCHANGED <<fills, positionAsOf>>
  BY DEF CreateAccount
<1>3. ASSUME NEW b \in Accounts, NEW t \in Times
      PROVE  CashBooked(b, t)' /\ \A s \in Symbols : SharesBooked(b, s, t)'
  <2>1. /\ SumFunctionOnSet(CashMoved, FillsUpTo(b, t))' = SumFunctionOnSet(CashMoved, FillsUpTo(b, t))
        /\ \A s \in Symbols : SumFunctionOnSet(SharesMoved(s), FillsUpTo(b, t))'
                                = SumFunctionOnSet(SharesMoved(s), FillsUpTo(b, t))
    BY <1>2 DEF CashMoved, SharesMoved, FillsUpTo
  <2>2. \A s \in Symbols : SharesBooked(b, s, t)'
    BY <1>2, <2>1 DEF SharesBooked, Booked
  <2>3. cashAsOf[b][t] = Deposited(b, t) + SumFunctionOnSet(CashMoved, FillsUpTo(b, t))
    BY DEF Booked, CashBooked
  <2>4. SumFunctionOnSet(CashMoved, FillsUpTo(b, t)) \in Int
    <3>1. FillsUpTo(b, t) \in SUBSET DOMAIN fills
      BY DEF FillsUpTo
    <3>2. \A f \in FillsUpTo(b, t) : CashMoved[f] \in Int
      BY <3>1, MovesType
    <3> QED BY <3>1, <3>2, SumIsInt, FS_Subset DEF Booked
  <2>5. cashAsOf'[b][t] = IF b = a /\ at <= t THEN cashAsOf[b][t] + cash ELSE cashAsOf[b][t]
    <3>1. cashAsOf' = [cashAsOf EXCEPT ![a] = Accrue(cashAsOf[a], at, cash)]
      BY DEF CreateAccount
    <3> QED BY <3>1 DEF Accrue, TypeOK, Times
  <2>6. Deposited(b, t)' = IF b = a /\ at <= t THEN cash ELSE Deposited(b, t)
    <3>1. accounts' = Put(accounts, a, [created_at |-> at, initial_cash |-> cash])
      BY DEF CreateAccount
    <3>2. /\ DOMAIN accounts' = DOMAIN accounts \cup {a}
          /\ accounts'[a] = [created_at |-> at, initial_cash |-> cash]
          /\ \A k \in DOMAIN accounts : k # a => accounts'[k] = accounts[k]
      BY <3>1 DEF Put
    <3> QED BY <1>1, <3>2 DEF Deposited
  <2>7. b = a => Deposited(b, t) = 0
    BY <1>1 DEF Deposited
  <2>8. Deposited(b, t) \in Int
    BY DEF Deposited, TypeOK, IsTable, Account
  <2> QED BY <1>1, <2>1, <2>2, <2>3, <2>4, <2>5, <2>6, <2>7, <2>8 DEF CashBooked
<1> QED BY <1>2, <1>3 DEF Booked

(* A fill adds what it moved to the sums of its own account from its own   *)
(* instant on, and nothing to any other.                                   *)
LEMMA FillBooked ==
    ASSUME TypeOK, Booked, NEW i \in FillIds, NEW o \in OrderIds, NEW price, NEW fee, NEW tax,
           NEW observed_at \in Times, NEW filled_at \in Times,
           AppendFill(i, o, price, fee, tax, observed_at, filled_at)
    PROVE  Booked'
<1>0. PICK row : row = FillRow(o, price, fee, tax, observed_at, filled_at)
  OBVIOUS
<1>1. price \in Nat /\ fee \in Nat /\ tax \in Nat /\ o \in DOMAIN orders /\ i \notin DOMAIN fills
  BY SubmitInserted DEF AppendFill, FillOutcome
<1>2. row \in Fill /\ CashDelta(row) \in Int /\ PositionDelta(row) \in Int
  BY <1>0, <1>1, FillRowType
<1>3. row.account \in Accounts /\ row.symbol \in Symbols /\ row.filled_at = filled_at
  BY <1>0, <1>2 DEF Fill, FillRow
<1>4. /\ fills' = Put(fills, i, row)
      /\ cashAsOf' = [cashAsOf EXCEPT ![row.account] =
                        Accrue(cashAsOf[row.account], filled_at, CashDelta(row))]
      /\ positionAsOf' = [positionAsOf EXCEPT ![row.account][row.symbol] =
            Accrue(positionAsOf[row.account][row.symbol], filled_at, PositionDelta(row))]
      /\ accounts' = accounts
  BY <1>0 DEF AppendFill
<1>5. /\ DOMAIN fills' = DOMAIN fills \cup {i}
      /\ fills'[i] = row
      /\ \A f \in DOMAIN fills : fills'[f] = fills[f]
  BY <1>1, <1>4 DEF Put
<1>6. IsFiniteSet(DOMAIN fills) /\ IsFiniteSet(DOMAIN fills')
  BY <1>5, FS_AddElement DEF Booked
<1>7. ASSUME NEW b \in Accounts, NEW t \in Times
      PROVE  CashBooked(b, t)' /\ \A s \in Symbols : SharesBooked(b, s, t)'
  <2>1. FillsUpTo(b, t)' = IF b = row.account /\ filled_at <= t
                           THEN FillsUpTo(b, t) \cup {i} ELSE FillsUpTo(b, t)
    BY <1>1, <1>3, <1>5 DEF FillsUpTo
  <2>2. FillsUpTo(b, t) \in SUBSET DOMAIN fills
    BY DEF FillsUpTo
  <2>3. CashBooked(b, t)'
    <3>1. PICK v : v = CashMoved
      OBVIOUS
    <3>2. PICK w : w = CashMoved'
      OBVIOUS
    <3>3. /\ \A f \in DOMAIN fills : w[f] = v[f] /\ v[f] \in Int
          /\ w[i] = CashDelta(row)
      BY <3>1, <3>2, <1>5, MovesType DEF CashMoved
    <3>4. /\ SumFunctionOnSet(w, FillsUpTo(b, t)) = SumFunctionOnSet(v, FillsUpTo(b, t))
          /\ SumFunctionOnSet(w, FillsUpTo(b, t) \cup {i})
               = SumFunctionOnSet(v, FillsUpTo(b, t)) + CashDelta(row)
      <4>1. \A f \in DOMAIN fills \cup {i} : w[f] \in Int
        BY <1>2, <3>3
      <4>2. \A f \in DOMAIN fills : w[f] = v[f]
        BY <3>3
      <4>3. /\ SumFunctionOnSet(w, FillsUpTo(b, t)) = SumFunctionOnSet(v, FillsUpTo(b, t))
            /\ SumFunctionOnSet(w, FillsUpTo(b, t) \cup {i})
                 = SumFunctionOnSet(v, FillsUpTo(b, t)) + w[i]
        <5>1. PICK D : D = DOMAIN fills
          OBVIOUS
        <5>2. PICK U : U = FillsUpTo(b, t)
          OBVIOUS
        <5>3. IsFiniteSet(D) /\ i \notin D /\ U \in SUBSET D
          BY <1>1, <1>6, <2>2, <5>1, <5>2
        <5>4. (\A x \in D : w[x] = v[x]) /\ (\A x \in D \cup {i} : w[x] \in Int)
          BY <4>1, <4>2, <5>1
        <5>5. /\ SumFunctionOnSet(w, U) = SumFunctionOnSet(v, U)
              /\ SumFunctionOnSet(w, U \cup {i}) = SumFunctionOnSet(v, U) + w[i]
          BY <5>3, <5>4, SumExtended
        <5> QED BY <5>2, <5>5
      <4> QED BY <3>3, <4>3
    <3>5. SumFunctionOnSet(v, FillsUpTo(b, t)) \in Int
      BY <1>6, <2>2, <3>3, FS_Subset, SumIsInt
    <3>6. cashAsOf'[b][t] = IF b = row.account /\ filled_at <= t
                            THEN cashAsOf[b][t] + CashDelta(row) ELSE cashAsOf[b][t]
      <4>1. /\ cashAsOf[row.account] \in [Times -> Int]
            /\ cashAsOf \in [Accounts -> [Times -> Int]]
        BY <1>3 DEF TypeOK
      <4>2. Accrue(cashAsOf[row.account], filled_at, CashDelta(row))[t] =
              IF filled_at <= t THEN cashAsOf[row.account][t] + CashDelta(row)
                                ELSE cashAsOf[row.account][t]
        BY <1>2, <4>1, AccruedAt
      <4> QED BY <1>3, <1>4, <4>1, <4>2
    <3>7. cashAsOf[b][t] = Deposited(b, t) + SumFunctionOnSet(v, FillsUpTo(b, t))
      BY <3>1 DEF Booked, CashBooked
    <3>8. Deposited(b, t)' = Deposited(b, t) /\ Deposited(b, t) \in Int
      BY <1>4 DEF Deposited, TypeOK, IsTable, Account
    <3>9. cashAsOf'[b][t] = Deposited(b, t) + SumFunctionOnSet(w, FillsUpTo(b, t)')
      BY <1>2, <2>1, <3>4, <3>5, <3>6, <3>7, <3>8
    <3> QED BY <3>2, <3>8, <3>9 DEF CashBooked
  <2>4. ASSUME NEW s \in Symbols PROVE SharesBooked(b, s, t)'
    <3>1. PICK v : v = SharesMoved(s)
      OBVIOUS
    <3>2. PICK w : w = SharesMoved(s)'
      OBVIOUS
    <3>3. /\ \A f \in DOMAIN fills : w[f] = v[f] /\ v[f] \in Int
          /\ w[i] = IF row.symbol = s THEN PositionDelta(row) ELSE 0
      BY <3>1, <3>2, <1>5, MovesType DEF SharesMoved
    <3>4. /\ SumFunctionOnSet(w, FillsUpTo(b, t)) = SumFunctionOnSet(v, FillsUpTo(b, t))
          /\ SumFunctionOnSet(w, FillsUpTo(b, t) \cup {i})
               = SumFunctionOnSet(v, FillsUpTo(b, t)) + w[i]
      <4>1. \A f \in DOMAIN fills \cup {i} : w[f] \in Int
        BY <1>2, <3>3
      <4>2. \A f \in DOMAIN fills : w[f] = v[f]
        BY <3>3
      <4>3. /\ SumFunctionOnSet(w, FillsUpTo(b, t)) = SumFunctionOnSet(v, FillsUpTo(b, t))
            /\ SumFunctionOnSet(w, FillsUpTo(b, t) \cup {i})
                 = SumFunctionOnSet(v, FillsUpTo(b, t)) + w[i]
        <5>1. PICK D : D = DOMAIN fills
          OBVIOUS
        <5>2. PICK U : U = FillsUpTo(b, t)
          OBVIOUS
        <5>3. IsFiniteSet(D) /\ i \notin D /\ U \in SUBSET D
          BY <1>1, <1>6, <2>2, <5>1, <5>2
        <5>4. (\A x \in D : w[x] = v[x]) /\ (\A x \in D \cup {i} : w[x] \in Int)
          BY <4>1, <4>2, <5>1
        <5>5. /\ SumFunctionOnSet(w, U) = SumFunctionOnSet(v, U)
              /\ SumFunctionOnSet(w, U \cup {i}) = SumFunctionOnSet(v, U) + w[i]
          BY <5>3, <5>4, SumExtended
        <5> QED BY <5>2, <5>5
      <4> QED BY <3>3, <4>3
    <3>5. SumFunctionOnSet(v, FillsUpTo(b, t)) \in Int
      BY <1>6, <2>2, <3>3, FS_Subset, SumIsInt
    <3>6. positionAsOf'[b][s][t] =
            IF b = row.account /\ s = row.symbol /\ filled_at <= t
            THEN positionAsOf[b][s][t] + PositionDelta(row) ELSE positionAsOf[b][s][t]
      <4>1. /\ positionAsOf[row.account][row.symbol] \in [Times -> Int]
            /\ positionAsOf \in [Accounts -> [Symbols -> [Times -> Int]]]
        BY <1>3 DEF TypeOK
      <4>2. Accrue(positionAsOf[row.account][row.symbol], filled_at, PositionDelta(row))[t] =
              IF filled_at <= t THEN positionAsOf[row.account][row.symbol][t] + PositionDelta(row)
                                ELSE positionAsOf[row.account][row.symbol][t]
        BY ZenonT(40), <1>2, <4>1, AccruedAt
      <4> QED BY <1>3, <1>4, <4>1, <4>2
    <3>7. positionAsOf[b][s][t] = SumFunctionOnSet(v, FillsUpTo(b, t))
      BY <3>1 DEF Booked, SharesBooked
    <3>8. positionAsOf'[b][s][t] = SumFunctionOnSet(w, FillsUpTo(b, t)')
      BY <1>2, <2>1, <3>3, <3>4, <3>5, <3>6, <3>7
    <3> QED BY <3>2, <3>8 DEF SharesBooked
  <2> QED BY <2>3, <2>4
<1> QED BY <1>6, <1>7 DEF Booked

LEMMA BookedStep == TypeOK /\ Booked /\ [Next]_ledger => Booked'
<1>1. SUFFICES ASSUME TypeOK, Booked, [Next]_ledger PROVE Booked'
  OBVIOUS
<1>2. CASE UNCHANGED ledger
  BY <1>1, <1>2, SameFillsBooked DEF ledger
<1>3. CASE SwitchCalls
  <2>1. ASSUME NEW a \in Accounts, NEW at \in Times, NEW cash, CreateAccount(a, cash, at)
        PROVE  Booked'
    BY <1>1, <2>1, DepositBooked
  <2>2. ASSUME NEW a \in Accounts, NEW at \in Times, NEW id, NEW type,
               AppendAccountEvent(id, a, type, at) \/ AppendKillSwitchEvent(id, a, type, at)
        PROVE  Booked'
    BY <1>1, <2>2, SameFillsBooked DEF AppendAccountEvent, AppendKillSwitchEvent
  <2> QED BY <1>3, <2>1, <2>2 DEF SwitchCalls
<1>4. CASE ChainCalls
  <2>1. ASSUME NEW d, NEW row, AppendAgentDecision(d, row)
        PROVE  UNCHANGED <<accounts, fills, balances>>
    BY <2>1 DEF AppendAgentDecision
  <2>2. ASSUME NEW p, NEW d, NEW side, NEW target, NEW key, NEW at,
               AppendOrderProposal(p, d, side, target, key, at)
        PROVE  UNCHANGED <<accounts, fills, balances>>
    BY <2>2 DEF AppendOrderProposal
  <2>3. ASSUME NEW r, NEW row, AppendRiskReview(r, row)
        PROVE  UNCHANGED <<accounts, fills, balances>>
    BY <2>3 DEF AppendRiskReview
  <2>4. ASSUME NEW o, NEW r, NEW key, NEW at, AppendOrder(o, r, key, at)
        PROVE  UNCHANGED <<accounts, fills, balances>>
    BY <2>4 DEF AppendOrder
  <2>5. UNCHANGED <<accounts, fills, balances>>
    BY <1>4, <2>1, <2>2, <2>3, <2>4 DEF ChainCalls
  <2> QED BY <1>1, <2>5, SameFillsBooked
<1>5. CASE OrderCalls
  <2>1. ASSUME NEW o \in OrderIds, NEW at \in Times, NEW id, NEW type,
               AppendOrderEvent(id, o, type, at)
        PROVE  Booked'
    BY <1>1, <2>1, SameFillsBooked DEF AppendOrderEvent
  <2>2. ASSUME NEW o \in OrderIds, NEW at \in Times, NEW i \in FillIds, NEW price, NEW fee,
               NEW tax, NEW observed_at \in Times,
               AppendFill(i, o, price, fee, tax, observed_at, at)
        PROVE  Booked'
    BY <1>1, <2>2, FillBooked
  <2> QED BY <1>5, <2>1, <2>2 DEF OrderCalls
<1>6. CASE NavCalls
  BY <1>1, <1>6, SameFillsBooked DEF NavCalls, AppendNavSnapshot
<1> QED BY <1>1, <1>2, <1>3, <1>4, <1>5, <1>6 DEF Next

(* At every instant the cash and the holdings the ledger reports are the   *)
(* deposit and exactly what its fills moved, each fill charged once.       *)
THEOREM BalancesConserved == Spec => []Conservation
<1>1. Booked /\ TypeOK => Conservation
  <2>1. SUFFICES ASSUME Booked, TypeOK, NEW a \in DOMAIN accounts, NEW t \in Times
                 PROVE  /\ cashAsOf[a][t] =
                             (IF accounts[a].created_at <= t THEN accounts[a].initial_cash ELSE 0)
                               + SumFunctionOnSet(CashMoved, FillsUpTo(a, t))
                        /\ \A s \in Symbols : positionAsOf[a][s][t]
                             = SumFunctionOnSet(SharesMoved(s), FillsUpTo(a, t))
    BY DEF Conservation
  <2>2. a \in Accounts
    BY <2>1 DEF TypeOK, IsTable
  <2> QED BY <2>1, <2>2 DEF Booked, CashBooked, SharesBooked, Deposited
<1> QED BY <1>1, InitBooked, BookedStep, TypeCorrect, PTL DEF Spec
=============================================================================

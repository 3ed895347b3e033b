------------------------------- MODULE DryRun -------------------------------
(***************************************************************************)
(* The forecast dry run: the timer's wrapper refreshes the price bars in   *)
(* Redis and runs a cycle (scripts/deploy/kronostock-dry-run-once.sh), the *)
(* jobs of the scheduler service run one without refreshing (bot/          *)
(* scheduler.py).  A cycle forecasts the watchlist (inference/forecast_    *)
(* runner.py), turns the forecasts into signals (strategy/analyzer.py),    *)
(* trades the portfolio it loaded from Redis (strategy/paper_trader.py),   *)
(* saves it and sends a digest.  Nothing excludes two cycles from each     *)
(* other, and every call of Redis may fail.                                *)
(*                                                                         *)
(* A forecast is abstracted to the signs that decide its signal; amounts   *)
(* are integers, so the rounding of floats is left out.                    *)
(*                                                                         *)
(* Bound of the model: MaxCycles cycles.                                   *)
(***************************************************************************)
EXTENDS Integers, Sequences, Functions, FiniteSetsExt

CONSTANTS
    Watchlist,        \* the symbols as configured, in their order; one may be repeated
    Jobs, Refreshers, \* who runs cycles, and which of them refresh the bars
    Prices,           \* closes, 0 included: a vendor's row may hold anything
    DefaultCash, MinOrderCash,
    PctNum, PctDen,   \* max_position_pct
    MaxCycles

Symbols == {Watchlist[i] : i \in 1 .. Len(Watchlist)}

ASSUME DryRunAssumption ==
    /\ Refreshers \subseteq Jobs /\ Prices \subseteq Nat
    /\ Watchlist \in Seq(Symbols) /\ DefaultCash \in Nat /\ MinOrderCash \in Nat
    /\ PctNum \in Nat \ {0} /\ PctDen \in Nat \ {0} /\ PctNum <= PctDen

VARIABLES
    ohlcv,   \* [symbol -> {close}, or {}]: the last of the bars in Redis
    job,     \* [Jobs -> [at, done, signals, book]]
    saved,   \* the portfolios saved, in their order; Redis holds the last
    told,    \* the portfolios of the digests that were sent
    cycles   \* how many cycles have begun

vars == <<ohlcv, job, saved, told, cycles>>

(* A portfolio; base, signals: what it was made of. *)
Book(cash, held, base) == [cash |-> cash, held |-> held, orders |-> << >>, base |-> base, signals |-> << >>]
Default == Book(DefaultCash, [s \in Symbols |-> 0], 0)
Off     == [at |-> "off", done |-> 0, signals |-> << >>, book |-> Default]

Init ==
    /\ ohlcv = [s \in Symbols |-> {}] /\ job = [j \in Jobs |-> Off]
    /\ saved = << >> /\ told = {} /\ cycles = 0

At(j, stage) == job[j].at = stage

Begin(j) ==
    /\ At(j, "off") /\ cycles < MaxCycles
    /\ cycles' = cycles + 1
    /\ job' = [job EXCEPT ![j] = [Off EXCEPT !.at = IF j \in Refreshers THEN "refresh" ELSE "forecast"]]
    /\ UNCHANGED <<ohlcv, saved, told>>

(* The watchlist is worked off symbol by symbol. *)
Working(j, stage) == At(j, stage) /\ job[j].done < Len(Watchlist)
Over(j, stage)    == At(j, stage) /\ job[j].done = Len(Watchlist)
Following(j)      == Watchlist[job[j].done + 1]
Turn(j, from, to) == Over(j, from) /\ job' = [job EXCEPT ![j].at = to, ![j].done = 0]

-----------------------------------------------------------------------------
(* The bars.  fetch_daily_ohlcv asks Toss, KIS and FinanceDataReader in    *)
(* turn, as the provider setting says, and the last may fail as well.  The *)
(* last row may be of any day, or there may be none: nothing compares its  *)
(* date with today, and an empty frame replaces earlier bars like any      *)
(* other.  load_ohlcv_from_redis tells it from a missing key no more than  *)
(* the model does: it raises for both.                                     *)
Fetched == {{}} \cup {{close} : close \in Prices}

(* buffer_to_redis sets a time to live: it bounds how long ago the bars    *)
(* were fetched, not how old they are.                                     *)
Expire(s) == ohlcv' = [ohlcv EXCEPT ![s] = {}] /\ UNCHANGED <<job, saved, told, cycles>>

(* fetch_watchlist: what was fetched is buffered; a symbol that fails keeps *)
(* its earlier bars.                                                       *)
Refresh(j) ==
    /\ Working(j, "refresh")
    /\ \E bars \in Fetched \cup {ohlcv[Following(j)]} :
         ohlcv' = [ohlcv EXCEPT ![Following(j)] = bars]
    /\ job' = [job EXCEPT ![j].done = @ + 1]
    /\ UNCHANGED <<saved, told, cycles>>

Refreshed(j) == Turn(j, "refresh", "forecast") /\ UNCHANGED <<ohlcv, saved, told, cycles>>

(* predict_probabilistic: of the sampled paths, the median's return and    *)
(* the share that ends above the last close; the two cannot contradict     *)
(* each other.  A close of 0 has no expected return.                       *)
Outlooks(close) ==
    {[expected |-> "flat", up |-> u] : u \in {"likely", "even", "unlikely"}} \cup
    (IF close = 0 THEN {}
     ELSE {[expected |-> "rise", up |-> u] : u \in {"likely", "even"}} \cup
          {[expected |-> "fall", up |-> u] : u \in {"unlikely", "even"}})

(* analyze_forecast *)
Action(outlook) ==
    CASE outlook.expected = "rise" /\ outlook.up = "likely"   -> "BUY"
      [] outlook.expected = "fall" \/ outlook.up = "unlikely" -> "SELL"
      [] OTHER                                               -> "HOLD"

(* The signals are a dictionary in the order of its first insertions.      *)
Coded(signals, s) == {i \in DOMAIN signals : signals[i].code = s}
Put(signals, g) ==
    IF Coded(signals, g.code) = {} THEN Append(signals, g)
    ELSE [i \in DOMAIN signals |-> IF signals[i].code = g.code THEN g ELSE signals[i]]

(* run_watchlist_forecast: a symbol that fails, or has no bars, is left out. *)
Forecast(j) ==
    /\ Working(j, "forecast")
    /\ \/ job' = [job EXCEPT ![j].done = @ + 1]
       \/ \E close \in ohlcv[Following(j)] : \E outlook \in Outlooks(close) :
             job' = [job EXCEPT ![j].done = @ + 1,
                       ![j].signals = Put(@, [code |-> Following(j), action |-> Action(outlook), price |-> close])]
    /\ UNCHANGED <<ohlcv, saved, told, cycles>>

Forecasted(j) == Turn(j, "forecast", "load") /\ UNCHANGED <<ohlcv, saved, told, cycles>>

(* load_paper_portfolio: no portfolio, no Redis or an invalid snapshot     *)
(* are the default; the orders are not restored.                           *)
Load(j) ==
    /\ At(j, "load")
    /\ \E base \in {0, Len(saved)} :
         job' = [job EXCEPT ![j].at = "trade",
                   ![j].book = IF base = 0 THEN Default ELSE Book(saved[base].cash, saved[base].held, base)]
    /\ UNCHANGED <<ohlcv, saved, told, cycles>>

-----------------------------------------------------------------------------
(***************************************************************************)
(* strategy/paper_trader.py                                                *)
(***************************************************************************)
PriceOf(signals, s) ==
    IF Coded(signals, s) = {} THEN 0 ELSE signals[CHOOSE i \in Coded(signals, s) : TRUE].price

(* A holding without a price counts for nothing. *)
MarketValue(book, signals) ==
    book.cash + SumFunctionOnSet([s \in Symbols |-> book.held[s] * PriceOf(signals, s)], Symbols)

Order(signal, side, quantity) ==
    [code |-> signal.code, side |-> side, quantity |-> quantity, price |-> signal.price]

Sell(book, signal) ==
    [book EXCEPT !.cash = @ + book.held[signal.code] * signal.price,
                 !.held[signal.code] = 0,
                 !.orders = Append(@, Order(signal, "SELL", book.held[signal.code]))]

QuantityAnew(book, signal, total) ==  \* mutant: up to the target at every signal
    Min({(total * PctNum) \div (PctDen * signal.price), book.cash \div signal.price})
Quantity(book, signal, total) ==
    Min({(total * PctNum) \div (PctDen * signal.price) - book.held[signal.code],
         book.cash \div signal.price})

WorthBuying(book, signal, total) ==
    /\ total * PctNum - PctDen * book.held[signal.code] * signal.price >= PctDen * MinOrderCash
    /\ book.cash >= MinOrderCash /\ Quantity(book, signal, total) > 0

Buy(book, signal, quantity) ==
    [book EXCEPT !.cash = @ - quantity * signal.price,
                 !.held[signal.code] = @ + quantity,
                 !.orders = Append(@, Order(signal, "BUY", quantity))]

ApplySignal(book, signal, signals) ==
    LET total == MarketValue(book, signals) IN
    CASE signal.action = "SELL" /\ book.held[signal.code] > 0   -> Sell(book, signal)
      [] signal.action = "BUY" /\ WorthBuying(book, signal, total) ->
             Buy(book, signal, Quantity(book, signal, total))
      [] OTHER                                                  -> book

(* apply_signals: one signal after the other on the same portfolio.  A     *)
(* price of 0 raises, whatever the signal, and ends the cycle.             *)
Trade(j) ==
    /\ At(j, "trade") /\ job[j].done < Len(job[j].signals)
    /\ LET signal == job[j].signals[job[j].done + 1] IN
       job' = IF signal.price = 0 THEN [job EXCEPT ![j] = Off]
              ELSE [job EXCEPT ![j].done = @ + 1,
                               ![j].book = ApplySignal(@, signal, job[j].signals)]
    /\ UNCHANGED <<ohlcv, saved, told, cycles>>

Traded(j) ==
    /\ At(j, "trade") /\ job[j].done = Len(job[j].signals)
    /\ job' = [job EXCEPT ![j] = [Off EXCEPT !.at = "save",
                                             !.book = [job[j].book EXCEPT !.signals = job[j].signals]]]
    /\ UNCHANGED <<ohlcv, saved, told, cycles>>

-----------------------------------------------------------------------------
SaveMerged(j) ==  \* mutant: cash and holdings are two keys, and holdings are merged
    /\ At(j, "save")
    /\ saved' = Append(saved, IF saved = << >> THEN job[j].book
                              ELSE [job[j].book EXCEPT !.held = [s \in Symbols |->
                                      IF @[s] = 0 THEN saved[Len(saved)].held[s] ELSE @[s]]])
    /\ job' = [job EXCEPT ![j].at = "tell"]
    /\ UNCHANGED <<ohlcv, told, cycles>>
(* save_paper_portfolio: one key, one SET *)
Save(j) ==
    /\ At(j, "save")
    /\ saved' = Append(saved, job[j].book)
    /\ job' = [job EXCEPT ![j].at = "tell"]
    /\ UNCHANGED <<ohlcv, told, cycles>>

Tell(j) ==
    /\ At(j, "tell")
    /\ told' = told \cup {job[j].book}
    /\ job' = [job EXCEPT ![j] = Off]
    /\ UNCHANGED <<ohlcv, saved, cycles>>

(* A call raises, or the process is killed: what was saved stays. *)
Fails(j) == ~At(j, "off") /\ job' = [job EXCEPT ![j] = Off] /\ UNCHANGED <<ohlcv, saved, told, cycles>>

JobNext(j) ==
    \/ Begin(j) \/ Refresh(j) \/ Refreshed(j) \/ Forecast(j) \/ Forecasted(j)
    \/ Load(j) \/ Trade(j) \/ Traded(j) \/ Save(j) \/ Tell(j) \/ Fails(j)

Next == (\E s \in Symbols : Expire(s)) \/ \E j \in Jobs : JobNext(j)

Spec == Init /\ [][Next]_vars

-----------------------------------------------------------------------------
(***************************************************************************)
(* Properties                                                              *)
(***************************************************************************)
Saved == {saved[i] : i \in 1 .. Len(saved)}

(* What the orders of a cycle moved of a symbol, and paid.                 *)
Signed(o)      == IF o.side = "BUY" THEN o.quantity ELSE -o.quantity
Flow(b, s)     == SumFunctionOnSet([i \in DOMAIN b.orders |->
                                       IF b.orders[i].code = s THEN Signed(b.orders[i]) ELSE 0], DOMAIN b.orders)
Payments(b)    == SumFunctionOnSet([i \in DOMAIN b.orders |-> Signed(b.orders[i]) * b.orders[i].price], DOMAIN b.orders)
BaseOf(b)      == IF b.base = 0 THEN Default ELSE saved[b.base]

(* However cycles overlap, a saved portfolio is what one cycle's orders    *)
(* made of one earlier portfolio: never the cash of one cycle with the     *)
(* holdings of another.  (It may be the portfolio of an earlier cycle than *)
(* the last: overlapping cycles lose the orders of the one saved first.)   *)
(* Neither cash nor a holding is ever negative in it.                      *)
Conserved ==
    \A n \in 1 .. Len(saved) : LET b == saved[n] IN
        /\ b.base \in 0 .. n - 1
        /\ b.cash \in Nat /\ b.held \in [Symbols -> Nat]
        /\ b.cash + Payments(b) = BaseOf(b).cash
        /\ \A s \in Symbols : b.held[s] = BaseOf(b).held[s] + Flow(b, s)

(* A purchase leaves the symbol within its share of the portfolio, and     *)
(* holdings without a price err on the safe side.                          *)
PurchaseWithinCap ==
    \A b \in Saved : \A i \in 1 .. Len(b.orders) :
        LET o == b.orders[i] IN
        o.side = "BUY" => PctDen * b.held[o.code] * o.price <= PctNum * MarketValue(b, b.signals)
=============================================================================

---------------------------- MODULE DryRunProofs ----------------------------
(***************************************************************************)
(* For every watchlist, any number of jobs that overlap in any way, and    *)
(* wherever Redis or a vendor fails: a saved portfolio is what one cycle's *)
(* orders made of one earlier portfolio, its purchases are within their    *)
(* share of it, and what was reported was saved.                           *)
(*                                                                         *)
(* The argument: an order exchanges cash for shares at the price the       *)
(* portfolio is valued at, so while a cycle trades, the portfolio's value, *)
(* the cash before its payments and the holdings before its orders stay    *)
(* what they were (Exchange).  A symbol has one signal, so what a purchase *)
(* made of a holding no later signal of the cycle changes.                 *)
(***************************************************************************)
EXTENDS DryRun, SumProofs, TLAPS

-----------------------------------------------------------------------------
(***************************************************************************)
(* Arithmetic and sums.                                                    *)
(***************************************************************************)
LEMMA MinOfTwo ==
    ASSUME NEW a \in Int, NEW b \in Int
    PROVE  Min({a, b}) \in Int /\ Min({a, b}) <= a /\ Min({a, b}) <= b
<1>1. \E x \in {a, b} : \A y \in {a, b} : x <= y
  OBVIOUS
<1>2. Min({a, b}) \in {a, b} /\ \A y \in {a, b} : Min({a, b}) <= y
  BY <1>1 DEF Min
<1> QED BY <1>2

(* Rounding down solves an inequality. *)
LEMMA RoundedDown ==
    ASSUME NEW a \in Nat, NEW d \in Nat \ {0}, NEW n \in Int, n <= a \div d
    PROVE  n * d <= a
<1>1. a \div d \in Int /\ (a \div d) * d <= a
  BY Z3
<1>2. n * d <= (a \div d) * d
  BY <1>1
<1> QED BY <1>1, <1>2

(* One more term at the end of a sequence. *)
LEMMA SumAppended ==
    ASSUME NEW n \in Nat, NEW v, NEW w, \A i \in 1 .. n : v[i] \in Int /\ w[i] = v[i], w[n + 1] \in Int
    PROVE  /\ SumFunctionOnSet(v, 1 .. n) \in Int
           /\ SumFunctionOnSet(w, 1 .. (n + 1)) = SumFunctionOnSet(v, 1 .. n) + w[n + 1]
<1>1. IsFiniteSet(1 .. n)
  BY FS_Interval
<1>2. PICK e : e = n + 1
  OBVIOUS
<1>3. SumFunctionOnSet(w, 1 .. (n + 1)) = SumFunctionOnSet(w, 1 .. n) + w[n + 1]
  <2>1. e \notin 1 .. n /\ 1 .. (n + 1) = (1 .. n) \cup {e}
    BY <1>2
  <2>2. \A x \in (1 .. n) \cup {e} : w[x] \in Int
    BY <1>2
  <2>3. SumFunctionOnSet(w, (1 .. n) \cup {e}) = SumFunctionOnSet(w, 1 .. n) + w[e]
    BY <1>1, <2>1, <2>2, SumWith
  <2> QED BY <1>2, <2>1, <2>3
<1>4. SumFunctionOnSet(w, 1 .. n) = SumFunctionOnSet(v, 1 .. n)
  <2>1. \A x \in 1 .. n : w[x] = v[x]
    OBVIOUS
  <2> QED BY <1>1, <2>1, SumOfEqual
<1>5. SumFunctionOnSet(v, 1 .. n) \in Int
  BY <1>1, SumIsInt
<1> QED BY <1>3, <1>4, <1>5

(* One term changed. *)
Differ(v, w, S, c) ==
    /\ c \in S /\ \A x \in S : v[x] \in Int /\ w[x] \in Int
    /\ \A x \in S \ {c} : w[x] = v[x]

LEMMA SumChanged ==
    ASSUME NEW S, IsFiniteSet(S), NEW c, NEW v, NEW w, Differ(v, w, S, c)
    PROVE  /\ SumFunctionOnSet(v, S) \in Int
           /\ SumFunctionOnSet(w, S) = SumFunctionOnSet(v, S) + (w[c] - v[c])
<1>1. IsFiniteSet(S \ {c})
  BY FS_Subset
<1>2. SumFunctionOnSet(w, S \ {c}) = SumFunctionOnSet(v, S \ {c})
  BY <1>1, SumOfEqual DEF Differ
<1>3. SumFunctionOnSet(v, S \ {c}) \in Int
  BY <1>1, SumIsInt DEF Differ
<1>4. SumFunctionOnSet(v, S) = v[c] + SumFunctionOnSet(v, S \ {c})
  BY SumWithout DEF Differ
<1>5. SumFunctionOnSet(w, S) = w[c] + SumFunctionOnSet(w, S \ {c})
  BY SumWithout DEF Differ
<1>6. v[c] \in Int /\ w[c] \in Int
  BY DEF Differ
<1> QED BY <1>2, <1>3, <1>4, <1>5, <1>6

-----------------------------------------------------------------------------
(***************************************************************************)
(* The data: whole numbers.                                                *)
(***************************************************************************)
SignalSet == [code : Symbols, action : {"BUY", "SELL", "HOLD"}, price : Nat]
OrderSet  == [code : Symbols, side : {"BUY", "SELL"}, quantity : Nat, price : Nat]
BookSet   == [cash : Nat, held : [Symbols -> Nat], orders : Seq(OrderSet), base : Nat,
              signals : Seq(SignalSet)]
Stages    == {"off", "refresh", "forecast", "load", "trade", "save", "tell"}
JobSet    == [at : Stages, done : Nat, signals : Seq(SignalSet), book : BookSet]

OnePerSymbol(signals) ==
    \A i, k \in 1 .. Len(signals) : signals[i].code = signals[k].code => i = k

LEMMA WatchlistFacts ==
    /\ IsFiniteSet(Symbols) /\ Len(Watchlist) \in Nat
    /\ \A i \in 1 .. Len(Watchlist) : Watchlist[i] \in Symbols
<1>1. /\ Watchlist \in Seq(Symbols) /\ Symbols = {Watchlist[i] : i \in 1 .. Len(Watchlist)}
      /\ Len(Watchlist) \in Nat
  BY DryRunAssumption DEF Symbols
<1>2. Watchlist \in Surjection(1 .. Len(Watchlist), Symbols)
  BY <1>1 DEF Surjection
<1>3. IsFiniteSet(1 .. Len(Watchlist))
  BY <1>1, FS_Interval
<1>4. IsFiniteSet(Symbols)
  BY <1>2, <1>3, FS_Surjection DEF ExistsSurjection
<1> QED BY <1>1, <1>4

LEMMA DefaultTyped == Default \in BookSet /\ Off \in JobSet
<1>1. DefaultCash \in Nat
  BY DryRunAssumption
<1> QED BY <1>1 DEF Default, Off, Book, BookSet, JobSet, Stages

(* What was put is there, and a symbol still has one signal. *)
LEMMA PutKeepsOne ==
    ASSUME NEW signals \in Seq(SignalSet), OnePerSymbol(signals), NEW g \in SignalSet
    PROVE  Put(signals, g) \in Seq(SignalSet) /\ OnePerSymbol(Put(signals, g))
<1>1. DOMAIN signals = 1 .. Len(signals) /\ Len(signals) \in Nat
      /\ \A i \in 1 .. Len(signals) : signals[i] \in SignalSet
  OBVIOUS
<1>2. CASE Coded(signals, g.code) = {}
  <2> DEFINE new == Append(signals, g)
  <2>1. /\ new \in Seq(SignalSet) /\ Len(new) = Len(signals) + 1 /\ new[Len(signals) + 1] = g
        /\ \A i \in 1 .. Len(signals) : new[i] = signals[i]
    OBVIOUS
  <2>2. \A i \in 1 .. Len(signals) : signals[i].code # g.code
    BY <1>1, <1>2 DEF Coded
  <2>3. OnePerSymbol(new)
    <3> SUFFICES ASSUME NEW i \in 1 .. Len(signals) + 1, NEW k \in 1 .. Len(signals) + 1,
                        new[i].code = new[k].code
                 PROVE  i = k
      BY <2>1 DEF OnePerSymbol
    <3> HIDE DEF new
    <3>1. CASE i \in 1 .. Len(signals) /\ k \in 1 .. Len(signals)
      BY <2>1, <3>1 DEF OnePerSymbol
    <3>2. CASE i = Len(signals) + 1 /\ k \in 1 .. Len(signals)
      BY <2>1, <2>2, <3>2
    <3>3. CASE i \in 1 .. Len(signals) /\ k = Len(signals) + 1
      BY <2>1, <2>2, <3>3
    <3> QED BY <1>1, <3>1, <3>2, <3>3
  <2> QED BY <1>2, <2>1, <2>3 DEF Put
<1>3. CASE Coded(signals, g.code) # {}
  <2> DEFINE new == [i \in 1 .. Len(signals) |-> IF signals[i].code = g.code THEN g ELSE signals[i]]
  <2>1. new \in Seq(SignalSet) /\ Len(new) = Len(signals)
    BY <1>1
  <2>2. \A i \in 1 .. Len(signals) : new[i].code = signals[i].code
    OBVIOUS
  <2>3. OnePerSymbol(new)
    <3> HIDE DEF new
    <3> QED BY <2>1, <2>2 DEF OnePerSymbol
  <2> QED BY <1>1, <1>3, <2>1, <2>3 DEF Put
<1> QED BY <1>2, <1>3

(* The price of a symbol is that of its signal. *)
LEMMA PriceFacts ==
    ASSUME NEW signals \in Seq(SignalSet), OnePerSymbol(signals)
    PROVE  /\ \A s : PriceOf(signals, s) \in Nat
           /\ \A n \in 1 .. Len(signals) : PriceOf(signals, signals[n].code) = signals[n].price
<1>1. DOMAIN signals = 1 .. Len(signals) /\ \A i \in 1 .. Len(signals) : signals[i] \in SignalSet
  OBVIOUS
<1>2. ASSUME NEW s PROVE PriceOf(signals, s) \in Nat
  <2>1. CASE Coded(signals, s) = {}
    BY <2>1 DEF PriceOf
  <2>2. CASE Coded(signals, s) # {}
    <3>1. PICK i : i = CHOOSE k \in Coded(signals, s) : TRUE
      OBVIOUS
    <3>2. i \in 1 .. Len(signals)
      BY <1>1, <2>2, <3>1 DEF Coded
    <3> QED BY <1>1, <2>2, <3>1, <3>2 DEF PriceOf, SignalSet
  <2> QED BY <2>1, <2>2
<1>3. ASSUME NEW n \in 1 .. Len(signals) PROVE PriceOf(signals, signals[n].code) = signals[n].price
  <2>1. Coded(signals, signals[n].code) = {n}
    BY <1>1 DEF Coded, OnePerSymbol
  <2> QED BY <2>1 DEF PriceOf
<1> QED BY <1>2, <1>3

-----------------------------------------------------------------------------
(***************************************************************************)
(* What an order does to a portfolio.                                      *)
(***************************************************************************)
LEMMA SumsTyped ==
    ASSUME NEW b \in BookSet, NEW signals \in Seq(SignalSet), OnePerSymbol(signals)
    PROVE  /\ Payments(b) \in Int /\ \A s \in Symbols : Flow(b, s) \in Int
           /\ MarketValue(b, signals) \in Nat
<1>1. /\ DOMAIN b.orders = 1 .. Len(b.orders) /\ IsFiniteSet(1 .. Len(b.orders))
      /\ \A i \in 1 .. Len(b.orders) : b.orders[i] \in OrderSet
  <2>1. b.orders \in Seq(OrderSet)
    BY DEF BookSet
  <2> QED BY <2>1, FS_Interval
<1>2. \A i \in 1 .. Len(b.orders) : Signed(b.orders[i]) \in Int /\ Signed(b.orders[i]) * b.orders[i].price \in Int
  BY <1>1 DEF OrderSet, Signed
<1>3. Payments(b) \in Int
  BY <1>1, <1>2, SumIsInt DEF Payments
<1>4. ASSUME NEW s \in Symbols PROVE Flow(b, s) \in Int
  BY <1>1, <1>2, SumIsInt DEF Flow
<1>5. MarketValue(b, signals) \in Nat
  <2>1. \A s \in Symbols : b.held[s] \in Nat /\ PriceOf(signals, s) \in Nat
    BY PriceFacts DEF BookSet
  <2> DEFINE worth == [s \in Symbols |-> b.held[s] * PriceOf(signals, s)]
  <2>2. \A s \in Symbols : worth[s] \in Nat
    BY <2>1
  <2>3. SumFunctionOnSet(worth, Symbols) \in Nat
    <3> HIDE DEF worth
    <3> QED BY <2>2, WatchlistFacts, SumIsNat
  <2>4. b.cash \in Nat
    BY DEF BookSet
  <2> QED BY <2>3, <2>4 DEF MarketValue
<1> QED BY <1>3, <1>4, <1>5

(* An order appended is one more term of the sums over the orders. *)
LEMMA OneMoreOrder ==
    ASSUME NEW b \in BookSet, NEW o \in OrderSet, NEW x \in BookSet, x.orders = Append(b.orders, o)
    PROVE  /\ Payments(x) = Payments(b) + Signed(o) * o.price
           /\ \A s \in Symbols : Flow(x, s) = Flow(b, s) + (IF o.code = s THEN Signed(o) ELSE 0)
<1> DEFINE n == Len(b.orders)
<1>1. /\ b.orders \in Seq(OrderSet) /\ n \in Nat /\ DOMAIN b.orders = 1 .. n
      /\ DOMAIN x.orders = 1 .. (n + 1) /\ x.orders[n + 1] = o
      /\ \A i \in 1 .. n : b.orders[i] \in OrderSet /\ x.orders[i] = b.orders[i] /\ i \in 1 .. (n + 1)
      /\ n + 1 \in 1 .. (n + 1)
  BY DEF BookSet
<1>2. \A q \in OrderSet : Signed(q) \in Int /\ Signed(q) * q.price \in Int
  BY DEF OrderSet, Signed
<1> HIDE DEF n
<1>3. Payments(x) = Payments(b) + Signed(o) * o.price
  <2> DEFINE v == [i \in 1 .. n |-> Signed(b.orders[i]) * b.orders[i].price]
             w == [i \in 1 .. (n + 1) |-> Signed(x.orders[i]) * x.orders[i].price]
  <2>1. \A i \in 1 .. n : v[i] \in Int /\ w[i] = v[i]
    BY <1>1, <1>2
  <2>2. w[n + 1] = Signed(o) * o.price /\ w[n + 1] \in Int
    BY <1>1, <1>2
  <2>3. Payments(b) = SumFunctionOnSet(v, 1 .. n) /\ Payments(x) = SumFunctionOnSet(w, 1 .. (n + 1))
    BY <1>1 DEF Payments
  <2> HIDE DEF v, w
  <2>4. SumFunctionOnSet(w, 1 .. (n + 1)) = SumFunctionOnSet(v, 1 .. n) + w[n + 1]
    BY <1>1, <2>1, <2>2, SumAppended
  <2> QED BY <2>2, <2>3, <2>4
<1>4. ASSUME NEW s \in Symbols
      PROVE  Flow(x, s) = Flow(b, s) + (IF o.code = s THEN Signed(o) ELSE 0)
  <2> DEFINE v == [i \in 1 .. n |-> IF b.orders[i].code = s THEN Signed(b.orders[i]) ELSE 0]
             w == [i \in 1 .. (n + 1) |-> IF x.orders[i].code = s THEN Signed(x.orders[i]) ELSE 0]
  <2>1. \A i \in 1 .. n : v[i] \in Int /\ w[i] = v[i]
    BY <1>1, <1>2
  <2>2. w[n + 1] = (IF o.code = s THEN Signed(o) ELSE 0) /\ w[n + 1] \in Int
    BY <1>1, <1>2
  <2>3. Flow(b, s) = SumFunctionOnSet(v, 1 .. n) /\ Flow(x, s) = SumFunctionOnSet(w, 1 .. (n + 1))
    BY <1>1 DEF Flow
  <2> HIDE DEF v, w
  <2>4. SumFunctionOnSet(w, 1 .. (n + 1)) = SumFunctionOnSet(v, 1 .. n) + w[n + 1]
    BY <1>1, <2>1, <2>2, SumAppended
  <2> QED BY <2>2, <2>3, <2>4
<1> QED BY <1>3, <1>4

(* An order is carried out at the price its symbol is valued at. *)
Worth(quantity, price) == quantity * price

Executes(b, x, o, signals) ==
    /\ o \in OrderSet /\ PriceOf(signals, o.code) = o.price
    /\ b.cash - Worth(Signed(o), o.price) \in Nat /\ b.held[o.code] + Signed(o) \in Nat
    /\ x = [b EXCEPT !.cash = b.cash - Worth(Signed(o), o.price),
                     !.held = [b.held EXCEPT ![o.code] = b.held[o.code] + Signed(o)],
                     !.orders = Append(b.orders, o)]

Executed(b, x, o) ==
    /\ o \in OrderSet /\ o.code \in Symbols /\ o.price \in Nat /\ Signed(o) \in Int
    /\ x \in BookSet /\ x.orders = Append(b.orders, o) /\ x.base = b.base
    /\ x.cash = b.cash - Worth(Signed(o), o.price)
    /\ x.held = [b.held EXCEPT ![o.code] = b.held[o.code] + Signed(o)]

LEMMA ExecutedBook ==
    ASSUME NEW b \in BookSet, NEW signals, NEW o, NEW x, Executes(b, x, o, signals)
    PROVE  Executed(b, x, o)
<1>1. /\ o \in OrderSet /\ o.code \in Symbols /\ o.price \in Nat /\ Signed(o) \in Int
      /\ b.cash \in Nat /\ b.held \in [Symbols -> Nat] /\ b.orders \in Seq(OrderSet)
      /\ b.base \in Nat /\ b.signals \in Seq(SignalSet)
  BY DEF Executes, OrderSet, BookSet, Signed
<1>2. b = [cash |-> b.cash, held |-> b.held, orders |-> b.orders, base |-> b.base, signals |-> b.signals]
  BY DEF BookSet
<1>3. /\ x.orders = Append(b.orders, o) /\ x.base = b.base
      /\ x.cash = b.cash - Worth(Signed(o), o.price)
      /\ x.held = [b.held EXCEPT ![o.code] = b.held[o.code] + Signed(o)]
  BY <1>2 DEF Executes
<1>4. x.cash \in Nat /\ x.held \in [Symbols -> Nat] /\ x.orders \in Seq(OrderSet)
  BY <1>1, <1>3 DEF Executes
<1>5. x \in BookSet
  <2>1. /\ x = [cash |-> x.cash, held |-> x.held, orders |-> x.orders, base |-> x.base, signals |-> x.signals]
        /\ x.base = b.base /\ x.signals = b.signals
    BY <1>2 DEF Executes
  <2> QED BY <1>1, <1>4, <2>1 DEF BookSet
<1> QED BY <1>1, <1>3, <1>5 DEF Executed

LEMMA SameValue ==
    ASSUME NEW b \in BookSet, NEW signals \in Seq(SignalSet), OnePerSymbol(signals),
           NEW o, NEW x, Executes(b, x, o, signals)
    PROVE  MarketValue(x, signals) = MarketValue(b, signals)
<1> DEFINE v == [s \in Symbols |-> b.held[s] * PriceOf(signals, s)]
           w == [s \in Symbols |-> x.held[s] * PriceOf(signals, s)]
<1>1. PICK c \in Symbols, d \in Int, p \in Nat :
        /\ c = o.code /\ d = Signed(o) /\ p = PriceOf(signals, c)
        /\ x \in BookSet /\ x.cash = b.cash - Worth(d, p) /\ x.held = [b.held EXCEPT ![c] = b.held[c] + d]
  <2>1. PriceOf(signals, o.code) = o.price
    BY DEF Executes
  <2>2. Executed(b, x, o)
    BY ExecutedBook
  <2> QED BY <2>1, <2>2 DEF Executed
<1>2. \A s \in Symbols : b.held[s] \in Nat /\ x.held[s] \in Nat /\ PriceOf(signals, s) \in Nat
  BY <1>1, PriceFacts DEF BookSet
<1>3. x.held[c] = b.held[c] + d /\ \A s \in Symbols \ {c} : x.held[s] = b.held[s]
  BY <1>1 DEF BookSet
<1>4. \A s \in Symbols : v[s] \in Int /\ w[s] \in Int
  BY <1>2
<1>5. w[c] - v[c] = Worth(d, p)
  <2>1. w[c] = (b.held[c] + d) * p /\ v[c] = b.held[c] * p
    BY <1>1, <1>3
  <2>2. b.held[c] \in Int
    BY <1>2
  <2>3. (b.held[c] + d) * p - b.held[c] * p = d * p
    BY <2>2
  <2> QED BY <2>1, <2>3 DEF Worth
<1>6. Differ(v, w, Symbols, c)
  BY <1>3, <1>4 DEF Differ
<1>7. MarketValue(b, signals) = b.cash + SumFunctionOnSet(v, Symbols)
      /\ MarketValue(x, signals) = x.cash + SumFunctionOnSet(w, Symbols)
  BY DEF MarketValue
<1> HIDE DEF v, w
<1>8. SumFunctionOnSet(v, Symbols) \in Int
      /\ SumFunctionOnSet(w, Symbols) = SumFunctionOnSet(v, Symbols) + (w[c] - v[c])
  <2>1. IsFiniteSet(Symbols)
    BY WatchlistFacts
  <2> QED BY <1>6, <2>1, SumChanged
<1>9. b.cash \in Int /\ Worth(d, p) \in Int /\ x.cash = b.cash - Worth(d, p)
  BY <1>1 DEF BookSet, Worth
<1> QED BY <1>5, <1>7, <1>8, <1>9

(* What every order leaves as it is.                                       *)
Exchanged(b, x, o, signals) ==
    /\ x \in BookSet /\ o \in OrderSet
    /\ x.orders = Append(b.orders, o) /\ x.base = b.base
    /\ x.held = [b.held EXCEPT ![o.code] = x.held[o.code]]
    /\ x.cash + Payments(x) = b.cash + Payments(b)
    /\ \A s \in Symbols : x.held[s] - Flow(x, s) = b.held[s] - Flow(b, s)
    /\ MarketValue(x, signals) = MarketValue(b, signals)

LEMMA Exchange ==
    ASSUME NEW b \in BookSet, NEW signals \in Seq(SignalSet), OnePerSymbol(signals),
           NEW o, NEW x, Executes(b, x, o, signals)
    PROVE  Exchanged(b, x, o, signals)
<1>1. /\ o \in OrderSet /\ o.code \in Symbols /\ o.price \in Nat /\ Signed(o) \in Int
      /\ x \in BookSet /\ x.orders = Append(b.orders, o) /\ x.base = b.base
      /\ x.cash = b.cash - Worth(Signed(o), o.price)
      /\ x.held = [b.held EXCEPT ![o.code] = b.held[o.code] + Signed(o)]
  <2>1. Executed(b, x, o)
    BY ExecutedBook
  <2> QED BY <2>1 DEF Executed
<1>2. b.cash \in Int /\ b.held \in [Symbols -> Nat]
  BY DEF BookSet
<1>3. /\ x.held = [b.held EXCEPT ![o.code] = x.held[o.code]]
      /\ \A s \in Symbols : x.held[s] = b.held[s] + (IF o.code = s THEN Signed(o) ELSE 0)
  BY SMTT(40), <1>1, <1>2
<1>4. Payments(b) \in Int /\ \A s \in Symbols : Flow(b, s) \in Int
  BY SumsTyped
<1>5. /\ Payments(x) = Payments(b) + Signed(o) * o.price
      /\ \A s \in Symbols : Flow(x, s) = Flow(b, s) + (IF o.code = s THEN Signed(o) ELSE 0)
  BY <1>1, OneMoreOrder
<1>6. x.cash + Payments(x) = b.cash + Payments(b)
  <2>1. PICK paid \in Int : paid = Worth(Signed(o), o.price)
    BY <1>1 DEF Worth
  <2>2. Payments(x) = Payments(b) + paid
    BY <1>5, <2>1 DEF Worth
  <2> QED BY <1>1, <1>2, <1>4, <2>1, <2>2
<1>7. ASSUME NEW s \in Symbols PROVE x.held[s] - Flow(x, s) = b.held[s] - Flow(b, s)
  <2>1. PICK m \in Int : m = IF o.code = s THEN Signed(o) ELSE 0
    BY <1>1
  <2>2. x.held[s] = b.held[s] + m /\ b.held[s] \in Int
    BY <1>2, <1>3, <2>1
  <2>3. Flow(x, s) = Flow(b, s) + m /\ Flow(b, s) \in Int
    BY <1>4, <1>5, <2>1
  <2> QED BY <2>2, <2>3
<1>8. MarketValue(x, signals) = MarketValue(b, signals)
  BY SameValue
<1> QED BY <1>1, <1>3, <1>6, <1>7, <1>8 DEF Exchanged

(* A signal places one order or none, and a purchase stays within its      *)
(* share.                                                                  *)
LEMMA SignalApplied ==
    ASSUME NEW b \in BookSet, NEW signals \in Seq(SignalSet), OnePerSymbol(signals),
           NEW n \in 1 .. Len(signals), signals[n].price # 0,
           NEW x, x = ApplySignal(b, signals[n], signals)
    PROVE  \/ x = b
           \/ \E o \in OrderSet :
                /\ Exchanged(b, x, o, signals) /\ o.code = signals[n].code
                /\ o.side = "BUY" =>
                     PctDen * x.held[o.code] * o.price <= PctNum * MarketValue(b, signals)
<1> DEFINE g     == signals[n]
           total == MarketValue(b, signals)
<1>1. /\ g \in SignalSet /\ g.code \in Symbols /\ g.price \in Nat \ {0}
      /\ b.cash \in Nat /\ b.held \in [Symbols -> Nat] /\ b.held[g.code] \in Nat
  <2>1. g \in SignalSet
    OBVIOUS
  <2>2. g.price # 0
    OBVIOUS
  <2> HIDE DEF g
  <2> QED BY <2>1, <2>2 DEF SignalSet, BookSet
<1>2. PriceOf(signals, g.code) = g.price
  BY PriceFacts
<1>3. total \in Nat
  BY SumsTyped
<1> HIDE DEF g
<1>4. CASE g.action = "SELL" /\ b.held[g.code] > 0
  <2> DEFINE o == Order(g, "SELL", b.held[g.code])
  <2>1. o \in OrderSet /\ o.code = g.code /\ o.price = g.price /\ o.side = "SELL" /\ Signed(o) = -b.held[g.code]
    BY <1>1 DEF Order, OrderSet, Signed
  <2>2. Worth(Signed(o), o.price) = -(b.held[g.code] * g.price) /\ b.held[g.code] * g.price \in Nat
    BY <1>1, <2>1 DEF Worth
  <2>3. /\ b.cash - Worth(Signed(o), o.price) = b.cash + b.held[g.code] * g.price
        /\ b.held[g.code] + Signed(o) = 0
    BY <1>1, <2>1, <2>2
  <2>4. x = [b EXCEPT !.cash = b.cash + b.held[g.code] * g.price,
                      !.held[g.code] = 0, !.orders = Append(b.orders, o)]
    <3>1. x = Sell(b, g)
      BY <1>4 DEF ApplySignal, g
    <3> QED BY <3>1 DEF Sell
  <2> HIDE DEF o
  <2>5. x = [b EXCEPT !.cash = b.cash + b.held[g.code] * g.price,
                      !.held = [b.held EXCEPT ![g.code] = 0], !.orders = Append(b.orders, o)]
    BY <2>4
  <2>6. b.cash + b.held[g.code] * g.price \in Nat
    BY <1>1, <2>2
  <2>7. Executes(b, x, o, signals)
    <3>1. x = [b EXCEPT !.cash = b.cash - Worth(Signed(o), o.price),
                        !.held = [b.held EXCEPT ![o.code] = b.held[o.code] + Signed(o)],
                        !.orders = Append(b.orders, o)]
      BY <2>1, <2>3, <2>5, Zenon
    <3>2. b.held[o.code] + Signed(o) \in Nat
      BY <2>1, <2>3
    <3> QED BY <1>2, <2>1, <2>3, <2>6, <3>1, <3>2 DEF Executes
  <2>8. Exchanged(b, x, o, signals)
    BY <2>7, Exchange
  <2> QED BY <2>1, <2>8 DEF g
<1>5. CASE g.action = "BUY" /\ WorthBuying(b, g, total)
  <2> DEFINE q    == Quantity(b, g, total)
             goal == (total * PctNum) \div (PctDen * g.price)
             most == b.cash \div g.price
  <2>1. PctNum \in Nat \ {0} /\ PctDen \in Nat \ {0} /\ total * PctNum \in Nat /\ PctDen * g.price \in Nat \ {0}
    BY SMTT(40), <1>1, <1>3, DryRunAssumption
  <2>2. goal \in Int /\ most \in Int
    BY <1>1, <2>1, Z3
  <2>3. q \in Int /\ q <= goal - b.held[g.code] /\ q <= most
    <3>1. goal - b.held[g.code] \in Int
      BY <1>1, <2>2
    <3>2. q = Min({goal - b.held[g.code], most})
      BY DEF Quantity
    <3> HIDE DEF q, goal, most
    <3> QED BY <2>2, <3>1, <3>2, MinOfTwo
  <2>4. q > 0
    BY <1>5 DEF WorthBuying
  <2> HIDE DEF q
  <2>5. q * g.price <= b.cash
    BY <1>1, <2>3, RoundedDown
  <2>6. b.held[g.code] + q <= goal /\ b.held[g.code] + q \in Int
    BY <1>1, <2>2, <2>3
  <2>7. (b.held[g.code] + q) * (PctDen * g.price) <= total * PctNum
    <3>1. PICK m : m = b.held[g.code] + q
      OBVIOUS
    <3>2. PICK d : d = PctDen * g.price
      OBVIOUS
    <3>3. PICK a : a = total * PctNum
      OBVIOUS
    <3>4. m * d <= a
      BY <2>1, <2>6, <3>1, <3>2, <3>3, RoundedDown
    <3> QED BY <3>1, <3>2, <3>3, <3>4
  <2>8. PctDen * (b.held[g.code] + q) * g.price <= PctNum * total
    <3>1. PICK m \in Int : m = b.held[g.code] + q
      BY <2>6
    <3>2. PctDen * m * g.price = m * (PctDen * g.price) /\ PctNum * total = total * PctNum
      BY SMTT(40), <1>1, <1>3, <2>1
    <3> QED BY <2>7, <3>1, <3>2
  <2> DEFINE o == Order(g, "BUY", q)
  <2>9. o \in OrderSet /\ o.code = g.code /\ o.price = g.price /\ Signed(o) = q
    BY <1>1, <2>3, <2>4 DEF Order, OrderSet, Signed
  <2>10. /\ Worth(Signed(o), o.price) = q * g.price /\ b.cash - q * g.price \in Nat
         /\ b.held[g.code] + q \in Nat
    <3>1. q * g.price \in Int
      BY <1>1, <2>3
    <3> QED BY SMTT(40), <1>1, <2>3, <2>4, <2>5, <2>9, <3>1 DEF Worth
  <2>11. x = [b EXCEPT !.cash = b.cash - q * g.price,
                       !.held[g.code] = b.held[g.code] + q, !.orders = Append(b.orders, o)]
    <3>1. x = Buy(b, g, q)
      BY <1>5 DEF ApplySignal, g, q
    <3> QED BY <3>1 DEF Buy
  <2> HIDE DEF o
  <2>12. x = [b EXCEPT !.cash = b.cash - q * g.price,
                       !.held = [b.held EXCEPT ![g.code] = b.held[g.code] + q], !.orders = Append(b.orders, o)]
    BY <2>11
  <2>13. Executes(b, x, o, signals)
    BY <1>2, <2>9, <2>10, <2>12 DEF Executes
  <2>14. Exchanged(b, x, o, signals)
    BY <2>13, Exchange
  <2>15. x.held[o.code] = b.held[g.code] + q
    <3>1. Executed(b, x, o)
      BY <2>13, ExecutedBook
    <3> QED BY <1>1, <2>9, <3>1 DEF Executed
  <2>16. PctDen * x.held[o.code] * o.price <= PctNum * total
    BY <2>8, <2>9, <2>15
  <2> QED BY <2>9, <2>14, <2>16 DEF g
<1>6. CASE ~(g.action = "SELL" /\ b.held[g.code] > 0) /\ ~(g.action = "BUY" /\ WorthBuying(b, g, total))
  BY <1>6 DEF ApplySignal, g
<1> QED BY <1>4, <1>5, <1>6

-----------------------------------------------------------------------------
(***************************************************************************)
(* The inductive invariant.                                                *)
(***************************************************************************)
(* A portfolio is its base, one of those saved before it, and its orders.  *)
BaseIn(b, books) == IF b.base = 0 THEN Default ELSE books[b.base]

Balanced(b, books) ==
    /\ b.base \in 0 .. Len(books)
    /\ b.cash + Payments(b) = BaseIn(b, books).cash
    /\ \A s \in Symbols : b.held[s] = BaseIn(b, books).held[s] + Flow(b, s)

Within(b, signals) ==
    \A i \in 1 .. Len(b.orders) :
        b.orders[i].side = "BUY" =>
            PctDen * b.held[b.orders[i].code] * b.orders[i].price <= PctNum * MarketValue(b, signals)

(* So far only the first n signals have led to orders. *)
OfTheFirst(b, signals, n) ==
    \A i \in 1 .. Len(b.orders) : \E k \in 1 .. n : signals[k].code = b.orders[i].code

Good(b, books) == Balanced(b, books) /\ Within(b, b.signals)

JobOK(x, books) ==
    /\ OnePerSymbol(x.signals)
    /\ x.at = "load" => x.done = 0
    /\ x.at = "trade" => /\ x.done <= Len(x.signals) /\ Balanced(x.book, books)
                         /\ Within(x.book, x.signals) /\ OfTheFirst(x.book, x.signals, x.done)
    /\ x.at \in {"save", "tell"} => Good(x.book, books)
    /\ x.at = "tell" => \E i \in 1 .. Len(books) : x.book = books[i]

(* What was reported was saved. *)
ReportsSaved == told \subseteq Saved

BarsInv == ohlcv \in [Symbols -> SUBSET Prices]

BooksInv ==
    /\ saved \in Seq(BookSet)
    /\ \A i \in 1 .. Len(saved) : Good(saved[i], saved) /\ saved[i].base < i
    /\ ReportsSaved

JobsInv == job \in [Jobs -> JobSet] /\ \A j \in Jobs : JobOK(job[j], saved)

DryInv == BarsInv /\ BooksInv /\ JobsInv

-----------------------------------------------------------------------------
(***************************************************************************)
(* What the steps do to it.                                                *)
(***************************************************************************)
LEMMA OneMoreSignal ==
    ASSUME NEW signals \in Seq(SignalSet), OnePerSymbol(signals), NEW books \in Seq(BookSet),
           NEW n \in Nat, n < Len(signals), signals[n + 1].price # 0,
           NEW b \in BookSet, Balanced(b, books), Within(b, signals), OfTheFirst(b, signals, n),
           NEW x, x = ApplySignal(b, signals[n + 1], signals)
    PROVE  x \in BookSet /\ Balanced(x, books) /\ Within(x, signals) /\ OfTheFirst(x, signals, n + 1)
<1>1. Len(signals) \in Nat /\ n + 1 \in 1 .. Len(signals)
  OBVIOUS
<1>2. CASE x = b
  <2>1. OfTheFirst(x, signals, n + 1)
    BY <1>2 DEF OfTheFirst
  <2> QED BY <1>2, <2>1
<1>3. ASSUME NEW o \in OrderSet, Exchanged(b, x, o, signals), o.code = signals[n + 1].code,
             o.side = "BUY" => PctDen * x.held[o.code] * o.price <= PctNum * MarketValue(b, signals)
      PROVE  x \in BookSet /\ Balanced(x, books) /\ Within(x, signals) /\ OfTheFirst(x, signals, n + 1)
  <2>1. /\ x \in BookSet /\ x.base = b.base /\ b.orders \in Seq(OrderSet) /\ b.held \in [Symbols -> Nat]
        /\ x.orders = Append(b.orders, o) /\ MarketValue(x, signals) = MarketValue(b, signals)
        /\ \A s \in Symbols \ {o.code} : x.held[s] = b.held[s]
    BY <1>3 DEF Exchanged, BookSet
  <2>2. /\ Len(x.orders) = Len(b.orders) + 1 /\ Len(b.orders) \in Nat /\ x.orders[Len(b.orders) + 1] = o
        /\ \A i \in 1 .. Len(b.orders) : x.orders[i] = b.orders[i] /\ b.orders[i].code \in Symbols
    <3>1. PICK orders \in Seq(OrderSet) : orders = b.orders
      BY <2>1
    <3>2. /\ Len(Append(orders, o)) = Len(orders) + 1 /\ Len(orders) \in Nat /\ Append(orders, o)[Len(orders) + 1] = o
          /\ \A i \in 1 .. Len(orders) : Append(orders, o)[i] = orders[i] /\ orders[i] \in OrderSet
      OBVIOUS
    <3>3. \A q \in OrderSet : q.code \in Symbols
      BY DEF OrderSet
    <3> QED BY <2>1, <3>1, <3>2, <3>3
  <2>3. Balanced(x, books)
    <3>1. BaseIn(x, books) = BaseIn(b, books) /\ x.base \in 0 .. Len(books)
      BY <2>1 DEF BaseIn, Balanced
    <3>2. x.cash + Payments(x) = BaseIn(x, books).cash
      BY <1>3, <3>1 DEF Balanced, Exchanged
    <3>3. ASSUME NEW s \in Symbols PROVE x.held[s] = BaseIn(x, books).held[s] + Flow(x, s)
      <4>1. b.held[s] = BaseIn(x, books).held[s] + Flow(b, s)
        BY <3>1 DEF Balanced
      <4>2. x.held[s] - Flow(x, s) = b.held[s] - Flow(b, s)
        BY <1>3 DEF Exchanged
      <4>3. x.held[s] \in Int /\ b.held[s] \in Int
        BY <2>1 DEF BookSet
      <4>4. Flow(x, s) \in Int /\ Flow(b, s) \in Int
        BY <2>1, SumsTyped
      <4>5. BaseIn(x, books).held[s] \in Int
        <5>1. Default.held[s] \in Int
          BY DefaultTyped DEF BookSet
        <5>2. \A i \in 1 .. Len(books) : books[i].held[s] \in Int
          <6>1. \A i \in 1 .. Len(books) : books[i] \in BookSet
            OBVIOUS
          <6>2. \A y \in BookSet : y.held[s] \in Int
            BY DEF BookSet
          <6> QED BY <6>1, <6>2
        <5>3. x.base \in Nat /\ (x.base # 0 => x.base \in 1 .. Len(books))
          BY <3>1
        <5>4. BaseIn(x, books) = IF x.base = 0 THEN Default ELSE books[x.base]
          BY DEF BaseIn
        <5> QED BY <5>1, <5>2, <5>3, <5>4
      <4> QED BY <4>1, <4>2, <4>3, <4>4, <4>5
    <3> QED BY <3>1, <3>2, <3>3 DEF Balanced
  <2>4. Within(x, signals)
    <3> SUFFICES ASSUME NEW i \in 1 .. Len(x.orders), x.orders[i].side = "BUY"
                 PROVE  PctDen * x.held[x.orders[i].code] * x.orders[i].price <= PctNum * MarketValue(b, signals)
      BY <2>1 DEF Within
    <3>1. CASE i = Len(b.orders) + 1
      BY <1>3, <2>2, <3>1
    <3>2. CASE i \in 1 .. Len(b.orders)
      <4>1. PICK k \in 1 .. n : signals[k].code = b.orders[i].code
        BY <3>2 DEF OfTheFirst
      <4>2. signals[k].code # signals[n + 1].code
        BY <1>1 DEF OnePerSymbol
      <4>3. x.held[b.orders[i].code] = b.held[b.orders[i].code]
        BY <1>3, <2>1, <2>2, <3>2, <4>1, <4>2
      <4>4. PctDen * b.held[b.orders[i].code] * b.orders[i].price <= PctNum * MarketValue(b, signals)
        BY <2>2, <3>2 DEF Within
      <4> QED BY <2>2, <3>2, <4>3, <4>4
    <3> QED BY <2>2, <3>1, <3>2
  <2>5. OfTheFirst(x, signals, n + 1)
    <3> SUFFICES ASSUME NEW i \in 1 .. Len(x.orders)
                 PROVE  \E k \in 1 .. (n + 1) : signals[k].code = x.orders[i].code
      BY DEF OfTheFirst
    <3>1. CASE i = Len(b.orders) + 1
      BY <1>3, <2>2, <3>1
    <3>2. CASE i \in 1 .. Len(b.orders)
      <4>1. PICK k \in 1 .. n : signals[k].code = b.orders[i].code
        BY <3>2 DEF OfTheFirst
      <4>2. k \in 1 .. (n + 1) /\ signals[k].code = x.orders[i].code
        <5>1. k \in 1 .. (n + 1)
          OBVIOUS
        <5>2. x.orders[i] = b.orders[i]
          BY <2>2, <3>2
        <5> QED BY <4>1, <5>1, <5>2
      <4> QED BY <4>2
    <3> QED BY <2>2, <3>1, <3>2
  <2> QED BY <2>1, <2>3, <2>4, <2>5
<1> QED BY <1>1, <1>2, <1>3, SignalApplied

(* A portfolio saved later changes nothing about an earlier one.           *)
LEMMA OneMoreSaved ==
    ASSUME NEW books \in Seq(BookSet), NEW y \in BookSet
    PROVE  /\ \A b : Balanced(b, books) => Balanced(b, Append(books, y))
           /\ \A b : Good(b, books) => Good(b, Append(books, y))
           /\ \A x : JobOK(x, books) => JobOK(x, Append(books, y))
<1>1. PICK more : more = Append(books, y)
  OBVIOUS
<1>2. /\ Len(books) \in Nat /\ Len(more) = Len(books) + 1
      /\ \A i \in 1 .. Len(books) : more[i] = books[i] /\ i \in 1 .. Len(more)
  BY <1>1
<1>3. ASSUME NEW b, Balanced(b, books) PROVE Balanced(b, more)
  <2>1. b.base \in 0 .. Len(books)
    BY <1>3 DEF Balanced
  <2>2. BaseIn(b, more) = BaseIn(b, books) /\ b.base \in 0 .. Len(more)
    BY <1>2, <2>1 DEF BaseIn
  <2> QED BY <1>3, <2>2 DEF Balanced
<1>4. \A b : Good(b, books) => Good(b, more)
  BY <1>3 DEF Good
<1>5. ASSUME NEW x, JobOK(x, books) PROVE JobOK(x, more)
  <2>1. x.at = "tell" => \E i \in 1 .. Len(more) : x.book = more[i]
    BY <1>2, <1>5 DEF JobOK
  <2> QED BY <1>3, <1>4, <1>5, <2>1 DEF JobOK
<1> QED BY <1>1, <1>3, <1>4, <1>5

LEMMA JobFacts ==
    ASSUME DryInv, NEW j \in Jobs
    PROVE  /\ job[j] \in JobSet /\ JobOK(job[j], saved) /\ saved \in Seq(BookSet)
           /\ job[j].at \in Stages /\ job[j].done \in Nat /\ job[j].signals \in Seq(SignalSet)
           /\ job[j].book \in BookSet /\ OnePerSymbol(job[j].signals)
<1>1. job[j] \in JobSet /\ JobOK(job[j], saved) /\ saved \in Seq(BookSet)
  BY DEF DryInv, JobsInv, BooksInv, BarsInv
<1> QED BY <1>1 DEF JobSet, JobOK

LEMMA OneJob ==
    ASSUME DryInv, NEW j \in Jobs, NEW y \in JobSet, JobOK(y, saved), job' = [job EXCEPT ![j] = y],
           UNCHANGED saved
    PROVE  JobsInv'
<1>1. job \in [Jobs -> JobSet] /\ \A k \in Jobs : JobOK(job[k], saved)
  BY DEF DryInv, JobsInv
<1>2. job' \in [Jobs -> JobSet] /\ \A k \in Jobs : JobOK(job'[k], saved)
  BY <1>1
<1> QED BY <1>2 DEF JobsInv

(* A step of a job that saves nothing.                                     *)
LEMMA JobStep ==
    ASSUME DryInv, NEW j \in Jobs, NEW y \in JobSet, JobOK(y, saved), job' = [job EXCEPT ![j] = y],
           UNCHANGED <<ohlcv, saved, told>>
    PROVE  DryInv'
<1>1. JobsInv'
  BY OneJob
<1>2. BarsInv'
  BY DEF DryInv, BarsInv
<1>3. BooksInv'
  BY DEF DryInv, BooksInv, ReportsSaved, Saved
<1> QED BY <1>1, <1>2, <1>3 DEF DryInv

LEMMA OffOK == ASSUME NEW books PROVE JobOK(Off, books)
<1>1. Off.at = "off" /\ Off.signals = << >>
  BY DEF Off
<1> QED BY <1>1 DEF JobOK, OnePerSymbol

LEMMA InitInv == ASSUME Init PROVE DryInv
<1>1. BarsInv
  BY DEF Init, BarsInv
<1>2. saved = << >> /\ told = {} /\ job = [j \in Jobs |-> Off]
  BY DEF Init
<1>3. BooksInv
  BY <1>2 DEF BooksInv, ReportsSaved
<1>4. JobsInv
  BY <1>2, DefaultTyped, OffOK DEF JobsInv
<1> QED BY <1>1, <1>3, <1>4 DEF DryInv

LEMMA ExpireStep == ASSUME DryInv, NEW s \in Symbols, Expire(s) PROVE DryInv'
<1>1. ohlcv' = [ohlcv EXCEPT ![s] = {}] /\ UNCHANGED <<job, saved, told>>
  BY DEF Expire
<1>2. BarsInv'
  BY <1>1 DEF DryInv, BarsInv
<1>3. BooksInv'
  BY <1>1 DEF DryInv, BooksInv, ReportsSaved, Saved
<1>4. JobsInv'
  BY <1>1 DEF DryInv, JobsInv
<1> QED BY <1>2, <1>3, <1>4 DEF DryInv

LEMMA BeginStep == ASSUME DryInv, NEW j \in Jobs, Begin(j) PROVE DryInv'
<1>1. PICK y : y = [Off EXCEPT !.at = IF j \in Refreshers THEN "refresh" ELSE "forecast"]
  OBVIOUS
<1>2. y \in JobSet /\ y.at \in {"refresh", "forecast"} /\ y.signals = << >>
  BY <1>1, DefaultTyped DEF JobSet, Stages, Off
<1>3. JobOK(y, saved)
  BY <1>2 DEF JobOK, OnePerSymbol
<1> QED BY <1>1, <1>2, <1>3, JobStep DEF Begin

(* The stages that only change over: nothing of the job but its stage.     *)
LEMMA TurnStep ==
    ASSUME DryInv, NEW j \in Jobs, NEW from, NEW to \in {"forecast", "load"}, Turn(j, from, to),
           UNCHANGED <<ohlcv, saved, told>>
    PROVE  DryInv'
<1>1. PICK y : y = [job[j] EXCEPT !.at = to, !.done = 0]
  OBVIOUS
<1>2. job' = [job EXCEPT ![j] = y]
  BY <1>1 DEF Turn
<1>3. /\ y \in JobSet /\ y.at = to /\ y.done = 0 /\ y.signals = job[j].signals
  BY <1>1, JobFacts DEF JobSet, Stages
<1>4. JobOK(y, saved)
  BY <1>3, JobFacts DEF JobOK
<1> QED BY <1>2, <1>3, <1>4, JobStep

(* The stages that work off the watchlist or the signals.                  *)
LEMMA WorkStep ==
    ASSUME DryInv, NEW j \in Jobs, job[j].at \in {"refresh", "forecast"},
           NEW signals \in Seq(SignalSet), OnePerSymbol(signals)
    PROVE  LET y == [job[j] EXCEPT !.done = job[j].done + 1, !.signals = signals]
           IN  y \in JobSet /\ JobOK(y, saved)
<1>1. PICK y : y = [job[j] EXCEPT !.done = job[j].done + 1, !.signals = signals]
  OBVIOUS
<1>2. y \in JobSet /\ y.at = job[j].at /\ y.signals = signals
  <2>1. PICK x \in JobSet : x = job[j]
    BY JobFacts
  <2>2. x.done + 1 \in Nat
    BY DEF JobSet
  <2> QED BY <1>1, <2>1, <2>2 DEF JobSet
<1>3. JobOK(y, saved)
  BY <1>2 DEF JobOK
<1> QED BY <1>1, <1>2, <1>3

LEMMA FollowingFacts ==
    ASSUME DryInv, NEW j \in Jobs, job[j].done < Len(Watchlist)
    PROVE  Following(j) \in Symbols
<1>1. job[j].done + 1 \in 1 .. Len(Watchlist)
  BY WatchlistFacts, JobFacts
<1> QED BY <1>1, WatchlistFacts DEF Following

LEMMA RefreshStep == ASSUME DryInv, NEW j \in Jobs, Refresh(j) PROVE DryInv'
<1>1. PICK s \in Symbols : s = Following(j)
  BY FollowingFacts DEF Refresh, Working
<1>2. PICK bars \in Fetched \cup {ohlcv[s]} : ohlcv' = [ohlcv EXCEPT ![s] = bars]
  BY <1>1 DEF Refresh
<1>3. bars \in SUBSET Prices
  BY <1>1, <1>2 DEF DryInv, BarsInv, Fetched
<1>4. BarsInv'
  BY <1>2, <1>3 DEF Refresh, DryInv, BarsInv
<1>5. BooksInv'
  BY DEF Refresh, DryInv, BooksInv, ReportsSaved, Saved
<1>6. JobsInv'
  <2>1. PICK y : y = [job[j] EXCEPT !.done = job[j].done + 1, !.signals = job[j].signals]
    OBVIOUS
  <2>2. y \in JobSet /\ JobOK(y, saved)
    BY <2>1, JobFacts, WorkStep DEF Refresh, Working, At
  <2>3. y = [job[j] EXCEPT !.done = job[j].done + 1]
    BY <2>1, JobFacts DEF JobSet
  <2>4. job' = [job EXCEPT ![j] = y] /\ UNCHANGED saved
    BY <2>3 DEF Refresh
  <2> QED BY <2>2, <2>4, OneJob
<1> QED BY <1>4, <1>5, <1>6 DEF DryInv

LEMMA ForecastStep == ASSUME DryInv, NEW j \in Jobs, Forecast(j) PROVE DryInv'
<1>1. /\ job[j] \in JobSet /\ job[j].at = "forecast" /\ job[j].signals \in Seq(SignalSet)
      /\ OnePerSymbol(job[j].signals) /\ UNCHANGED <<ohlcv, saved, told>>
  BY JobFacts DEF Forecast, Working, At
<1>2. CASE job' = [job EXCEPT ![j].done = @ + 1]
  <2>1. PICK y : y = [job[j] EXCEPT !.done = job[j].done + 1, !.signals = job[j].signals]
    OBVIOUS
  <2>2. y \in JobSet /\ JobOK(y, saved)
    BY <1>1, <2>1, WorkStep
  <2>3. y = [job[j] EXCEPT !.done = job[j].done + 1]
    BY <1>1, <2>1 DEF JobSet
  <2>4. job' = [job EXCEPT ![j] = y]
    BY <1>2, <2>3
  <2> QED BY <1>1, <2>2, <2>4, JobStep
<1>3. ASSUME NEW close \in ohlcv[Following(j)], NEW outlook \in Outlooks(close), NEW g,
             g = [code |-> Following(j), action |-> Action(outlook), price |-> close],
             job' = [job EXCEPT ![j] = [job[j] EXCEPT !.done = job[j].done + 1,
                                                      !.signals = Put(job[j].signals, g)]]
      PROVE  DryInv'
  <2>1. PICK s \in Symbols : s = Following(j)
    BY FollowingFacts DEF Forecast, Working
  <2>2. Action(outlook) \in {"BUY", "SELL", "HOLD"}
    BY DEF Action
  <2>3. close \in Nat
    BY <2>1, DryRunAssumption DEF DryInv, BarsInv
  <2>4. g \in SignalSet
    BY <1>3, <2>1, <2>2, <2>3 DEF SignalSet
  <2>5. PICK signals \in Seq(SignalSet) : signals = Put(job[j].signals, g) /\ OnePerSymbol(signals)
    BY <1>1, <2>4, PutKeepsOne
  <2>6. PICK y : y = [job[j] EXCEPT !.done = job[j].done + 1, !.signals = signals]
    OBVIOUS
  <2>7. y \in JobSet /\ JobOK(y, saved)
    BY <1>1, <2>5, <2>6, WorkStep
  <2>8. job' = [job EXCEPT ![j] = y]
    BY <1>3, <2>5, <2>6
  <2> QED BY <1>1, <2>7, <2>8, JobStep
<1>4. \/ job' = [job EXCEPT ![j].done = @ + 1]
      \/ \E close \in ohlcv[Following(j)] : \E outlook \in Outlooks(close) :
            job' = [job EXCEPT ![j] = [job[j] EXCEPT !.done = job[j].done + 1,
                      !.signals = Put(job[j].signals, [code |-> Following(j), action |-> Action(outlook),
                                                       price |-> close])]]
  BY ZenonT(40) DEF Forecast
<1> QED BY <1>2, <1>3, <1>4

LEMMA LoadStep == ASSUME DryInv, NEW j \in Jobs, Load(j) PROVE DryInv'
<1>1. /\ job[j] \in JobSet /\ job[j].at = "load" /\ JobOK(job[j], saved)
      /\ saved \in Seq(BookSet) /\ UNCHANGED <<ohlcv, saved, told>>
  BY JobFacts DEF Load, At
<1>2. PICK base \in {0, Len(saved)} :
        job' = [job EXCEPT ![j].at = "trade",
                  ![j].book = IF base = 0 THEN Default ELSE Book(saved[base].cash, saved[base].held, base)]
  BY DEF Load
<1>3. PICK b : b = IF base = 0 THEN Default ELSE Book(saved[base].cash, saved[base].held, base)
  OBVIOUS
<1>4. /\ b = Book(BaseIn(b, saved).cash, BaseIn(b, saved).held, base)
      /\ base \in 0 .. Len(saved) /\ BaseIn(b, saved) \in BookSet
  <2>1. Len(saved) \in Nat /\ b.base = base
    BY <1>1, <1>3 DEF Default, Book
  <2>2. CASE base = 0
    <3>1. BaseIn(b, saved) = Default /\ b = Default
      BY <1>3, <2>1, <2>2 DEF BaseIn
    <3>2. Default = Book(Default.cash, Default.held, 0)
      BY DEF Default, Book
    <3> QED BY <2>1, <2>2, <3>1, <3>2, DefaultTyped
  <2>3. CASE base # 0
    <3>1. BaseIn(b, saved) = saved[base] /\ base \in 1 .. Len(saved)
      BY <1>3, <2>1, <2>3 DEF BaseIn
    <3>2. saved[base] \in BookSet
      BY <1>1, <3>1
    <3> QED BY <1>3, <2>1, <2>3, <3>1, <3>2
  <2> QED BY <2>2, <2>3
<1>5. PICK from \in BookSet : from = BaseIn(b, saved)
  BY <1>4
<1>6. /\ b.cash = from.cash /\ b.held = from.held /\ b.base = base /\ b.orders = << >>
      /\ b \in BookSet
  <2>1. from.cash \in Nat /\ from.held \in [Symbols -> Nat] /\ base \in Nat
    BY <1>1, <1>4 DEF BookSet
  <2>2. b = [cash |-> from.cash, held |-> from.held, orders |-> << >>, base |-> base, signals |-> << >>]
    BY <1>4, <1>5 DEF Book
  <2>3. << >> \in Seq(OrderSet) /\ << >> \in Seq(SignalSet)
    OBVIOUS
  <2>4. b \in BookSet
    BY <2>1, <2>2, <2>3 DEF BookSet
  <2> QED BY <2>2, <2>4
<1>7. Payments(b) = 0 /\ \A s \in Symbols : Flow(b, s) = 0
  <2>1. DOMAIN b.orders = {}
    BY <1>6
  <2> QED BY <2>1, SumOfNothing DEF Payments, Flow
<1>8. Balanced(b, saved)
  <2>1. from.cash \in Int /\ \A s \in Symbols : from.held[s] \in Int
    BY DEF BookSet
  <2> QED BY <1>4, <1>5, <1>6, <1>7, <2>1 DEF Balanced
<1>9. Within(b, job[j].signals) /\ OfTheFirst(b, job[j].signals, 0)
  BY <1>6 DEF Within, OfTheFirst
<1>10. PICK y : y = [job[j] EXCEPT !.at = "trade", !.book = b]
  OBVIOUS
<1>11. /\ y \in JobSet /\ y.at = "trade" /\ y.book = b /\ y.signals = job[j].signals /\ y.done = job[j].done
  BY <1>1, <1>6, <1>10 DEF JobSet, Stages
<1>12. job[j].done = 0 /\ OnePerSymbol(job[j].signals) /\ Len(job[j].signals) \in Nat
  BY <1>1 DEF JobOK, JobSet
<1>13. JobOK(y, saved)
  BY <1>8, <1>9, <1>11, <1>12 DEF JobOK
<1>14. job' = [job EXCEPT ![j] = y]
  BY <1>2, <1>3, <1>10
<1> QED BY <1>1, <1>11, <1>13, <1>14, JobStep

LEMMA TradeStep == ASSUME DryInv, NEW j \in Jobs, Trade(j) PROVE DryInv'
<1> DEFINE signals == job[j].signals
           n       == job[j].done
<1>1. /\ job[j] \in JobSet /\ job[j].at = "trade" /\ JobOK(job[j], saved) /\ job[j].book \in BookSet
      /\ saved \in Seq(BookSet) /\ signals \in Seq(SignalSet) /\ OnePerSymbol(signals)
      /\ n \in Nat /\ n < Len(signals) /\ UNCHANGED <<ohlcv, saved, told>>
  BY JobFacts DEF Trade, At
<1>2. Balanced(job[j].book, saved) /\ Within(job[j].book, signals) /\ OfTheFirst(job[j].book, signals, n)
  BY <1>1 DEF JobOK
<1>3. CASE signals[n + 1].price = 0
  <2>1. job' = [job EXCEPT ![j] = Off]
    BY <1>3 DEF Trade
  <2> QED BY <1>1, <2>1, DefaultTyped, OffOK, JobStep
<1>4. CASE signals[n + 1].price # 0
  <2>1. PICK x : x = ApplySignal(job[j].book, signals[n + 1], signals)
    OBVIOUS
  <2>2. job' = [job EXCEPT ![j] = [job[j] EXCEPT !.done = n + 1, !.book = x]]
    BY <1>4, <2>1 DEF Trade
  <2> HIDE DEF signals, n
  <2>3. x \in BookSet /\ Balanced(x, saved) /\ Within(x, signals) /\ OfTheFirst(x, signals, n + 1)
    BY <1>1, <1>2, <1>4, <2>1, OneMoreSignal
  <2>4. PICK y : y = [job[j] EXCEPT !.done = n + 1, !.book = x]
    OBVIOUS
  <2>5. /\ y \in JobSet /\ y.at = "trade" /\ y.book = x /\ y.done = n + 1 /\ y.signals = signals
    <3>1. n + 1 \in Nat
      BY <1>1
    <3> QED BY <1>1, <2>3, <2>4, <3>1 DEF JobSet, signals
  <2>6. n + 1 <= Len(signals)
    BY <1>1
  <2>7. JobOK(y, saved)
    BY <1>1, <2>3, <2>5, <2>6 DEF JobOK
  <2>8. job' = [job EXCEPT ![j] = y]
    BY <2>2, <2>4
  <2> QED BY <1>1, <2>5, <2>7, <2>8, JobStep
<1> QED BY <1>3, <1>4

(* The signals kept with a portfolio are no part of its balance.           *)
LEMMA SignalsKept ==
    ASSUME NEW b \in BookSet, NEW signals \in Seq(SignalSet), NEW books,
           Balanced(b, books), Within(b, signals)
    PROVE  /\ [b EXCEPT !.signals = signals] \in BookSet
           /\ Good([b EXCEPT !.signals = signals], books)
<1>1. PICK x : x = [b EXCEPT !.signals = signals]
  OBVIOUS
<1>2. /\ x \in BookSet /\ x.cash = b.cash /\ x.held = b.held /\ x.orders = b.orders
      /\ x.base = b.base /\ x.signals = signals
  BY <1>1 DEF BookSet
<1>3. Payments(x) = Payments(b) /\ \A s : Flow(x, s) = Flow(b, s)
  BY <1>2 DEF Payments, Flow
<1>4. BaseIn(x, books) = BaseIn(b, books)
  BY <1>2 DEF BaseIn
<1>5. Balanced(x, books)
  BY <1>2, <1>3, <1>4 DEF Balanced
<1>6. MarketValue(x, signals) = MarketValue(b, signals)
  BY <1>2 DEF MarketValue
<1>7. Within(x, x.signals)
  BY <1>2, <1>6 DEF Within
<1> QED BY <1>1, <1>2, <1>5, <1>7 DEF Good

LEMMA TradedStep == ASSUME DryInv, NEW j \in Jobs, Traded(j) PROVE DryInv'
<1>1. /\ job[j].at = "trade" /\ JobOK(job[j], saved) /\ job[j].book \in BookSet
      /\ job[j].signals \in Seq(SignalSet) /\ UNCHANGED <<ohlcv, saved, told>>
  BY JobFacts DEF Traded, At
<1>2. Balanced(job[j].book, saved) /\ Within(job[j].book, job[j].signals)
  BY <1>1 DEF JobOK
<1>3. PICK b \in BookSet : b = [job[j].book EXCEPT !.signals = job[j].signals] /\ Good(b, saved)
  BY <1>1, <1>2, SignalsKept
<1>4. PICK y : y = [Off EXCEPT !.at = "save", !.book = b]
  OBVIOUS
<1>5. y \in JobSet /\ y.at = "save" /\ y.book = b /\ y.signals = << >>
  BY <1>4, DefaultTyped DEF Off, JobSet, Stages
<1>6. JobOK(y, saved)
  BY <1>3, <1>5 DEF JobOK, OnePerSymbol
<1>7. job' = [job EXCEPT ![j] = y]
  BY <1>3, <1>4 DEF Traded
<1> QED BY <1>1, <1>5, <1>6, <1>7, JobStep

LEMMA SaveStep == ASSUME DryInv, NEW j \in Jobs, Save(j) PROVE DryInv'
<1>1. /\ job[j] \in JobSet /\ job[j].at = "save" /\ JobOK(job[j], saved) /\ saved \in Seq(BookSet)
      /\ job[j].book \in BookSet /\ UNCHANGED <<ohlcv, told>>
      /\ saved' = Append(saved, job[j].book)
  BY JobFacts DEF Save, At
<1>2. /\ saved' \in Seq(BookSet) /\ Len(saved) \in Nat /\ Len(saved') = Len(saved) + 1
      /\ saved'[Len(saved) + 1] = job[j].book
      /\ \A i \in 1 .. Len(saved) : saved'[i] = saved[i] /\ i \in 1 .. Len(saved')
  BY <1>1
<1>3. /\ \A b : Good(b, saved) => Good(b, saved')
      /\ \A x : JobOK(x, saved) => JobOK(x, saved')
  BY <1>1, OneMoreSaved
<1>4. Good(job[j].book, saved')
  BY <1>1, <1>3 DEF JobOK
<1>5. BooksInv'
  <2>1. \A i \in 1 .. Len(saved) : Good(saved[i], saved) /\ saved[i].base < i
    BY DEF DryInv, BooksInv
  <2>2. ASSUME NEW i \in 1 .. Len(saved') PROVE Good(saved'[i], saved') /\ saved'[i].base < i
    <3>1. CASE i = Len(saved) + 1
      <4>1. job[j].book.base \in 0 .. Len(saved)
        BY <1>1 DEF JobOK, Good, Balanced
      <4>2. job[j].book.base < Len(saved) + 1
        BY <1>2, <4>1
      <4> QED BY <1>2, <1>4, <3>1, <4>2
    <3>2. CASE i \in 1 .. Len(saved)
      BY <1>2, <1>3, <2>1, <3>2
    <3> QED BY <1>2, <3>1, <3>2
  <2>3. Saved \subseteq Saved'
    <3>1. ASSUME NEW b \in Saved PROVE b \in Saved'
      <4>1. PICK i \in 1 .. Len(saved) : b = saved[i]
        BY DEF Saved
      <4> QED BY <1>2, <4>1 DEF Saved
    <3> QED BY <3>1
  <2>4. told' \subseteq Saved'
    BY <1>1, <2>3 DEF DryInv, BooksInv, ReportsSaved
  <2> QED BY <1>2, <2>2, <2>4 DEF BooksInv, ReportsSaved
<1>6. JobsInv'
  <2>1. PICK y : y = [job[j] EXCEPT !.at = "tell"]
    OBVIOUS
  <2>2. y \in JobSet /\ y.at = "tell" /\ y.book = job[j].book /\ y.signals = job[j].signals
    BY <1>1, <2>1 DEF JobSet, Stages
  <2>3. \E i \in 1 .. Len(saved') : y.book = saved'[i]
    <3>1. Len(saved) + 1 \in 1 .. Len(saved')
      BY <1>2
    <3> QED BY <1>2, <2>2, <3>1
  <2>4. JobOK(y, saved')
    BY <1>1, <1>4, <2>2, <2>3 DEF JobOK
  <2>5. job' = [job EXCEPT ![j] = y]
    BY <2>1 DEF Save
  <2>6. job \in [Jobs -> JobSet] /\ \A k \in Jobs : JobOK(job[k], saved')
    BY <1>3 DEF DryInv, JobsInv
  <2> QED BY <2>2, <2>4, <2>5, <2>6 DEF JobsInv
<1>7. BarsInv'
  BY <1>1 DEF DryInv, BarsInv
<1> QED BY <1>5, <1>6, <1>7 DEF DryInv

LEMMA TellStep == ASSUME DryInv, NEW j \in Jobs, Tell(j) PROVE DryInv'
<1>1. /\ job[j].at = "tell" /\ JobOK(job[j], saved) /\ UNCHANGED <<ohlcv, saved>>
      /\ told' = told \cup {job[j].book} /\ job' = [job EXCEPT ![j] = Off]
  BY JobFacts DEF Tell, At
<1>2. job[j].book \in Saved
  BY <1>1 DEF JobOK, Saved
<1>3. BooksInv'
  BY <1>1, <1>2 DEF DryInv, BooksInv, ReportsSaved, Saved
<1>4. JobsInv'
  BY <1>1, DefaultTyped, OffOK, OneJob
<1>5. BarsInv'
  BY <1>1 DEF DryInv, BarsInv
<1> QED BY <1>3, <1>4, <1>5 DEF DryInv

LEMMA FailsStep == ASSUME DryInv, NEW j \in Jobs, Fails(j) PROVE DryInv'
BY DefaultTyped, OffOK, JobFacts, JobStep DEF Fails

LEMMA NextStep == ASSUME DryInv, [Next]_vars PROVE DryInv'
<1>1. ASSUME NEW s \in Symbols, Expire(s) PROVE DryInv'
  BY <1>1, ExpireStep
<1>2. ASSUME NEW j \in Jobs, JobNext(j) PROVE DryInv'
  <2>1. CASE Begin(j)
    BY <2>1, BeginStep
  <2>2. CASE Refresh(j)
    BY <2>2, RefreshStep
  <2>3. CASE Refreshed(j)
    BY <2>3, TurnStep DEF Refreshed
  <2>4. CASE Forecast(j)
    BY <2>4, ForecastStep
  <2>5. CASE Forecasted(j)
    BY <2>5, TurnStep DEF Forecasted
  <2>6. CASE Load(j)
    BY <2>6, LoadStep
  <2>7. CASE Trade(j)
    BY <2>7, TradeStep
  <2>8. CASE Traded(j)
    BY <2>8, TradedStep
  <2>9. CASE Save(j)
    BY <2>9, SaveStep
  <2>10. CASE Tell(j)
    BY <2>10, TellStep
  <2>11. CASE Fails(j)
    BY <2>11, FailsStep
  <2> QED BY <1>2, <2>1, <2>2, <2>3, <2>4, <2>5, <2>6, <2>7, <2>8, <2>9, <2>10, <2>11 DEF JobNext
<1>3. CASE UNCHANGED vars
  <2>1. UNCHANGED <<ohlcv, job, saved, told, cycles>>
    BY <1>3 DEF vars
  <2>2. BarsInv' /\ JobsInv'
    BY <2>1 DEF DryInv, BarsInv, JobsInv
  <2>3. BooksInv'
    BY <2>1 DEF DryInv, BooksInv, ReportsSaved, Saved
  <2> QED BY <2>2, <2>3 DEF DryInv
<1> QED BY <1>1, <1>2, <1>3 DEF Next

LEMMA DryInvariance == Spec => []DryInv
<1>1. Init => DryInv
  BY InitInv
<1>2. DryInv /\ [Next]_vars => DryInv'
  BY NextStep
<1> QED BY <1>1, <1>2, PTL DEF Spec

-----------------------------------------------------------------------------
(***************************************************************************)
(* The theorems.                                                           *)
(***************************************************************************)
(* However the cycles overlap and wherever they fail, every portfolio that *)
(* save_paper_portfolio put into Redis has the cash and the holdings of    *)
(* one earlier portfolio, or of the default, changed by exactly the orders *)
(* of one cycle, and none of them is negative.                             *)
THEOREM PortfoliosConserved == Spec => []Conserved
<1>1. DryInv => Conserved
  <2> SUFFICES ASSUME DryInv, NEW n \in 1 .. Len(saved), NEW b, b = saved[n]
               PROVE  /\ b.base \in 0 .. n - 1
                      /\ b.cash \in Nat /\ b.held \in [Symbols -> Nat]
                      /\ b.cash + Payments(b) = BaseOf(b).cash
                      /\ \A s \in Symbols : b.held[s] = BaseOf(b).held[s] + Flow(b, s)
    BY DEF Conserved
  <2>1. saved \in Seq(BookSet) /\ Balanced(b, saved) /\ b.base < n
    BY DEF DryInv, BooksInv, Good
  <2>2. b \in BookSet
    BY <2>1
  <2>3. b.base \in 0 .. n - 1
    BY <2>1, <2>2 DEF BookSet
  <2>4. BaseOf(b) = BaseIn(b, saved)
    BY DEF BaseOf, BaseIn
  <2> QED BY <2>1, <2>2, <2>3, <2>4 DEF BookSet, Balanced
<1> QED BY <1>1, DryInvariance, PTL

(* No purchase of apply_signals left its symbol above max_position_pct of  *)
(* the portfolio, valued at the prices of the cycle's own signals, when    *)
(* the cycle's later signals had been applied as well.                     *)
THEOREM PurchasesCapped == Spec => []PurchaseWithinCap
<1>1. DryInv => PurchaseWithinCap
  <2> SUFFICES ASSUME DryInv, NEW b \in Saved, NEW i \in 1 .. Len(b.orders), b.orders[i].side = "BUY"
               PROVE  PctDen * b.held[b.orders[i].code] * b.orders[i].price <= PctNum * MarketValue(b, b.signals)
    BY DEF PurchaseWithinCap
  <2>1. Within(b, b.signals)
    BY DEF Saved, DryInv, BooksInv, Good
  <2> QED BY <2>1 DEF Within
<1> QED BY <1>1, DryInvariance, PTL

(* run_dry_run_cycle saves before it sends: a digest that was sent tells   *)
(* of a portfolio that is among the saved ones, also when the cycle, or    *)
(* another one, failed right after.                                        *)
THEOREM ReportsAreSaved == Spec => []ReportsSaved
<1>1. DryInv => ReportsSaved
  BY DEF DryInv, BooksInv
<1> QED BY <1>1, DryInvariance, PTL
=============================================================================

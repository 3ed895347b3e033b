-------------------------- MODULE MCPaperProposal --------------------------
(***************************************************************************)
(* PaperProposal over every small book (values around each division, each  *)
(* cap and each stop), and over snapshots with every kind of row.          *)
(***************************************************************************)
EXTENDS PaperProposal

CONSTANTS PriceValues, CashValues, HoldingValues, OtherValues, Targets, Peaks

(* Books on which trading is on, then the requests a switch, a duplicate   *)
(* or stale data stops.                                                    *)
Book(action, target, price, cash, holdings, other, peak) ==
    LET nav == cash + holdings * price + other IN
    [action |-> action, target |-> target, price |-> price, cash |-> cash,
     holdings |-> holdings, position_value |-> holdings * price + other, nav |-> nav,
     high_water |-> nav + peak, start_nav |-> nav + peak \div 2, orders |-> 0, fills |-> 0,
     enabled |-> TRUE, killed |-> FALSE, duplicate |-> FALSE, stale |-> FALSE]

OpenBooks ==
    {r \in {Book(action, target, price, cash, holdings, other, peak) :
            action \in {"ENTER", "HOLD", "REDUCE", "EXIT"}, target \in Targets,
            price \in PriceValues, cash \in CashValues, holdings \in HoldingValues,
            other \in OtherValues, peak \in Peaks} :
     RequestValid(r)}

StoppedBooks ==
    {[r EXCEPT !.enabled = enabled, !.killed = killed, !.duplicate = duplicate,
               !.stale = stale, !.orders = orders, !.fills = fills] :
     r \in {Book("ENTER", 5000, 3, 20, 1, 0, 0)},
     enabled, killed, duplicate, stale \in BOOLEAN,
     orders \in {0, DailyOrderCap}, fills \in {0, DailyFillCap}}

MCRequests == OpenBooks \cup StoppedBooks

(* The books proposals are made for: two are large enough for a basis      *)
(* point to be worth several shares.                                       *)
MCBooks == {Book("ABSTAIN", 0, 3, 20, 1, 0, 0), Book("ABSTAIN", 0, 3, 26, 0, 0, 0),
            Book("ABSTAIN", 0, 7, 0, 5, 5, 0), Book("ABSTAIN", 0, 1, 20001, 0, 0, 0),
            Book("ABSTAIN", 0, 1, 1, 20000, 0, 0)}

-----------------------------------------------------------------------------
(* Rows of two required names, an optional one, one of its group that is   *)
(* neither, and one without a group; the cutoff is 2.                      *)
MCGroupOf == [n \in {"close", "flow", "mu", "dram", "misc"} |->
                CASE n = "close" -> "price_volume" [] n = "flow" -> "domestic_investor_flow"
                  [] n \in {"mu", "dram"} -> "global_memory_price" [] n = "misc" -> "no group"]
MCCapOf   == [g \in {"price_volume", "domestic_investor_flow", "global_memory_price"} |-> 10]

Row(status, value, at, kst) == [status |-> status, value |-> value, at |-> at, kst |-> kst]
Good(v)    == Row("READY", <<v>>, 2, TRUE)
Void(status) == Row(status, NoValue, 2, TRUE)
Flaws == {Row("STALE", <<3>>, 1, TRUE), Void("READY"), Void("MISSING_OPTIONAL"), Void("LICENSE_BLOCKED")}

Absent == << >>
RowsOf(n) ==
    CASE n = "close" -> Flaws \cup {Absent, Good(70), Void("MISSING_REQUIRED"), Row("READY", <<3>>, 3, TRUE)}
      [] n = "flow"  -> Flaws \cup {Absent, Good(3), Good(-1200)}
      [] n = "mu"    -> Flaws \cup {Absent, Good(2), Good(30), Row("READY", <<2>>, 2, FALSE)}
      [] n = "dram"  -> {Absent, Good(3), Void("READY")}
      [] n = "misc"  -> {Absent, Good(1), Void("LICENSE_BLOCKED")}

Selection(f) == [n \in {m \in DOMAIN f : f[m] # Absent} |-> f[n]]
Selections ==
    {Selection([close |-> c, flow |-> f, mu |-> m, dram |-> d, misc |-> x]) :
       c \in RowsOf("close"), f \in RowsOf("flow"), m \in RowsOf("mu"),
       d \in RowsOf("dram"), x \in RowsOf("misc")}
Usual == Selection([close |-> Good(70), flow |-> Good(3), mu |-> Good(2), dram |-> Absent, misc |-> Absent])

Input(selected, snapshot) ==
    [selected |-> selected, snapshot |-> snapshot, cutoff |-> 2, hash |-> SnapshotHash(snapshot)]

(* What the engine makes; the same with nothing amiss in its lists; and    *)
(* one flaw of every other kind in the usual snapshot.                     *)
Cleared(s) ==
    WithId([s EXCEPT !.missing_required = {}, !.stale_required = {}, !.license_blocked = {},
                     !.state = "PARTIAL_DATA", !.scoring_allowed = TRUE])
FlawedInputs ==
    LET s == EngineOutput(Usual, 2) IN
    {Input(Usual, t) :
       t \in {WithId([s EXCEPT !.caps["price_volume"] = 11]),
              WithId([s EXCEPT !.contributions["domestic_investor_flow"] = 9]),
              WithId([s EXCEPT !.as_of = 1]), WithId([s EXCEPT !.rows["flow"].status = "OK"]),
              [s EXCEPT !.output_id = << >>],
              [s EXCEPT !.exact = FALSE]}}
      \cup {[Input(Usual, s) EXCEPT !.cutoff = 1], [Input(Usual, s) EXCEPT !.hash = << >>]}

MCInputs ==
    {Input(selected, EngineOutput(selected, 2)) : selected \in Selections}
      \cup {Input(selected, Cleared(EngineOutput(selected, 2))) : selected \in Selections}
      \cup FlawedInputs

(* Every action with every target, reason and kind of citation, and a      *)
(* valid answer with one flaw of every other kind.                         *)
Answer(action, target, reason, cites) ==
    [action |-> action, target |-> target, confidence |-> 0, cites |-> cites, gaps |-> {},
     reason |-> reason, copy |-> TRUE, schema |-> TRUE]

MCAnswers(r) ==
    LET held   == (r.holdings.value * 100000) \div r.holdings.total
        hold   == Answer("HOLD", held, "none", r.catalog)
        replay == {[e EXCEPT !.context.cutoff = 0] : e \in r.catalog}
    IN  {Answer(action, target, reason, cites) :
           action \in {"ENTER", "HOLD", "REDUCE", "EXIT", "ABSTAIN"},
           target \in {0, 1, 6, 30001, 33335, 50000, 50001, held},
           reason \in {"none", "NO_EDGE", "DATA_STALE_REQUIRED"},
           cites \in {{Anchor(r.context)}, r.catalog}}
        \cup {[hold EXCEPT !.copy = FALSE], [hold EXCEPT !.schema = FALSE],
              [hold EXCEPT !.confidence = 10001], [hold EXCEPT !.cites = replay],
              [hold EXCEPT !.gaps = r.catalog], [hold EXCEPT !.gaps = Unavailable(r.catalog)]}
=============================================================================

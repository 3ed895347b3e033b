----------------------------- MODULE KsfSignals -----------------------------
(***************************************************************************)
(* What a production run reads, and what it concludes: the collectors      *)
(* (inference/k_semiconductor_*_collector.py, ksf/global_collector.py)     *)
(* append feature rows, the engine (ksf/feature_engine.py) selects the     *)
(* latest of every name as of a cutoff, ksf/scoring.py gates and scores.   *)
(*                                                                         *)
(* One symbol: no row of one is ever read for the other, and the stages    *)
(* in which both must succeed are in KsfStore.  A value is abstracted to   *)
(* the date it was observed for; the features of one response that share   *)
(* their fate are one name: "close" is also the volume of the symbol, but  *)
(* "return", its one-day return, is a name of its own.                     *)
(*                                                                         *)
(* Time: three instants a day, the morning (09:00, where a date without a  *)
(* time of day stands: midnight UTC), the Korean close (15:30) and 16:00.  *)
(* No cutoff is before 09:00 (the timer runs at 16:10): there, a row that  *)
(* Missing labels with the date could not be selected yet.                 *)
(*                                                                         *)
(* Bounds of the model: LastDay days, MaxRuns runs; no two runs with the   *)
(* same cutoff.                                                            *)
(***************************************************************************)
EXTENDS Integers, Sequences, FiniteSetsExt

CONSTANTS
    LastDay,     \* the last day
    Holidays,    \* days without a KRX session
    MaxRuns,
    Optional,    \* of {"peer", "tsm", "usdkrw"}, what the global stage collects
    StaleAfter   \* [Optional -> days after which an observation is stale]

Days     == 1 .. LastDay
Sessions == Days \ Holidays

ASSUME SignalsAssumption ==
    /\ LastDay \in Nat /\ MaxRuns \in Nat /\ Holidays \subseteq Days
    /\ Optional \subseteq {"peer", "tsm", "usdkrw"} /\ StaleAfter \in [Optional -> Nat]

Label(d)  == 3 * d
Close(d)  == 3 * d + 1
Due(d)    == 3 * d + 2
DayOf(t)  == t \div 3

Required == {"flow", "close"}
Names    == Required \cup Optional   \* what the gate looks at
Stored   == Names \cup {"return"}

VARIABLES
    now,
    rows,       \* ksf_normalized_features, but for the copies of scored runs
    run,        \* the production run: [stage, cutoff, session]
    begun,      \* how many runs have begun
    scored      \* the runs scored: [session, cutoff, inputs, snapshot]

signals == <<now, rows, run, begun, scored>>

Idle == [stage |-> "idle", cutoff |-> 0, session |-> 0]

SignalsInit ==
    /\ now = Label(1) /\ rows = {}
    /\ run = Idle /\ begun = 0 /\ scored = << >>

-----------------------------------------------------------------------------
(***************************************************************************)
(* When an observation labelled with a date exists: a US close of date d   *)
(* at 16:00 in New York, the next morning in Korea                         *)
(***************************************************************************)
Published(source, d) ==
    CASE source \in {"peer", "fred"}                   -> Label(d + 1)
      [] source \in {"tsm", "flow", "close", "return"} -> Close(d)
      [] source = "bok"                                -> Due(d)

IsSourceLabelAvailable(source, d, cutoff) == Label(d) <= cutoff  \* mutant: compares the labels
IsSourceDateAvailable(source, d, cutoff)  == Published(source, d) <= cutoff

(* The latest date a response that ends with date v has for the cutoff,    *)
(* 0 if there is none.                                                     *)
Observed(source, v, cutoff) ==
    Max({0} \cup {d \in 1 .. v : IsSourceDateAvailable(source, d, cutoff)})

(* The sessions that have closed, and the latest of them. *)
Completed(t)     == {d \in Sessions : Close(d) <= t}
LatestSession(t) == Max({0} \cup Completed(t))

-----------------------------------------------------------------------------
(***************************************************************************)
(* Rows                                                                    *)
(***************************************************************************)
Row(name, source, status, date) ==
    [name |-> name, source |-> source, status |-> status, date |-> date,
     ingested |-> run.cutoff, cutoff |-> run.cutoff]

StatusForLag(name, d) == IF DayOf(run.cutoff) - d > StaleAfter[name] THEN "STALE" ELSE "READY"

ReadyOrStale(name, d) == Row(name, Label(d), StatusForLag(name, d), d)
(* A flow is an estimate of the broker and carries the time of the cutoff, *)
(* a price that of its close.                                              *)
FlowRow(d)            == Row("flow", run.cutoff, "READY", d)
CloseRow(d)           == Row("close", Close(d), "READY", d)
ReturnRow(d)          == Row("return", Close(d), "READY", d)
(* A missing value is labelled with the date of the cutoff ... *)
Missing(name)         == Row(name, Label(DayOf(run.cutoff)), "MISSING_OPTIONAL", 0)
(* ... and one lost to an exception with the cutoff itself. *)
FailedWithoutTime(name) == Row(name, 0, "MISSING_OPTIONAL", 0)  \* mutant: the source time is unknown
Failed(name)          == Row(name, run.cutoff, "MISSING_OPTIONAL", 0)

-----------------------------------------------------------------------------
(***************************************************************************)
(* The stages of a run.  A stage that raises ends the run; the rows of the *)
(* stages before it stay.                                                  *)
(***************************************************************************)
At(stage) == run.stage = stage
To(stage) == run' = [run EXCEPT !.stage = stage]

Tick == now < 3 * LastDay + 2 /\ now' = now + 1
        /\ UNCHANGED <<rows, run, begun, scored>>

BeginRun ==
    /\ At("idle") /\ begun < MaxRuns
    /\ LatestSession(now) # 0
    /\ \A i \in 1 .. Len(scored) : scored[i].cutoff # now
    /\ \A r \in rows : r.ingested # now
    /\ run' = [stage |-> "domestic", cutoff |-> now, session |-> LatestSession(now)]
    /\ begun' = begun + 1
    /\ UNCHANGED <<now, rows, scored>>

StageFails == ~At("idle") /\ run' = Idle /\ UNCHANGED <<now, rows, begun, scored>>

(* collect_symbol of the investor flow: the latest row of the response     *)
(* must be of the latest session completed at the cutoff; what is stored   *)
(* carries the cutoff as its source time.                                  *)
ValidFlowDate(d) == d \in Completed(run.cutoff) /\ ~\E s \in Completed(run.cutoff) : s > d

CollectDomestic ==
    /\ At("domestic")
    /\ \E d \in 1 .. DayOf(now) :
         /\ ValidFlowDate(d)
         /\ rows' = rows \cup {FlowRow(d)}
    /\ To("domestic_price")
    /\ UNCHANGED <<now, begun, scored>>

(* collect_symbol of the price: the latest of the rows that had closed at  *)
(* the cutoff; it, too, must be of the latest completed session.  Its      *)
(* return is stored only if the response has an earlier row, and nothing   *)
(* marks it as missing otherwise.                                          *)
PriceRows(d) == {{CloseRow(d)}, {CloseRow(d), ReturnRow(d)}}

CollectPriceOrSkip ==  \* mutant: a failure of the stage is swallowed
    /\ At("domestic_price")
    /\ \E v \in 0 .. DayOf(now) :
         LET d == Observed("close", v, run.cutoff) IN
         \E new \in PriceRows(d) :
           rows' = IF ValidFlowDate(d) THEN rows \cup new ELSE rows
    /\ To("global")
    /\ UNCHANGED <<now, begun, scored>>
CollectPrice ==
    /\ At("domestic_price")
    /\ \E v \in 0 .. DayOf(now) :
         LET d == Observed("close", v, run.cutoff) IN
         /\ ValidFlowDate(d)
         /\ \E new \in PriceRows(d) : rows' = rows \cup new
    /\ To("global")
    /\ UNCHANGED <<now, begun, scored>>

(* What a response may have for the cutoff: it ends anywhere, but with     *)
(* nothing older than what was stored before; FRED follows the Bank of     *)
(* Korea at a distance.                                                    *)
Served(name, source) == IF source = "fred" THEN 0
                        ELSE Max({0} \cup {r.date : r \in {q \in rows : q.name = name}})
Answers(name, source) == {Observed(source, v, run.cutoff) : v \in Served(name, source) .. DayOf(now)}

Fresh(name, source)   == {ReadyOrStale(name, d) : d \in Answers(name, source) \ {0}}

(* collect_alpha_vantage_peer: no key, a rate limit, a vendor error or no  *)
(* observation are a missing value; an exception is caught by the caller.  *)
PeerRows == Fresh("peer", "peer") \cup {Missing("peer"), Failed("peer")}

(* collect_twse_tsm raises when there is nothing; only the close is then   *)
(* stored as missing.                                                      *)
TsmRows == Fresh("tsm", "tsm") \cup {Failed("tsm")}

(* collect_usdkrw: the Bank of Korea, else FRED, else missing.  An answer  *)
(* that cannot be parsed raises, and ends the run.                         *)
FxRows == Fresh("usdkrw", "bok") \cup Fresh("usdkrw", "fred") \cup {Missing("usdkrw")}

RowsOf(name) == CASE name = "peer" -> PeerRows [] name = "tsm" -> TsmRows [] name = "usdkrw" -> FxRows

CollectGlobal ==
    /\ At("global")
    /\ LET offered == UNION {RowsOf(n) : n \in Optional} IN
       \E new \in {f \in [Optional -> offered] : \A n \in Optional : f[n].name = n} :
         rows' = rows \cup {new[n] : n \in Optional}
    /\ To("score")
    /\ UNCHANGED <<now, begun, scored>>

-----------------------------------------------------------------------------
(***************************************************************************)
(* The engine: of every name the row with the latest source time, then the *)
(* latest ingestion, among those that were there at the cutoff             *)
(***************************************************************************)
KnownAtBySource(rs, cutoff) == {r \in rs : r.source <= cutoff}  \* mutant: ignores when a row was written
KnownAt(rs, cutoff) ==
    {r \in rs : r.source <= cutoff /\ r.ingested <= cutoff /\ r.cutoff <= cutoff}

Precedes(r, s) == r.source > s.source \/ (r.source = s.source /\ r.ingested >= s.ingested)

LatestFeatures(rs, cutoff) ==
    LET known == KnownAt(rs, cutoff) IN
    {r \in known : \A s \in known : s.name = r.name => Precedes(r, s)}

MissingOf(latest, names) ==
    {n \in names : ~\E r \in latest : r.name = n /\ r.status \in {"READY", "STALE"}}
StaleOf(latest) == {n \in Required : \E r \in latest : r.name = n /\ r.status = "STALE"}

State(latest) ==
    CASE MissingOf(latest, Required) # {}                            -> "MISSING_REQUIRED_DATA"
      [] MissingOf(latest, Required) = {} /\ StaleOf(latest) # {}    -> "STALE_DATA"
      [] MissingOf(latest, Names) # {} /\ MissingOf(latest, Required) = {}
           /\ StaleOf(latest) = {}                                   -> "PARTIAL_DATA"
      [] OTHER                                                       -> "READY"

(* What the snapshot's hash is taken of: the features and the state. *)
BuildSymbol(rs, cutoff) ==
    LET latest == LatestFeatures(rs, cutoff) IN
    [state    |-> State(latest),
     features |-> {[name |-> r.name, status |-> r.status, date |-> r.date, source |-> r.source] :
                     r \in latest}]

ScoringAllowed(snapshot) == snapshot.state \in {"READY", "PARTIAL_DATA"}

-----------------------------------------------------------------------------
(***************************************************************************)
(* persist_scoring: the selected rows are copied into the scoring run with *)
(* its cutoff and the time they were ingested; the decisions carry the     *)
(* hash of the snapshot                                                    *)
(***************************************************************************)
AllRows == rows \cup UNION {scored[i].inputs : i \in 1 .. Len(scored)}

CopyAsIs(r, cutoff) == r  \* mutant: the copy keeps the cutoff of the row
Copy(r, cutoff) == [r EXCEPT !.cutoff = cutoff]

PersistScoring ==
    /\ At("score")
    /\ ScoringAllowed(BuildSymbol(AllRows, run.cutoff))
    /\ scored' = Append(scored,
         [session  |-> run.session, cutoff |-> run.cutoff,
          inputs   |-> {Copy(r, run.cutoff) : r \in LatestFeatures(AllRows, run.cutoff)},
          snapshot |-> BuildSymbol(AllRows, run.cutoff)])
    /\ run' = Idle
    /\ UNCHANGED <<now, rows, begun>>

SignalsNext ==
    \/ Tick \/ BeginRun \/ StageFails \/ CollectDomestic \/ CollectPrice \/ CollectGlobal
    \/ PersistScoring

-----------------------------------------------------------------------------
(***************************************************************************)
(* load_ksf_sqlite: the rows of a scoring run must tell its snapshot again *)
(***************************************************************************)
LoaderAccepts(s) ==
    /\ \A r \in s.inputs : r.cutoff = s.cutoff /\ r.source <= s.cutoff /\ r.ingested <= s.cutoff
    /\ \A r, q \in s.inputs : r.name = q.name => r = q
    /\ LET snapshot == BuildSymbol(s.inputs, s.cutoff)
       IN  ScoringAllowed(snapshot) /\ snapshot = s.snapshot

-----------------------------------------------------------------------------
(***************************************************************************)
(* Properties                                                              *)
(***************************************************************************)
(* No run uses an observation that was not public at its cutoff, whatever  *)
(* the date it is labelled with.                                           *)
NoLookAhead ==
    \A i \in 1 .. Len(scored) : \A f \in scored[i].snapshot.features :
        f.date # 0 =>
            IF f.name = "usdkrw"
            THEN Published("bok", f.date) <= scored[i].cutoff
            ELSE Published(f.name, f.date) <= scored[i].cutoff

(* A run is scored on the close, the volume and the flow of the latest     *)
(* session that had closed at its cutoff: the gate does not compare dates, *)
(* so this rests on the collection stages that end the run.  It is not     *)
(* true of the return: one that was not stored leaves that of an earlier   *)
(* session selected, READY and voting.                                     *)
RequiredOfItsSession ==
    \A i \in 1 .. Len(scored) : \A f \in scored[i].snapshot.features :
        f.name \in Required =>
            f.date = scored[i].session /\ f.date = LatestSession(scored[i].cutoff)

(* What was selected for a cutoff is what would be selected for it today:  *)
(* later runs and the copies of scored ones do not change the past.        *)
AsOfStable ==
    \A i \in 1 .. Len(scored) : BuildSymbol(AllRows, scored[i].cutoff) = scored[i].snapshot

(* A scored run can be loaded: its own rows tell the snapshot its          *)
(* decisions were made of.                                                 *)
Loadable == \A i \in 1 .. Len(scored) : LoaderAccepts(scored[i])

(* An observation is not ready for ever: staleness is recorded when a row  *)
(* is written and never recomputed, so an old row must have been           *)
(* superseded by whatever the later runs wrote.  (The exchange rate is     *)
(* left out: its fallback is older than what it replaces.  So are volume   *)
(* and trade value of TSM, which a failed collection leaves as they were,  *)
(* and cutoffs before 09:00, see above.)                                   *)
ReadyIsFresh ==
    \A i \in 1 .. Len(scored) : \A f \in scored[i].snapshot.features :
        f.name \in Optional \ {"usdkrw"} /\ f.status = "READY" =>
            DayOf(scored[i].cutoff) - f.date <= StaleAfter[f.name]
=============================================================================

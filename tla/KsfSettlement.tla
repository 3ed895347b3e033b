---------------------------- MODULE KsfSettlement ----------------------------
(***************************************************************************)
(* What became of the decisions of the scored runs: every decision is      *)
(* settled once, some sessions later, against closing prices               *)
(* (ksf/performance_settlement.py, on the runs of KsfSignals).  The caller *)
(* brings a calendar and price bars.                                       *)
(*                                                                         *)
(* A closing price is there at the close and corrected the next morning.   *)
(* Every decision has one row, keyed by the run and the horizon; what is   *)
(* computed from the two prices is a function of them.                     *)
(*                                                                         *)
(* The number of settlement calls is not bounded.                          *)
(***************************************************************************)
EXTENDS KsfSignals

CONSTANT Horizons

ASSUME SettlementAssumption == Horizons \subseteq Nat \ {0}

VARIABLES
    settlements,  \* partial function from <<run, horizon>> to the row
    asOf          \* the as_of_kst of a call that has just returned, else 0

settling == <<settlements, asOf>>
desk     == <<signals, settling>>

DeskInit == SignalsInit /\ settlements = << >> /\ asOf = 0

Decisions == (1 .. Len(scored)) \X Horizons
StatusRow(d, status, target, due, bars) ==
    [status |-> status, target |-> target, due |-> due, cutoff |-> asOf', bars |-> bars]
SettledRow(d, target, bars) == StatusRow(d, "SETTLED", target, Due(target), bars)

-----------------------------------------------------------------------------
(***************************************************************************)
(* Bars: [date, at], at is the instant the bar was there.  The callers     *)
(* assumed bring the bar of the close whenever they bring a date, next to  *)
(* its correction: settle_due_decisions does not ask for it, and settles   *)
(* on a correction that comes alone.                                       *)
(***************************************************************************)
BarsUpTo(d) == {[date |-> s, at |-> Close(s)] : s \in Sessions \cap 1 .. d}
                 \cup {[date |-> s, at |-> Label(s + 1)] : s \in Sessions \cap 1 .. d}

Calendars == {Sessions \cap 1 .. d : d \in 0 .. LastDay}

Eligible(bars, d) == {b \in bars : b.date = d /\ b.at <= asOf'}

SelectLatestBar(bars, d) == {b \in Eligible(bars, d) : \A c \in Eligible(bars, d) : c.at <= b.at}  \* mutant
SelectBar(bars, d)       == {b \in Eligible(bars, d) : \A c \in Eligible(bars, d) : b.at <= c.at}

(* The session so many sessions after the base, 0 if the calendar does not *)
(* reach that far.                                                         *)
Target(calendar, base, h) ==
    LET after == {s \in calendar : s > base} IN
    IF base \notin calendar \/ Cardinality(after) < h THEN 0
    ELSE CHOOSE s \in after : Cardinality({q \in after : q <= s}) = h

-----------------------------------------------------------------------------
(***************************************************************************)
(* settle_due_decisions                                                    *)
(***************************************************************************)
Settled(k) == k \in DOMAIN settlements /\ settlements[k].status = "SETTLED"

IsDue(target)     == Due(target) <= asOf'

Outcome(k, calendar, bars) ==
    LET base   == scored[k[1]].session
        target == Target(calendar, base, k[2])
        from   == SelectBar(bars, base)
        to     == SelectBar(bars, target)
    IN  CASE target = 0                              -> StatusRow(k, "CALENDAR_BLOCKED", 0, asOf', {})
          [] target # 0 /\ ~IsDue(target)            -> StatusRow(k, "PENDING_SETTLEMENT", target, Due(target), {})
          [] target # 0 /\ IsDue(target) /\ {} \in {from, to}
                                                     -> StatusRow(k, "MISSING_PRICE", target, Due(target), {})
          [] OTHER                                   -> SettledRow(k, target, from \cup to)

(* trg_ksf_settlements_identity_immutable: the due time of a row is final. *)
(* A call that would change one raises; none of what it did is committed.  *)
(* A call that finds no decision does nothing, and is no step.             *)
Refused(outcomes) ==
    \E k \in DOMAIN settlements : ~Settled(k) /\ settlements[k].due # outcomes[k].due

SettleAgain ==  \* mutant: settled rows are not skipped
    /\ Decisions # {}
    /\ asOf' = now
    /\ \E calendar \in Calendars, bars \in {BarsUpTo(d) : d \in 0 .. DayOf(now)} :
         LET outcomes == [d \in Decisions |-> Outcome(d, calendar, bars)]
         IN  settlements' = IF Refused(outcomes) THEN settlements ELSE outcomes
    /\ UNCHANGED signals
Settle ==
    /\ Decisions # {}
    /\ asOf' = now
    /\ \E calendar \in Calendars, bars \in {BarsUpTo(d) : d \in 0 .. DayOf(now)} :
         LET outcomes == [d \in Decisions |-> Outcome(d, calendar, bars)]
         IN  settlements' =
               IF Refused(outcomes) THEN settlements
               ELSE [d \in Decisions |-> IF Settled(d) THEN settlements[d] ELSE outcomes[d]]
    /\ UNCHANGED signals

DeskNext == (SignalsNext /\ asOf' = 0 /\ UNCHANGED settlements) \/ Settle

DeskSpec == DeskInit /\ [][DeskNext]_desk

-----------------------------------------------------------------------------
(***************************************************************************)
(* Properties                                                              *)
(***************************************************************************)
(* A settled decision keeps its result: neither another calendar nor       *)
(* corrected prices settle it again.                                       *)
SettledOnce ==
    [][\A k \in DOMAIN settlements : Settled(k) =>
          k \in DOMAIN settlements' /\ settlements'[k] = settlements[k]]_desk

(* A result is a function of the decision and the horizon: it is about the *)
(* session so many sessions later, computed once that session's close was  *)
(* confirmed, and a price corrected in between is not used, as long as the *)
(* caller still brings the one confirmed at the close (BarsUpTo).          *)
SettledReproducible ==
    \A k \in DOMAIN settlements : Settled(k) =>
        LET s    == settlements[k]
            base == scored[k[1]].session
        IN  /\ s.target \in Sessions /\ Due(s.target) <= s.cutoff
            /\ Cardinality({d \in Sessions : base < d /\ d <= s.target}) = k[2]
            /\ s.bars = {[date |-> d, at |-> Close(d)] : d \in {base, s.target}}

(* docs/k-semiconductor-flow-desk-sqlite-ledger-schema.md:232 of a row the *)
(* calendar blocks: it records the time of the settlement run.             *)
BlockedStampsTheRun ==
    \A k \in DOMAIN settlements :
        asOf # 0 /\ settlements[k].status = "CALENDAR_BLOCKED" => settlements[k].due = asOf
=============================================================================

------------------------- MODULE KsfSettlementProofs -------------------------
(***************************************************************************)
(* For every calendar, every choice of horizons and optional sources, any  *)
(* number of runs and of settlement calls: no scored run looks ahead, the  *)
(* required features of each are of the session it is for, what was        *)
(* selected for its cutoff stays what is selected, its own rows tell its   *)
(* snapshot again, what it calls ready is fresh; a decision is settled     *)
(* once, and its result is a function of the decision and the horizon.     *)
(*                                                                         *)
(* The argument for the runs: a row says when it was written and never     *)
(* tells of anything later (RowOK); cutoffs grow from run to run, so that  *)
(* whatever is written later is invisible at an earlier cutoff             *)
(* (LaterIsInvisible); and a copy differs from its row in nothing the      *)
(* engine looks at (CopiesAddNothing, CopiesTellAgain).  SignalsInv        *)
(* carries this, and what the stages of the run in progress have written.  *)
(*                                                                         *)
(* The argument for the result: the sessions after the base are counted    *)
(* one by one, so the one at the horizon exists and the sessions up to it  *)
(* are the same in every calendar that reaches it (CountsUp); of the bars  *)
(* of a date the one of the close is the first, and it is there whenever   *)
(* any is (SelectedBar).                                                   *)
(***************************************************************************)
EXTENDS KsfSettlement, FiniteSetTheorems, WellFoundedInduction, TLAPS

-----------------------------------------------------------------------------
(***************************************************************************)
(* Sequences, maxima and days.                                             *)
(***************************************************************************)
LEMMA AppendFacts ==
    ASSUME NEW S, NEW s \in Seq(S), NEW e \in S
    PROVE  /\ Append(s, e) \in Seq(S) /\ Len(s) \in Nat
           /\ Len(Append(s, e)) = Len(s) + 1
           /\ \A i \in 1 .. Len(s) : Append(s, e)[i] = s[i]
           /\ Append(s, e)[Len(s) + 1] = e
  OBVIOUS

LEMMA ElementOfSeq ==
    ASSUME NEW S, NEW s \in Seq(S), NEW i \in 1 .. Len(s)
    PROVE  s[i] \in S
  OBVIOUS

LEMMA LeastNatural ==
    ASSUME NEW S \in SUBSET Nat, S # {}
    PROVE  \E m \in S : \A n \in S : m <= n
<1> DEFINE Below == OpToRel(<, Nat)
<1>1. \A x, y \in Nat : <<x, y>> \in Below <=> x < y
  BY DEF OpToRel
<1> HIDE DEF Below
<1>2. IsWellFoundedOn(Below, Nat)
  BY NatLessThanWellFounded DEF Below
<1>3. PICK m \in S : \A n \in S : ~(<<n, m>> \in Below)
  BY <1>2, WFMin
<1>4. ASSUME NEW n \in S PROVE m <= n
  <2>1. m \in Nat /\ n \in Nat /\ ~(<<n, m>> \in Below)
    BY <1>3
  <2>2. ~(n < m)
    BY <2>1, <1>1
  <2> QED BY <2>1, <2>2
<1> QED BY <1>4

(* A bounded set of numbers that is not empty has its maximum. *)
LEMMA MaxOfBounded ==
    ASSUME NEW S \in SUBSET Nat, S # {}, NEW b \in Nat, \A x \in S : x <= b
    PROVE  Max(S) \in S /\ \A x \in S : x <= Max(S)
<1> DEFINE Bounds == {n \in Nat : \A x \in S : x <= n}
<1>1. PICK m \in Bounds : \A n \in Bounds : m <= n
  <2>1. Bounds \in SUBSET Nat /\ b \in Bounds
    OBVIOUS
  <2> QED BY <2>1, LeastNatural
<1>2. m \in S
  <2> SUFFICES ASSUME m \notin S PROVE FALSE
    OBVIOUS
  <2>1. PICK x \in S : TRUE
    OBVIOUS
  <2>2. m \in Nat /\ \A y \in S : y <= m - 1
    BY <1>1
  <2>3. m - 1 \in Nat
    BY <2>1, <2>2
  <2>4. m - 1 \in Bounds
    BY <2>2, <2>3
  <2> QED BY <1>1, <2>2, <2>4
<1>3. \E x \in S : \A y \in S : x >= y
  BY <1>1, <1>2
<1>4. Max(S) \in S /\ \A y \in S : Max(S) >= y
  BY <1>3, Zenon DEF Max
<1> QED BY <1>4

LEMMA DayFacts ==
    ASSUME NEW t \in Nat
    PROVE  DayOf(t) \in Nat /\ 3 * DayOf(t) <= t /\ t < 3 * DayOf(t) + 3
  BY Z3 DEF DayOf

(* The latest session, when there is one. *)
LEMMA LatestSessionFacts ==
    ASSUME NEW t \in Nat
    PROVE  /\ LatestSession(t) \in {0} \cup Completed(t)
           /\ \A s \in Completed(t) : s <= LatestSession(t)
           /\ \A d \in Completed(t) : (~\E s \in Completed(t) : s > d) => d = LatestSession(t)
<1> DEFINE S == {0} \cup Completed(t)
<1>1. Completed(t) \in SUBSET Nat /\ \A s \in Completed(t) : s <= t
  BY DEF Completed, Sessions, Days, Close
<1>2. S \in SUBSET Nat /\ S # {} /\ \A s \in S : s <= t
  BY <1>1
<1>3. Max(S) \in S /\ \A s \in S : s <= Max(S)
  BY <1>2, MaxOfBounded
<1>4. LatestSession(t) = Max(S)
  BY DEF LatestSession
<1>5. ASSUME NEW d \in Completed(t), ~\E s \in Completed(t) : s > d
      PROVE  d = LatestSession(t)
  <2>1. d <= Max(S) /\ d \in Nat /\ Max(S) \in Nat
    BY <1>2, <1>3
  <2>2. d > 0
    BY DEF Completed, Sessions, Days
  <2> QED BY <1>3, <1>4, <1>5, <2>1, <2>2
<1> QED BY <1>3, <1>4, <1>5

(* What a response has for a cutoff was there, and misses nothing that was. *)
LEMMA ObservedFacts ==
    ASSUME NEW source, NEW v \in Nat, NEW cutoff,
           NEW d, d = Observed(source, v, cutoff)
    PROVE  /\ d \in Nat /\ d <= v
           /\ d # 0 => IsSourceDateAvailable(source, d, cutoff)
           /\ \A e \in 1 .. v : IsSourceDateAvailable(source, e, cutoff) => e <= d
<1> DEFINE S == {0} \cup {e \in 1 .. v : IsSourceDateAvailable(source, e, cutoff)}
<1>1. S \in SUBSET Nat /\ S # {} /\ \A x \in S : x <= v
  OBVIOUS
<1>2. Max(S) \in S /\ \A x \in S : x <= Max(S)
  BY <1>1, MaxOfBounded
<1>3. d = Max(S)
  BY DEF Observed
<1> QED BY <1>1, <1>2, <1>3

-----------------------------------------------------------------------------
(***************************************************************************)
(* What the engine selects, and what it tells of it.                       *)
(***************************************************************************)
Statuses == {"READY", "STALE", "MISSING_OPTIONAL"}
RowSet   == [name : Stored, source : Nat, status : Statuses, date : Nat, ingested : Nat, cutoff : Nat]

Features(latest) == {[name |-> r.name, status |-> r.status, date |-> r.date, source |-> r.source] :
                        r \in latest}
Told(latest) == [state |-> State(latest), features |-> Features(latest)]

Alike(r, q) ==
    r.name = q.name /\ r.status = q.status /\ r.date = q.date /\ r.source = q.source

LEMMA BuildTells ==
    ASSUME NEW rs, NEW c
    PROVE  BuildSymbol(rs, c) = Told(LatestFeatures(rs, c))
  BY DEF BuildSymbol, Told, Features

(* What is told depends on nothing else of the rows. *)
LEMMA AlikeTellTheSame ==
    ASSUME NEW A, NEW B,
           \A r \in A : \E q \in B : Alike(r, q), \A q \in B : \E r \in A : Alike(r, q)
    PROVE  Told(A) = Told(B)
<1>1. Features(A) = Features(B)
  BY DEF Features, Alike
<1>2. ASSUME NEW names PROVE MissingOf(A, names) = MissingOf(B, names)
  BY DEF MissingOf, Alike
<1>3. StaleOf(A) = StaleOf(B)
  BY DEF StaleOf, Alike
<1>4. State(A) = State(B)
  BY <1>2, <1>3 DEF State
<1> QED BY <1>1, <1>4 DEF Told

(* Whatever is written with a later cutoff is invisible at an earlier one. *)
LEMMA LaterIsInvisible ==
    ASSUME NEW rs, NEW extra, NEW c, \A r \in extra : ~(r.cutoff <= c)
    PROVE  BuildSymbol(rs \cup extra, c) = BuildSymbol(rs, c)
<1>1. KnownAt(rs \cup extra, c) = KnownAt(rs, c)
  BY DEF KnownAt
<1>2. LatestFeatures(rs \cup extra, c) = LatestFeatures(rs, c)
  BY <1>1 DEF LatestFeatures
<1> QED BY <1>2, BuildTells

LEMMA CopyFacts ==
    ASSUME NEW r \in RowSet, NEW c \in Nat
    PROVE  /\ Copy(r, c) \in RowSet /\ Alike(Copy(r, c), r)
           /\ Copy(r, c).ingested = r.ingested /\ Copy(r, c).cutoff = c
           /\ Copy(r, c) = [name |-> r.name, source |-> r.source, status |-> r.status,
                            date |-> r.date, ingested |-> r.ingested, cutoff |-> c]
  BY DEF RowSet, Copy, Alike

LEMMA CopiesOfAlike ==
    ASSUME NEW r \in RowSet, NEW q \in RowSet, NEW c \in Nat, Alike(r, q), r.ingested = q.ingested
    PROVE  Copy(r, c) = Copy(q, c)
<1>1. /\ r.name = q.name /\ r.status = q.status /\ r.date = q.date /\ r.source = q.source
  BY DEF Alike
<1>2. Copy(r, c) = [name |-> r.name, source |-> r.source, status |-> r.status,
                    date |-> r.date, ingested |-> r.ingested, cutoff |-> c]
  BY CopyFacts
<1>3. Copy(q, c) = [name |-> q.name, source |-> q.source, status |-> q.status,
                    date |-> q.date, ingested |-> q.ingested, cutoff |-> c]
  BY CopyFacts
<1> QED BY <1>1, <1>2, <1>3

LEMMA LatestAreKnown ==
    ASSUME NEW rs, NEW c, NEW r \in LatestFeatures(rs, c)
    PROVE  r \in rs /\ r.source <= c /\ r.ingested <= c /\ r.cutoff <= c
  BY DEF LatestFeatures, KnownAt

CopiesOf(rs, c) == {Copy(r, c) : r \in LatestFeatures(rs, c)}

(* The copies of a scored run do not change what it was scored on ... *)
LEMMA CopiesAddNothing ==
    ASSUME NEW rs \in SUBSET RowSet, NEW c \in Nat,
           NEW copies, copies = CopiesOf(rs, c)
    PROVE  BuildSymbol(rs \cup copies, c) = BuildSymbol(rs, c)
<1> USE DEF CopiesOf
<1> DEFINE latest == LatestFeatures(rs, c)
           both   == LatestFeatures(rs \cup copies, c)
<1>1. \A r \in latest : r \in RowSet /\ r \in KnownAt(rs, c)
  BY DEF LatestFeatures, KnownAt
<1>2. ASSUME NEW q \in copies
      PROVE  \E r \in latest : Alike(q, r) /\ q.ingested = r.ingested
  BY <1>1, CopyFacts
<1>3. KnownAt(rs \cup copies, c) = KnownAt(rs, c) \cup copies
  <2>1. \A r \in latest : r.source <= c /\ r.ingested <= c
    BY LatestAreKnown
  <2>2. \A q \in copies : q.source <= c /\ q.ingested <= c /\ q.cutoff <= c
    BY <1>1, <2>1, CopyFacts DEF Alike
  <2> QED BY <2>2 DEF KnownAt
<1>4. ASSUME NEW r \in latest PROVE r \in both
  <2>1. ASSUME NEW s \in KnownAt(rs, c) \cup copies, s.name = r.name PROVE Precedes(r, s)
    <3>1. CASE s \in KnownAt(rs, c)
      BY <2>1, <3>1 DEF LatestFeatures
    <3>2. CASE s \in copies
      <4>1. PICK q \in latest : Alike(s, q) /\ s.ingested = q.ingested
        BY <3>2, <1>2
      <4>2. Precedes(r, q)
        BY <2>1, <4>1, <1>1 DEF LatestFeatures, Alike
      <4> QED BY <4>1, <4>2 DEF Precedes, Alike
    <3> QED BY <2>1, <3>1, <3>2
  <2> QED BY <2>1, <1>1, <1>3 DEF LatestFeatures
<1>5. ASSUME NEW r \in both PROVE \E q \in latest : Alike(r, q)
  <2>1. r \in KnownAt(rs, c) \cup copies
    BY <1>3 DEF LatestFeatures
  <2>2. CASE r \in KnownAt(rs, c)
    <3>1. r \in latest
      BY <2>2, <1>3 DEF LatestFeatures
    <3> QED BY <3>1 DEF Alike
  <2> QED BY <2>1, <2>2, <1>2
<1>6. Told(both) = Told(latest)
  BY <1>4, <1>5, AlikeTellTheSame DEF Alike
<1> QED BY <1>6, BuildTells

(* ... and tell it again without the other rows. *)
LEMMA CopiesTellAgain ==
    ASSUME NEW rs \in SUBSET RowSet, NEW c \in Nat,
           NEW copies, copies = CopiesOf(rs, c),
           \A r, q \in LatestFeatures(rs, c) : r.name = q.name => Copy(r, c) = Copy(q, c)
    PROVE  /\ \A r \in copies : r.cutoff = c /\ r.source <= c /\ r.ingested <= c
           /\ \A r, q \in copies : r.name = q.name => r = q
           /\ BuildSymbol(copies, c) = BuildSymbol(rs, c)
<1> USE DEF CopiesOf
<1> DEFINE latest == LatestFeatures(rs, c)
<1>1. ASSUME NEW r \in latest
      PROVE  r \in RowSet /\ r.source <= c /\ r.ingested <= c
  BY LatestAreKnown
<1>2. \A r \in copies : r.cutoff = c /\ r.source <= c /\ r.ingested <= c /\ r \in RowSet
  BY <1>1, CopyFacts DEF Alike
<1>3. ASSUME NEW r \in copies, NEW q \in copies, r.name = q.name PROVE r = q
  <2>1. PICK x \in latest : r = Copy(x, c)
    OBVIOUS
  <2>2. PICK y \in latest : q = Copy(y, c)
    OBVIOUS
  <2>3. x.name = y.name
    BY <1>1, <1>3, <2>1, <2>2, CopyFacts DEF Alike
  <2> QED BY <2>1, <2>2, <2>3
<1>4. KnownAt(copies, c) = copies
  BY <1>2 DEF KnownAt
<1>5. ASSUME NEW r \in copies PROVE Precedes(r, r)
  BY <1>2 DEF Precedes, RowSet
<1>6. LatestFeatures(copies, c) = copies
  BY <1>3, <1>4, <1>5 DEF LatestFeatures
<1>7. Told(copies) = Told(latest)
  <2>1. \A r \in copies : \E q \in latest : Alike(r, q)
    BY <1>1, CopyFacts
  <2>2. \A q \in latest : \E r \in copies : Alike(r, q)
    BY <1>1, CopyFacts
  <2> QED BY <2>1, <2>2, AlikeTellTheSame
<1> QED BY <1>2, <1>3, <1>6, <1>7, BuildTells

-----------------------------------------------------------------------------
(***************************************************************************)
(* The invariant.                                                          *)
(***************************************************************************)
(* When a value is public; the exchange rate of the fallback is older than *)
(* that of the Bank of Korea.                                              *)
Public(name, d) == Published(IF name = "usdkrw" THEN "bok" ELSE name, d)

(* What every row is, a copy too.                                          *)
RowOK(r) ==
    /\ r \in RowSet
    /\ r.source <= r.ingested
    /\ r.date # 0 => Public(r.name, r.date) <= r.ingested
    /\ r.name \in Required =>
         /\ r.date \in Completed(r.ingested) /\ r.date = LatestSession(r.ingested)
         /\ r.source = IF r.name = "flow" THEN r.ingested ELSE Close(r.date)
    /\ (r.name \in Optional \ {"usdkrw"} /\ r.status = "READY") =>
         /\ r.date # 0 /\ r.source = Label(r.date)
         /\ DayOf(r.ingested) - r.date <= StaleAfter[r.name]

(* A run writes one row of a name. *)
RowsInv ==
    /\ \A r \in rows : RowOK(r) /\ r.cutoff = r.ingested /\ r.ingested <= now
    /\ \A r, q \in rows : (r.name = q.name /\ r.ingested = q.ingested) => r = q

FeatureSet  == [name : Stored, status : Statuses, date : Nat, source : Nat]
States      == {"MISSING_REQUIRED_DATA", "STALE_DATA", "PARTIAL_DATA", "READY"}
SnapshotSet == [state : States, features : SUBSET FeatureSet]
ScoredSet   == [session : Nat, cutoff : Nat, inputs : SUBSET RowSet, snapshot : SnapshotSet]

(* What a scored run is for good: the properties are about its features. *)
NothingAhead(s) ==
    \A f \in s.snapshot.features : f.date # 0 => Public(f.name, f.date) <= s.cutoff
OfItsSession(s) ==
    \A f \in s.snapshot.features :
        f.name \in Required => f.date = s.session /\ f.date = LatestSession(s.cutoff)
FreshIfReady(s) ==
    \A f \in s.snapshot.features :
        (f.name \in Optional \ {"usdkrw"} /\ f.status = "READY") =>
            DayOf(s.cutoff) - f.date <= StaleAfter[f.name]
ScoredWell(s) == NothingAhead(s) /\ OfItsSession(s) /\ FreshIfReady(s) /\ LoaderAccepts(s)

CopiesRows(s) ==
    \A r \in s.inputs : RowOK(r) /\ r.cutoff = s.cutoff /\ \E q \in rows : r = Copy(q, r.cutoff)
StillSelected(s) == BuildSymbol(AllRows, s.cutoff) = s.snapshot
ScoredInv ==
    /\ scored \in Seq(ScoredSet)
    /\ \A i \in 1 .. Len(scored) :
         /\ ScoredWell(scored[i]) /\ scored[i].cutoff <= now
         /\ CopiesRows(scored[i]) /\ StillSelected(scored[i])

(* The run in progress is later than everything recorded, but for the rows *)
(* of its own stages so far.                                               *)
Stages == {"idle", "domestic", "domestic_price", "global", "score"}
Written(stage) ==
    CASE stage = "domestic"       -> {}
      [] stage = "domestic_price" -> {"flow"}
      [] stage = "global"         -> Required \cup {"return"}
      [] OTHER                    -> Stored
Wrote(name) == \E r \in rows : r.name = name /\ r.ingested = run.cutoff
Supersedes(r) ==
    \A q \in rows : (q.name = r.name /\ q.status = "READY" /\ q.ingested # r.ingested) => ~Precedes(q, r)

RunInv ==
    /\ now \in Nat
    /\ run \in [stage : Stages, cutoff : Nat, session : Nat]
    /\ ~At("idle") =>
         /\ run.cutoff <= now /\ run.session = LatestSession(run.cutoff)
         /\ \A i \in 1 .. Len(scored) : scored[i].cutoff < run.cutoff
         /\ \A r \in rows : r.ingested <= run.cutoff
         /\ \A r \in rows : r.ingested = run.cutoff => r.name \in Written(run.stage)
         /\ run.stage \in {"domestic_price", "global", "score"} => Wrote("flow")
         /\ run.stage \in {"global", "score"} => Wrote("close")
         /\ run.stage = "score" =>
              \A n \in Optional \ {"usdkrw"} :
                  \E r \in rows : r.name = n /\ r.ingested = run.cutoff /\ Supersedes(r)

SignalsInv == RowsInv /\ ScoredInv /\ RunInv

LEMMA SignalsInitially == SignalsInit => SignalsInv
<1> SUFFICES ASSUME SignalsInit PROVE SignalsInv
  OBVIOUS
<1>1. RowsInv
  BY DEF SignalsInit, RowsInv
<1>2. ScoredInv
  BY DEF SignalsInit, ScoredInv
<1>3. RunInv
  BY DEF SignalsInit, RunInv, Idle, Label, Stages, At
<1> QED BY <1>1, <1>2, <1>3 DEF SignalsInv

LEMMA ScoredTypes ==
    ASSUME ScoredInv, NEW i \in 1 .. Len(scored)
    PROVE  scored[i] \in ScoredSet
  BY ElementOfSeq DEF ScoredInv

(* Every row the engine can see is like one that a run wrote. *)
LEMMA AllRowsFacts ==
    ASSUME SignalsInv, NEW r \in AllRows
    PROVE  /\ RowOK(r) /\ r \in RowSet
           /\ \E q \in rows : r = Copy(q, r.cutoff)
<1>1. CASE r \in rows
  <2>1. RowOK(r) /\ r \in RowSet
    BY <1>1 DEF SignalsInv, RowsInv, RowOK
  <2>2. r = Copy(r, r.cutoff)
    BY <2>1 DEF Copy, RowSet
  <2> QED BY <1>1, <2>1, <2>2
<1>2. ASSUME NEW i \in 1 .. Len(scored), r \in scored[i].inputs
      PROVE  RowOK(r) /\ \E q \in rows : r = Copy(q, r.cutoff)
  BY <1>2 DEF SignalsInv, ScoredInv, CopiesRows
<1> QED BY <1>1, <1>2 DEF AllRows, RowOK

(* Nothing a run writes before it is scored is visible to an earlier one. *)
LEMMA RowsWritten ==
    ASSUME SignalsInv, ~At("idle"), NEW new,
           \A r \in new : /\ RowOK(r) /\ r.cutoff = run.cutoff /\ r.ingested = run.cutoff
                          /\ r.name \notin Written(run.stage),
           \A r, q \in new : r.name = q.name => r = q,
           rows' = rows \cup new, now' = now, scored' = scored
    PROVE  RowsInv' /\ ScoredInv'
<1>1. RowsInv'
  <2>1. ASSUME NEW r \in rows \cup new
        PROVE  RowOK(r) /\ r.cutoff = r.ingested /\ r.ingested <= now
    BY DEF SignalsInv, RowsInv, RunInv
  <2>2. ASSUME NEW r \in rows \cup new, NEW q \in rows \cup new,
               r.name = q.name, r.ingested = q.ingested
        PROVE  r = q
    <3>1. \A x \in rows, y \in new : x.ingested = y.ingested => x.name # y.name
      BY DEF SignalsInv, RunInv
    <3> QED BY <2>2, <3>1 DEF SignalsInv, RowsInv
  <2> QED BY <2>1, <2>2 DEF RowsInv
<1>2. ScoredInv'
  <2>1. scored' \in Seq(ScoredSet)
    BY DEF SignalsInv, ScoredInv
  <2>2. AllRows' = AllRows \cup new
    BY DEF AllRows
  <2>3. ASSUME NEW i \in 1 .. Len(scored), NEW s, s = scored[i]
        PROVE  ScoredWell(s) /\ s.cutoff <= now /\ CopiesRows(s)' /\ StillSelected(s)'
    <3>1. s \in ScoredSet /\ ScoredWell(s) /\ s.cutoff <= now /\ CopiesRows(s) /\ StillSelected(s)
      BY <2>3, ScoredTypes DEF SignalsInv, ScoredInv
    <3>2. s.cutoff \in Nat /\ run.cutoff \in Nat /\ s.cutoff < run.cutoff
      BY <2>3, <3>1 DEF SignalsInv, RunInv, ScoredSet
    <3>3. \A r \in new : ~(r.cutoff <= s.cutoff)
      BY <3>2
    <3>4. BuildSymbol(AllRows \cup new, s.cutoff) = BuildSymbol(AllRows, s.cutoff)
      BY <3>3, LaterIsInvisible
    <3>5. CopiesRows(s)'
      BY <3>1 DEF CopiesRows
    <3> QED BY <2>2, <3>1, <3>4, <3>5 DEF StillSelected
  <2>4. \A i \in 1 .. Len(scored) :
          LET s == scored[i]
          IN  ScoredWell(s) /\ s.cutoff <= now /\ CopiesRows(s)' /\ StillSelected(s)'
    BY <2>3
  <2> QED BY <2>1, <2>4 DEF ScoredInv
<1> QED BY <1>1, <1>2

-----------------------------------------------------------------------------
(***************************************************************************)
(* The rows each stage writes.                                             *)
(***************************************************************************)
NewRow(r, name) ==
    RowOK(r) /\ r.name = name /\ r.ingested = run.cutoff /\ r.cutoff = run.cutoff

LEMMA PublicationTimes ==
    ASSUME NEW source, NEW d \in Nat
    PROVE  /\ source \in {"peer", "fred"} => Published(source, d) = 3 * d + 3
           /\ source \in {"tsm", "flow", "close", "return"} => Published(source, d) = 3 * d + 1
           /\ source = "bok" => Published(source, d) = 3 * d + 2
  BY DEF Published, Label, Close, Due

LEMMA SessionRows ==
    ASSUME RunInv, NEW d, ValidFlowDate(d)
    PROVE  NewRow(FlowRow(d), "flow") /\ NewRow(CloseRow(d), "close") /\ NewRow(ReturnRow(d), "return")
<1>1. run.cutoff \in Nat
  BY DEF RunInv
<1>2. d \in Completed(run.cutoff) /\ d = LatestSession(run.cutoff)
  BY <1>1, LatestSessionFacts DEF ValidFlowDate
<1>3. d \in Nat /\ Close(d) \in Nat /\ Close(d) <= run.cutoff /\ Close(d) = 3 * d + 1
  BY <1>2 DEF Completed, Sessions, Days, Close
<1>4. {"flow", "close", "return"} \cap Optional = {} /\ {"flow", "close", "return"} \subseteq Stored
      /\ Required = {"flow", "close"}
  BY SignalsAssumption DEF Stored, Names, Required
<1>5. \A name \in {"flow", "close", "return"} : Public(name, d) <= run.cutoff
  BY <1>3, PublicationTimes DEF Public
<1>6. FlowRow(d) \in RowSet /\ CloseRow(d) \in RowSet /\ ReturnRow(d) \in RowSet
  BY <1>1, <1>3, <1>4 DEF FlowRow, CloseRow, ReturnRow, Row, RowSet, Statuses
<1>7. NewRow(FlowRow(d), "flow")
  BY <1>1, <1>2, <1>4, <1>5, <1>6 DEF NewRow, RowOK, FlowRow, Row
<1>8. NewRow(CloseRow(d), "close")
  BY <1>1, <1>2, <1>3, <1>4, <1>5, <1>6 DEF NewRow, RowOK, CloseRow, Row
<1>9. NewRow(ReturnRow(d), "return")
  BY <1>1, <1>2, <1>3, <1>4, <1>5, <1>6 DEF NewRow, RowOK, ReturnRow, Row
<1> QED BY <1>7, <1>8, <1>9

(* What an optional source has written of the past: nothing later than its *)
(* answer, and nothing of the day of the cutoff.                           *)
LEMMA EarlierRows ==
    ASSUME SignalsInv, ~At("idle"), NEW q \in rows, q.name \in {"peer", "tsm"} \cap Optional,
           q.status = "READY", q.ingested # run.cutoff
    PROVE  /\ q.date \in Nat \ {0} /\ q.source = 3 * q.date
           /\ q.ingested \in Nat /\ q.ingested < run.cutoff /\ q.source <= q.ingested
           /\ Published(q.name, q.date) <= q.ingested
<1>1. RowOK(q) /\ q.ingested <= run.cutoff /\ run.cutoff \in Nat
  BY DEF SignalsInv, RowsInv, RunInv
<1>2. q.date \in Nat /\ q.ingested \in Nat /\ q.date # 0 /\ q.source = Label(q.date)
  BY <1>1 DEF RowOK, RowSet
<1>3. Public(q.name, q.date) <= q.ingested /\ q.source <= q.ingested
  BY <1>1, <1>2 DEF RowOK
<1> QED BY <1>1, <1>2, <1>3 DEF Public, Label

LEMMA ServedFacts ==
    ASSUME SignalsInv, NEW name \in Optional, NEW source
    PROVE  /\ Served(name, source) \in Nat
           /\ source # "fred" => \A q \in rows : q.name = name => q.date <= Served(name, source)
<1> DEFINE S == {0} \cup {r.date : r \in {q \in rows : q.name = name}}
<1>1. ASSUME NEW q \in rows, q.name = name PROVE q.date \in Nat /\ q.date <= now
  <2>1. RowOK(q) /\ q.ingested <= now /\ now \in Nat
    BY DEF SignalsInv, RowsInv, RunInv
  <2>2. q.date \in Nat /\ q.ingested \in Nat
    BY <2>1 DEF RowOK, RowSet
  <2>3. CASE q.date = 0
    BY <2>1, <2>3
  <2>4. CASE q.date # 0
    <3>1. Public(name, q.date) <= q.ingested
      BY <1>1, <2>1, <2>4 DEF RowOK
    <3>2. name \in {"peer", "tsm", "usdkrw"}
      BY SignalsAssumption
    <3>3. 3 * q.date <= Public(name, q.date) /\ Public(name, q.date) \in Nat
      BY <2>2, <3>2, PublicationTimes DEF Public
    <3> QED BY <2>1, <2>2, <3>1, <3>3
  <2> QED BY <2>3, <2>4, <2>2
<1>2. S \in SUBSET Nat /\ S # {} /\ now \in Nat /\ \A x \in S : x <= now
  BY <1>1 DEF SignalsInv, RunInv
<1>3. Max(S) \in S /\ \A x \in S : x <= Max(S)
  BY <1>2, MaxOfBounded
<1>4. source # "fred" => Served(name, source) = Max(S)
  BY DEF Served
<1>5. source = "fred" => Served(name, source) = 0
  BY DEF Served
<1>6. source # "fred" => \A q \in rows : q.name = name => q.date <= Served(name, source)
  BY <1>3, <1>4
<1> QED BY <1>2, <1>3, <1>4, <1>5, <1>6

(* A fresh observation supersedes the older ones. *)
LEMMA FreshRows ==
    ASSUME SignalsInv, ~At("idle"), NEW name \in Optional, NEW source,
           IF name = "usdkrw" THEN source \in {"bok", "fred"} ELSE source = name,
           NEW r \in Fresh(name, source)
    PROVE  NewRow(r, name) /\ (name # "usdkrw" => Supersedes(r))
<1>1. PICK d \in Answers(name, source) \ {0} : r = ReadyOrStale(name, d)
  BY DEF Fresh
<1>2. run.cutoff \in Nat /\ run.cutoff <= now /\ now \in Nat
  BY DEF SignalsInv, RunInv
<1>3. DayOf(run.cutoff) \in Nat /\ DayOf(now) \in Nat
  BY <1>2, DayFacts
<1>4. PICK v \in Served(name, source) .. DayOf(now) : d = Observed(source, v, run.cutoff)
  BY <1>1 DEF Answers
<1>5. Served(name, source) \in Nat /\ v \in Nat /\ Served(name, source) <= v
  BY <1>3, <1>4, ServedFacts
<1>6. /\ d \in Nat /\ d # 0 /\ Published(source, d) <= run.cutoff
      /\ \A e \in 1 .. v : Published(source, e) <= run.cutoff => e <= d
  BY <1>1, <1>4, <1>5, ObservedFacts DEF IsSourceDateAvailable
<1>7. name \in {"peer", "tsm", "usdkrw"} /\ name \notin Required /\ name \in Stored
  BY SignalsAssumption DEF Required, Names, Stored
<1>8. /\ 3 * d <= Published(source, d) /\ Public(name, d) <= Published(source, d)
      /\ Published(source, d) \in Nat /\ Public(name, d) \in Nat
  <2>1. CASE name = "usdkrw"
    <3>1. Public(name, d) = 3 * d + 2
      BY <2>1, <1>6, PublicationTimes DEF Public
    <3> QED BY <2>1, <3>1, <1>6, PublicationTimes
  <2>2. CASE name # "usdkrw"
    <3>1. source = name /\ Public(name, d) = Published(source, d)
      BY <2>2 DEF Public
    <3> QED BY <2>2, <3>1, <1>6, <1>7, PublicationTimes
  <2> QED BY <2>1, <2>2
<1>9. Label(d) = 3 * d /\ Label(d) \in Nat /\ Label(d) <= run.cutoff /\ Public(name, d) <= run.cutoff
  BY <1>2, <1>6, <1>8 DEF Label
<1>10. StatusForLag(name, d) \in {"READY", "STALE"}
       /\ (StatusForLag(name, d) = "READY" => DayOf(run.cutoff) - d <= StaleAfter[name])
  <2>1. StaleAfter[name] \in Nat
    BY SignalsAssumption
  <2> QED BY <1>3, <1>6, <2>1 DEF StatusForLag
<1>11. r = [name |-> name, source |-> Label(d), status |-> StatusForLag(name, d), date |-> d,
            ingested |-> run.cutoff, cutoff |-> run.cutoff]
  BY <1>1 DEF ReadyOrStale, Row
<1>12. r \in RowSet
  BY <1>2, <1>6, <1>7, <1>9, <1>10, <1>11 DEF RowSet, Statuses
<1>13. NewRow(r, name)
  BY <1>6, <1>7, <1>9, <1>10, <1>11, <1>12 DEF NewRow, RowOK
<1>14. ASSUME name # "usdkrw", NEW q \in rows, q.name = name, q.status = "READY",
              q.ingested # r.ingested
       PROVE  ~Precedes(q, r)
  <2>1. /\ q.date \in Nat \ {0} /\ q.source = 3 * q.date
        /\ q.ingested \in Nat /\ q.ingested < run.cutoff
        /\ Published(name, q.date) <= q.ingested
    BY <1>7, <1>11, <1>14, EarlierRows
  <2>2. source = name /\ source # "fred" /\ q.date <= Served(name, source)
    BY <1>7, <1>14, ServedFacts
  <2>3. Published(name, q.date) \in Nat
    BY <2>1, <1>7, <1>14, PublicationTimes
  <2>4. q.date \in 1 .. v /\ Published(source, q.date) <= run.cutoff
    BY <1>2, <1>5, <2>1, <2>2, <2>3
  <2>5. q.date <= d
    BY <1>6, <2>4
  <2>6. r.source = 3 * d /\ r.ingested = run.cutoff
    BY <1>9, <1>11
  <2> QED BY <1>2, <1>6, <2>1, <2>5, <2>6 DEF Precedes
<1>15. name # "usdkrw" => Supersedes(r)
  <2>1. r.name = name
    BY <1>11
  <2> QED BY <1>14, <2>1 DEF Supersedes
<1> QED BY <1>13, <1>15

(* So does a missing value, so that nothing stays ready for ever. *)
LEMMA MissingRows ==
    ASSUME SignalsInv, ~At("idle"), NEW name \in Optional
    PROVE  /\ NewRow(Missing(name), name) /\ NewRow(Failed(name), name)
           /\ name = "peer" => Supersedes(Missing(name))
           /\ name # "usdkrw" => Supersedes(Failed(name))
<1>1. run.cutoff \in Nat
  BY DEF SignalsInv, RunInv
<1>2. name \in {"peer", "tsm", "usdkrw"} /\ name \notin Required /\ name \in Stored
  BY SignalsAssumption DEF Required, Names, Stored
<1>3. PICK day \in Nat : /\ day = DayOf(run.cutoff) /\ 3 * day <= run.cutoff
                         /\ run.cutoff < 3 * day + 3
  BY <1>1, DayFacts
<1>4. Label(day) = 3 * day
  BY DEF Label
<1>5. Missing(name) = [name |-> name, source |-> 3 * day, status |-> "MISSING_OPTIONAL", date |-> 0,
                       ingested |-> run.cutoff, cutoff |-> run.cutoff]
  BY <1>3, <1>4 DEF Missing, Row
<1>6. Failed(name) = [name |-> name, source |-> run.cutoff, status |-> "MISSING_OPTIONAL", date |-> 0,
                      ingested |-> run.cutoff, cutoff |-> run.cutoff]
  BY DEF Failed, Row
<1>7. Missing(name) \in RowSet /\ Failed(name) \in RowSet
  BY <1>1, <1>2, <1>3, <1>5, <1>6 DEF RowSet, Statuses
<1>8. NewRow(Missing(name), name)
  BY <1>2, <1>3, <1>5, <1>7 DEF NewRow, RowOK
<1>9. NewRow(Failed(name), name)
  BY <1>1, <1>2, <1>6, <1>7 DEF NewRow, RowOK
<1>10. ASSUME name # "usdkrw", NEW q \in rows, q.name = name, q.status = "READY",
              q.ingested # run.cutoff
       PROVE  ~Precedes(q, Failed(name)) /\ (name = "peer" => ~Precedes(q, Missing(name)))
  <2>1. /\ q.date \in Nat \ {0} /\ q.source = 3 * q.date
        /\ q.ingested \in Nat /\ q.ingested < run.cutoff /\ q.source <= q.ingested
        /\ Published(name, q.date) <= q.ingested
    BY <1>2, <1>10, EarlierRows
  <2>2. ~Precedes(q, Failed(name))
    BY <1>1, <1>6, <2>1 DEF Precedes
  <2>3. name = "peer" => q.date < day
    BY <1>1, <1>3, <2>1, PublicationTimes
  <2>4. name = "peer" => ~Precedes(q, Missing(name))
    BY <1>3, <1>5, <2>1, <2>3 DEF Precedes
  <2> QED BY <2>2, <2>4
<1>11. name = "peer" => Supersedes(Missing(name))
  BY <1>5, <1>10 DEF Supersedes
<1>12. name # "usdkrw" => Supersedes(Failed(name))
  BY <1>6, <1>10 DEF Supersedes
<1> QED BY <1>8, <1>9, <1>11, <1>12

LEMMA OptionalRows ==
    ASSUME SignalsInv, ~At("idle"), NEW name \in Optional, NEW r \in RowsOf(name)
    PROVE  NewRow(r, name) /\ (name # "usdkrw" => Supersedes(r))
<1>1. name \in {"peer", "tsm", "usdkrw"}
  BY SignalsAssumption
<1>2. CASE name = "peer"
  BY <1>2, FreshRows, MissingRows DEF RowsOf, PeerRows
<1>3. CASE name = "tsm"
  BY <1>3, FreshRows, MissingRows DEF RowsOf, TsmRows
<1>4. CASE name = "usdkrw"
  BY <1>4, FreshRows, MissingRows DEF RowsOf, FxRows
<1> QED BY <1>1, <1>2, <1>3, <1>4

-----------------------------------------------------------------------------
(***************************************************************************)
(* One lemma an action.                                                    *)
(***************************************************************************)
LEMMA TickStep == SignalsInv /\ Tick => SignalsInv'
<1> SUFFICES ASSUME SignalsInv, Tick PROVE SignalsInv'
  OBVIOUS
<1>1. now \in Nat /\ now' = now + 1 /\ rows' = rows /\ run' = run /\ scored' = scored
  BY DEF Tick, SignalsInv, RunInv
<1>2. \A r \in rows : r.ingested \in Nat
  BY DEF SignalsInv, RowsInv, RowOK, RowSet
<1>3. \A i \in 1 .. Len(scored) : scored[i].cutoff \in Nat
  BY ScoredTypes DEF SignalsInv, ScoredSet
<1>4. RowsInv'
  BY <1>1, <1>2 DEF SignalsInv, RowsInv
<1>5. ScoredInv'
  <2>1. scored' \in Seq(ScoredSet) /\ AllRows' = AllRows
    BY <1>1 DEF SignalsInv, ScoredInv, AllRows
  <2>2. ASSUME NEW i \in 1 .. Len(scored), NEW s, s = scored[i]
        PROVE  ScoredWell(s) /\ s.cutoff <= now' /\ CopiesRows(s)' /\ StillSelected(s)'
    <3>1. ScoredWell(s) /\ s.cutoff <= now /\ CopiesRows(s) /\ StillSelected(s)
      BY <2>2 DEF SignalsInv, ScoredInv
    <3>2. CopiesRows(s)' /\ StillSelected(s)'
      BY <1>1, <2>1, <3>1 DEF CopiesRows, StillSelected
    <3> QED BY <1>1, <1>3, <2>2, <3>1, <3>2
  <2>3. \A i \in 1 .. Len(scored) :
          LET s == scored[i]
          IN  ScoredWell(s) /\ s.cutoff <= now' /\ CopiesRows(s)' /\ StillSelected(s)'
    BY <1>1, <2>2
  <2> QED BY <1>1, <2>1, <2>3 DEF ScoredInv
<1>6. RunInv'
  BY <1>1 DEF SignalsInv, RunInv, At, Wrote, Supersedes
<1> QED BY <1>4, <1>5, <1>6 DEF SignalsInv

(* A step that leaves what is recorded alone keeps what is known of it. *)
LEMMA RecordedStays ==
    ASSUME SignalsInv, now' = now, rows' = rows, scored' = scored
    PROVE  RowsInv' /\ ScoredInv'
  BY ZenonT(40) DEF SignalsInv, RowsInv, ScoredInv, CopiesRows, StillSelected, AllRows

LEMMA BeginStep == SignalsInv /\ BeginRun => SignalsInv'
<1> SUFFICES ASSUME SignalsInv, BeginRun PROVE SignalsInv'
  OBVIOUS
<1>1. /\ now \in Nat /\ now' = now /\ rows' = rows /\ scored' = scored
      /\ run' = [stage |-> "domestic", cutoff |-> now, session |-> LatestSession(now)]
  BY DEF BeginRun, SignalsInv, RunInv
<1>2. RowsInv' /\ ScoredInv'
  BY <1>1, RecordedStays
<1>3. LatestSession(now) \in Nat
  BY <1>1, LatestSessionFacts DEF Completed, Sessions, Days
<1>4. \A r \in rows : r.ingested \in Nat /\ r.ingested <= now /\ r.ingested # now
  BY DEF BeginRun, SignalsInv, RowsInv, RowOK, RowSet
<1>5. \A i \in 1 .. Len(scored) : scored[i].cutoff \in Nat /\ scored[i].cutoff < now
  <2> SUFFICES ASSUME NEW i \in 1 .. Len(scored)
               PROVE  scored[i].cutoff \in Nat /\ scored[i].cutoff < now
    OBVIOUS
  <2>1. scored[i].cutoff \in Nat
    BY ScoredTypes DEF SignalsInv, ScoredSet
  <2>2. scored[i].cutoff <= now /\ scored[i].cutoff # now
    BY DEF BeginRun, SignalsInv, ScoredInv
  <2> QED BY <1>1, <2>1, <2>2
<1>6. RunInv'
  BY <1>1, <1>3, <1>4, <1>5 DEF RunInv, At, Stages
<1> QED BY <1>2, <1>6 DEF SignalsInv

LEMMA FailStep == SignalsInv /\ StageFails => SignalsInv'
<1> SUFFICES ASSUME SignalsInv, StageFails PROVE SignalsInv'
  OBVIOUS
<1>1. RowsInv' /\ ScoredInv'
  BY RecordedStays DEF StageFails
<1>2. RunInv'
  BY DEF StageFails, SignalsInv, RunInv, At, Idle, Stages
<1> QED BY <1>1, <1>2 DEF SignalsInv

(* A stage that writes new rows of names the run has not written: the run  *)
(* goes on, later than all else.                                           *)
StageWrote(new, next) ==
    /\ ~At("idle") /\ next \in Stages \ {"idle"}
    /\ \A r \in new : NewRow(r, r.name) /\ r.name \notin Written(run.stage)
    /\ \A r, q \in new : r.name = q.name => r = q
    /\ \A n \in Written(run.stage) \cup {r.name : r \in new} : n \in Written(next)
    /\ rows' = rows \cup new /\ now' = now /\ scored' = scored
    /\ run' = [run EXCEPT !.stage = next]
    /\ next \in {"domestic_price", "global", "score"} =>
         \E r \in rows \cup new : r.name = "flow" /\ r.ingested = run.cutoff
    /\ next \in {"global", "score"} =>
         \E r \in rows \cup new : r.name = "close" /\ r.ingested = run.cutoff
    /\ next = "score" =>
         \A n \in Optional \ {"usdkrw"} : \E r \in new : r.name = n /\ Supersedes(r)

LEMMA StageWrites ==
    ASSUME SignalsInv, NEW new, NEW next, StageWrote(new, next)
    PROVE  SignalsInv'
<1> USE DEF StageWrote
<1>1. RowsInv' /\ ScoredInv'
  BY RowsWritten DEF NewRow
<1>2. /\ run \in [stage : Stages, cutoff : Nat, session : Nat]
      /\ run'.stage = next /\ run'.cutoff = run.cutoff /\ run'.session = run.session
      /\ run' \in [stage : Stages, cutoff : Nat, session : Nat]
  BY DEF SignalsInv, RunInv
<1>3. \A r \in rows \cup new : r.ingested <= run.cutoff
  BY <1>2 DEF SignalsInv, RunInv, NewRow
<1>4. ASSUME NEW r \in rows \cup new, r.ingested = run.cutoff PROVE r.name \in Written(next)
  BY <1>4 DEF SignalsInv, RunInv
<1>5. ASSUME NEW n \in Optional \ {"usdkrw"}, next = "score"
      PROVE  \E r \in rows \cup new : /\ r.name = n /\ r.ingested = run.cutoff
                                      /\ Supersedes(r)'
  <2>1. PICK r \in new : r.name = n /\ Supersedes(r) /\ r.ingested = run.cutoff
    BY <1>5 DEF NewRow
  <2>2. \A q \in new : q.ingested = r.ingested
    BY <2>1 DEF NewRow
  <2>3. Supersedes(r)'
    BY <2>1, <2>2 DEF Supersedes
  <2> QED BY <2>1, <2>3
<1>6. RunInv'
  <2>1. run.cutoff <= now /\ now \in Nat /\ run.session = LatestSession(run.cutoff)
        /\ \A i \in 1 .. Len(scored) : scored[i].cutoff < run.cutoff
    BY DEF SignalsInv, RunInv
  <2>2. (run.stage \in {"domestic_price", "global", "score"} => Wrote("flow"))'
        /\ (run.stage \in {"global", "score"} => Wrote("close"))'
    BY <1>2 DEF Wrote
  <2> QED BY <1>2, <1>3, <1>4, <1>5, <2>1, <2>2 DEF RunInv
<1> QED BY <1>1, <1>6 DEF SignalsInv

LEMMA DomesticStep == SignalsInv /\ CollectDomestic => SignalsInv'
<1> SUFFICES ASSUME SignalsInv, CollectDomestic PROVE SignalsInv'
  OBVIOUS
<1>1. run.stage = "domestic" /\ ~At("idle")
  BY DEF CollectDomestic, At
<1>2. PICK d : ValidFlowDate(d) /\ rows' = rows \cup {FlowRow(d)}
  BY DEF CollectDomestic
<1>3. NewRow(FlowRow(d), "flow")
  BY <1>2, SessionRows DEF SignalsInv
<1>4. Written(run.stage) = {} /\ Written("domestic_price") = {"flow"}
  BY <1>1 DEF Written
<1>5. FlowRow(d).name = "flow" /\ FlowRow(d).ingested = run.cutoff
  BY <1>3 DEF NewRow
<1>6. now' = now /\ scored' = scored /\ run' = [run EXCEPT !.stage = "domestic_price"]
  BY DEF CollectDomestic, To
<1>7. StageWrote({FlowRow(d)}, "domestic_price")
  BY <1>1, <1>2, <1>3, <1>4, <1>5, <1>6 DEF StageWrote, Stages
<1> QED BY <1>7, StageWrites

LEMMA PriceStep == SignalsInv /\ CollectPrice => SignalsInv'
<1> SUFFICES ASSUME SignalsInv, CollectPrice PROVE SignalsInv'
  OBVIOUS
<1>1. run.stage = "domestic_price" /\ ~At("idle")
  BY DEF CollectPrice, At
<1>2. PICK d, new : ValidFlowDate(d) /\ new \in PriceRows(d) /\ rows' = rows \cup new
  BY DEF CollectPrice
<1>3. NewRow(CloseRow(d), "close") /\ NewRow(ReturnRow(d), "return")
  BY <1>2, SessionRows DEF SignalsInv
<1>4. Written(run.stage) = {"flow"} /\ Written("global") = {"flow", "close", "return"}
  BY <1>1 DEF Written, Required
<1>5. \E r \in rows : r.name = "flow" /\ r.ingested = run.cutoff
  BY <1>1 DEF SignalsInv, RunInv, Wrote
<1>6. CloseRow(d) \in new /\ CloseRow(d).name = "close" /\ CloseRow(d).ingested = run.cutoff
  BY <1>2, <1>3 DEF NewRow, PriceRows
<1>7. /\ \A r \in new : NewRow(r, r.name) /\ r.name \in {"close", "return"}
      /\ \A r, q \in new : r.name = q.name => r = q
  BY <1>2, <1>3 DEF NewRow, PriceRows
<1>8. now' = now /\ scored' = scored /\ run' = [run EXCEPT !.stage = "global"]
  BY DEF CollectPrice, To
<1>9. StageWrote(new, "global")
  BY <1>1, <1>2, <1>4, <1>5, <1>6, <1>7, <1>8 DEF StageWrote, Stages
<1> QED BY <1>9, StageWrites

LEMMA GlobalStep == SignalsInv /\ CollectGlobal => SignalsInv'
<1> SUFFICES ASSUME SignalsInv, CollectGlobal PROVE SignalsInv'
  OBVIOUS
<1>1. run.stage = "global" /\ ~At("idle")
  BY DEF CollectGlobal, At
<1>2. PICK f \in [Optional -> UNION {RowsOf(n) : n \in Optional}] :
         /\ \A n \in Optional : f[n].name = n
         /\ rows' = rows \cup {f[n] : n \in Optional}
  BY DEF CollectGlobal
<1> DEFINE new == {f[n] : n \in Optional}
<1>3. ASSUME NEW n \in Optional
      PROVE  NewRow(f[n], n) /\ (n # "usdkrw" => Supersedes(f[n]))
  <2>1. PICK m \in Optional : f[n] \in RowsOf(m)
    BY <1>2
  <2>2. NewRow(f[n], m) /\ (m # "usdkrw" => Supersedes(f[n]))
    BY <1>1, <2>1, OptionalRows
  <2>3. m = n
    BY <1>2, <2>2 DEF NewRow
  <2> QED BY <2>2, <2>3
<1>4. Written(run.stage) = {"flow", "close", "return"} /\ Written("score") = Stored
      /\ Stored = {"flow", "close", "return"} \cup Optional
      /\ {"flow", "close", "return"} \cap Optional = {}
  BY <1>1, SignalsAssumption DEF Written, Required, Names, Stored
<1>5. \A r \in new : NewRow(r, r.name) /\ r.name \in Optional
  BY <1>3 DEF NewRow
<1>6. \A r, q \in new : r.name = q.name => r = q
  BY <1>3 DEF NewRow
<1>7. /\ \E r \in rows : r.name = "flow" /\ r.ingested = run.cutoff
      /\ \E r \in rows : r.name = "close" /\ r.ingested = run.cutoff
  BY <1>1 DEF SignalsInv, RunInv, Wrote
<1>8. \A n \in Optional \ {"usdkrw"} : \E r \in new : r.name = n /\ Supersedes(r)
  BY <1>3 DEF NewRow
<1>9. rows' = rows \cup new /\ now' = now /\ scored' = scored
      /\ run' = [run EXCEPT !.stage = "score"]
  BY <1>2 DEF CollectGlobal, To
<1> HIDE DEF new
<1>10. StageWrote(new, "score")
  BY <1>1, <1>4, <1>5, <1>6, <1>7, <1>8, <1>9 DEF StageWrote, Stages
<1> QED BY <1>10, StageWrites

-----------------------------------------------------------------------------
(***************************************************************************)
(* What a run is scored on.                                                *)
(***************************************************************************)
Selected == LatestFeatures(AllRows, run.cutoff)

(* Two selected rows of a name are copies of the same one. *)
LEMMA SelectedOnce ==
    ASSUME SignalsInv, NEW r \in Selected, NEW q \in Selected, r.name = q.name
    PROVE  Copy(r, run.cutoff) = Copy(q, run.cutoff)
<1>1. run.cutoff \in Nat
  BY DEF SignalsInv, RunInv
<1>2. r \in AllRows /\ q \in AllRows /\ r \in RowSet /\ q \in RowSet
  BY AllRowsFacts, LatestAreKnown DEF Selected
<1>3. Precedes(r, q) /\ Precedes(q, r)
  BY DEF Selected, LatestFeatures
<1>4. r.source = q.source /\ r.ingested = q.ingested
  BY <1>2, <1>3 DEF Precedes, RowSet
<1>5. PICK x \in rows : r = Copy(x, r.cutoff)
  BY <1>2, AllRowsFacts
<1>6. PICK y \in rows : q = Copy(y, q.cutoff)
  BY <1>2, AllRowsFacts
<1>7. x \in RowSet /\ y \in RowSet /\ r.cutoff \in Nat /\ q.cutoff \in Nat
  BY <1>2 DEF SignalsInv, RowsInv, RowOK, RowSet
<1>8. /\ r.name = x.name /\ r.ingested = x.ingested /\ Copy(r, run.cutoff) = Copy(x, run.cutoff)
      /\ q.name = y.name /\ q.ingested = y.ingested /\ Copy(q, run.cutoff) = Copy(y, run.cutoff)
  <2>1. /\ Alike(r, x) /\ r.ingested = x.ingested /\ Alike(q, y) /\ q.ingested = y.ingested
    BY <1>5, <1>6, <1>7, CopyFacts
  <2>2. Copy(r, run.cutoff) = Copy(x, run.cutoff) /\ Copy(q, run.cutoff) = Copy(y, run.cutoff)
    BY <1>1, <1>2, <1>7, <2>1, CopiesOfAlike
  <2> QED BY <2>1, <2>2 DEF Alike
<1>9. x = y
  BY <1>4, <1>8 DEF SignalsInv, RowsInv
<1> QED BY <1>8, <1>9

(* What the run itself wrote could have been selected. *)
LEMMA OwnRowsAreKnown ==
    ASSUME SignalsInv, ~At("idle"), NEW w \in rows, w.ingested = run.cutoff,
           NEW r \in Selected, r.name = w.name
    PROVE  Precedes(r, w) /\ RowOK(w)
<1>1. RowOK(w) /\ w.cutoff = w.ingested
  BY DEF SignalsInv, RowsInv
<1>2. w.source <= run.cutoff /\ w.ingested <= run.cutoff /\ w.cutoff <= run.cutoff
  BY <1>1 DEF RowOK, RowSet
<1>3. w \in KnownAt(AllRows, run.cutoff)
  BY <1>2 DEF KnownAt, AllRows
<1> QED BY <1>1, <1>3 DEF Selected, LatestFeatures

LEMMA SelectedFacts ==
    ASSUME SignalsInv, NEW r \in Selected
    PROVE  /\ RowOK(r) /\ r \in RowSet /\ run.cutoff \in Nat
           /\ r.source <= run.cutoff /\ r.ingested <= run.cutoff
           /\ r.date # 0 => Public(r.name, r.date) <= run.cutoff
<1>1. run.cutoff \in Nat
  BY DEF SignalsInv, RunInv
<1>2. RowOK(r) /\ r \in RowSet /\ r.source <= run.cutoff /\ r.ingested <= run.cutoff
  BY AllRowsFacts, LatestAreKnown DEF Selected
<1>3. r.date # 0 => Public(r.name, r.date) <= run.cutoff
  <2>1. r.name \in {"flow", "close", "return", "peer", "tsm", "usdkrw"}
        /\ r.date \in Nat /\ r.ingested \in Nat
    BY <1>2, SignalsAssumption DEF RowSet, Stored, Names, Required
  <2>2. Public(r.name, r.date) \in Nat
    BY <2>1, PublicationTimes DEF Public
  <2> QED BY <1>1, <1>2, <2>1, <2>2 DEF RowOK
<1> QED BY <1>1, <1>2, <1>3

LEMMA SelectedOfItsSession ==
    ASSUME SignalsInv, At("score"), NEW r \in Selected, r.name \in Required
    PROVE  r.date = run.session /\ r.date = LatestSession(run.cutoff)
<1>1. run.cutoff \in Nat /\ run.session = LatestSession(run.cutoff) /\ ~At("idle")
  BY DEF SignalsInv, RunInv, At
<1>2. PICK w \in rows : w.name = r.name /\ w.ingested = run.cutoff
  BY DEF SignalsInv, RunInv, At, Wrote, Required
<1>3. Precedes(r, w) /\ RowOK(w)
  BY <1>1, <1>2, OwnRowsAreKnown
<1>4. RowOK(r) /\ r \in RowSet /\ r.ingested <= run.cutoff
  BY SelectedFacts
<1>5. r.source \in Nat /\ r.ingested \in Nat /\ r.source <= r.ingested
  BY <1>4 DEF RowOK, RowSet
<1>6. CASE r.name = "flow"
  <2>1. w.source = run.cutoff /\ r.source = r.ingested /\ r.date = LatestSession(r.ingested)
    BY <1>2, <1>3, <1>4, <1>6 DEF RowOK
  <2>2. r.ingested = run.cutoff
    BY <1>1, <1>2, <1>3, <1>4, <1>5, <2>1 DEF Precedes
  <2> QED BY <1>1, <2>1, <2>2
<1>7. CASE r.name = "close"
  <2>1. /\ w.source = Close(w.date) /\ w.date = LatestSession(run.cutoff) /\ w.date \in Nat
        /\ r.source = Close(r.date) /\ r.date \in Completed(r.ingested) /\ r.date \in Nat
    BY <1>2, <1>3, <1>4, <1>7 DEF RowOK, RowSet
  <2>2. r.date \in Completed(run.cutoff)
    BY <1>1, <1>4, <1>5, <2>1 DEF Completed, Close
  <2>3. r.date <= w.date
    BY <1>1, <2>1, <2>2, LatestSessionFacts
  <2>4. w.date <= r.date
    BY <1>3, <2>1 DEF Precedes, Close
  <2> QED BY <1>1, <2>1, <2>3, <2>4
<1> QED BY <1>6, <1>7 DEF Required

LEMMA SelectedFreshIfReady ==
    ASSUME SignalsInv, At("score"), NEW r \in Selected,
           r.name \in Optional \ {"usdkrw"}, r.status = "READY"
    PROVE  DayOf(run.cutoff) - r.date <= StaleAfter[r.name]
<1>1. ~At("idle") /\ RowOK(r) /\ r \in RowSet
  BY SelectedFacts DEF At
<1>2. PICK w \in rows : w.name = r.name /\ w.ingested = run.cutoff /\ Supersedes(w)
  BY DEF SignalsInv, RunInv, At
<1>3. Precedes(r, w)
  BY <1>1, <1>2, OwnRowsAreKnown
<1>4. PICK q \in rows : r = Copy(q, r.cutoff)
  BY AllRowsFacts, LatestAreKnown DEF Selected
<1>5. Alike(r, q) /\ r.ingested = q.ingested
  <2>1. q \in RowSet /\ r.cutoff \in Nat
    BY <1>1 DEF SignalsInv, RowsInv, RowOK, RowSet
  <2> QED BY <1>4, <2>1, CopyFacts
<1>6. Precedes(q, w)
  BY <1>3, <1>5 DEF Precedes, Alike
<1>7. r.ingested = run.cutoff
  BY <1>2, <1>5, <1>6 DEF Supersedes, Alike
<1> QED BY <1>1, <1>7 DEF RowOK

(* The run as it is recorded. *)
Conclusion ==
    [session  |-> run.session, cutoff |-> run.cutoff,
     inputs   |-> {Copy(r, run.cutoff) : r \in Selected},
     snapshot |-> BuildSymbol(AllRows, run.cutoff)]

LEMMA ConclusionScoredWell ==
    ASSUME SignalsInv, At("score"), ScoringAllowed(BuildSymbol(AllRows, run.cutoff)),
           NEW s, s = Conclusion
    PROVE  s \in ScoredSet /\ ScoredWell(s)
<1>1. /\ s.session = run.session /\ s.cutoff = run.cutoff
      /\ s.inputs = {Copy(r, run.cutoff) : r \in Selected}
      /\ s.snapshot = BuildSymbol(AllRows, run.cutoff)
      /\ run.session \in Nat /\ run.cutoff \in Nat
  BY DEF Conclusion, SignalsInv, RunInv
<1>2. s.snapshot = Told(Selected)
  BY <1>1, BuildTells DEF Selected
<1>3. s.snapshot.features = Features(Selected)
  BY <1>2 DEF Told
<1>4. AllRows \in SUBSET RowSet
  BY AllRowsFacts
<1>5. s \in ScoredSet
  <2>1. State(Selected) \in States
    BY DEF State, States
  <2>2. Features(Selected) \in SUBSET FeatureSet
    BY SelectedFacts DEF Features, FeatureSet, RowSet
  <2>3. s.snapshot \in SnapshotSet
    BY <1>2, <2>1, <2>2 DEF Told, SnapshotSet
  <2>4. s.inputs \in SUBSET RowSet
    BY <1>1, SelectedFacts, CopyFacts
  <2>5. s = [session |-> s.session, cutoff |-> s.cutoff, inputs |-> s.inputs,
             snapshot |-> s.snapshot]
    BY <1>1 DEF Conclusion
  <2> QED BY <1>1, <2>3, <2>4, <2>5 DEF ScoredSet
<1>6. ASSUME NEW f \in s.snapshot.features
      PROVE  \E r \in Selected : Alike(f, r)
  BY <1>3 DEF Features, Alike
<1>7. NothingAhead(s)
  BY <1>1, <1>6, SelectedFacts DEF NothingAhead, Alike
<1>8. OfItsSession(s)
  BY <1>1, <1>6, SelectedOfItsSession DEF OfItsSession, Alike
<1>9. FreshIfReady(s)
  BY <1>1, <1>6, SelectedFreshIfReady DEF FreshIfReady, Alike
<1>10. LoaderAccepts(s)
  <2>1. \A r, q \in Selected : r.name = q.name => Copy(r, run.cutoff) = Copy(q, run.cutoff)
    BY SelectedOnce
  <2>2. PICK c \in Nat, rs \in SUBSET RowSet, copies \in SUBSET RowSet :
             c = run.cutoff /\ rs = AllRows /\ copies = s.inputs
    BY <1>1, <1>4, <1>5 DEF ScoredSet
  <2>3. copies = CopiesOf(rs, c)
    BY <1>1, <2>2 DEF Selected, CopiesOf
  <2>4. \A r, q \in LatestFeatures(rs, c) : r.name = q.name => Copy(r, c) = Copy(q, c)
    BY <2>1, <2>2 DEF Selected
  <2>5. /\ \A r \in copies : r.cutoff = c /\ r.source <= c /\ r.ingested <= c
        /\ \A r, q \in copies : r.name = q.name => r = q
        /\ BuildSymbol(copies, c) = BuildSymbol(rs, c)
    BY <2>3, <2>4, CopiesTellAgain
  <2>6. copies = s.inputs /\ c = s.cutoff /\ BuildSymbol(copies, c) = s.snapshot
    BY <1>1, <2>2, <2>5
  <2>7. ScoringAllowed(BuildSymbol(copies, c))
    BY <2>2, <2>5
  <2> QED BY <2>5, <2>6, <2>7, Zenon DEF LoaderAccepts
<1> QED BY <1>5, <1>7, <1>8, <1>9, <1>10 DEF ScoredWell

LEMMA PersistStep == SignalsInv /\ PersistScoring => SignalsInv'
<1> SUFFICES ASSUME SignalsInv, PersistScoring PROVE SignalsInv'
  OBVIOUS
<1>1. PICK new : new = Conclusion
  OBVIOUS
<1>2. /\ scored' = Append(scored, new) /\ run' = Idle /\ rows' = rows /\ now' = now
      /\ At("score") /\ ScoringAllowed(BuildSymbol(AllRows, run.cutoff))
  BY <1>1 DEF PersistScoring, Conclusion, Selected
<1>3. new \in ScoredSet /\ ScoredWell(new)
  BY <1>1, <1>2, ConclusionScoredWell
<1>4. /\ new.cutoff = run.cutoff /\ new.inputs = {Copy(r, run.cutoff) : r \in Selected}
      /\ new.snapshot = BuildSymbol(AllRows, run.cutoff)
      /\ run.cutoff \in Nat /\ run.cutoff <= now
  BY <1>1, <1>2 DEF Conclusion, SignalsInv, RunInv, At
<1>5. /\ scored \in Seq(ScoredSet) /\ scored' \in Seq(ScoredSet) /\ Len(scored) \in Nat
      /\ Len(scored') = Len(scored) + 1
      /\ \A i \in 1 .. Len(scored) : scored'[i] = scored[i]
      /\ scored'[Len(scored) + 1] = new
  BY <1>2, <1>3, AppendFacts DEF SignalsInv, ScoredInv
<1>6. AllRows' = AllRows \cup new.inputs
  <2>1. 1 .. Len(scored') = (1 .. Len(scored)) \cup {Len(scored) + 1}
    BY <1>5
  <2>2. UNION {scored'[i].inputs : i \in 1 .. Len(scored')}
          = (UNION {scored[i].inputs : i \in 1 .. Len(scored)}) \cup new.inputs
    BY <1>5, <2>1
  <2> QED BY <1>2, <2>2 DEF AllRows
<1>7. AllRows \in SUBSET RowSet
  BY AllRowsFacts
<1>8. CopiesRows(new)' /\ StillSelected(new)'
  <2>1. ASSUME NEW r \in new.inputs
        PROVE  RowOK(r) /\ r.cutoff = new.cutoff /\ \E q \in rows : r = Copy(q, r.cutoff)
    <3>1. PICK x \in Selected : r = Copy(x, run.cutoff)
      BY <1>4, <2>1
    <3>2. x \in AllRows /\ x \in RowSet /\ RowOK(x)
      BY SelectedFacts, LatestAreKnown DEF Selected
    <3>3. PICK q \in rows : x = Copy(q, x.cutoff)
      BY <3>2, AllRowsFacts
    <3>4. q \in RowSet /\ x.cutoff \in Nat
      BY <3>2 DEF SignalsInv, RowsInv, RowOK, RowSet
    <3>5. r \in RowSet /\ Alike(r, x) /\ r.ingested = x.ingested /\ r.cutoff = run.cutoff
      BY <1>4, <3>1, <3>2, CopyFacts
    <3>6. RowOK(r)
      BY <3>2, <3>5 DEF RowOK, Alike
    <3>7. Alike(x, q) /\ x.ingested = q.ingested
      BY <3>3, <3>4, CopyFacts
    <3>8. r = Copy(q, run.cutoff)
      BY <1>4, <3>1, <3>2, <3>4, <3>7, CopiesOfAlike
    <3> QED BY <1>4, <3>5, <3>6, <3>8
  <2>2. BuildSymbol(AllRows \cup new.inputs, new.cutoff) = new.snapshot
    <3>1. new.inputs = CopiesOf(AllRows, new.cutoff)
      BY <1>4 DEF Selected, CopiesOf
    <3> QED BY <1>4, <1>7, <3>1, CopiesAddNothing
  <2> QED BY <1>2, <1>6, <2>1, <2>2 DEF CopiesRows, StillSelected
<1>9. ASSUME NEW i \in 1 .. Len(scored), NEW s, s = scored[i]
      PROVE  ScoredWell(s) /\ s.cutoff <= now /\ CopiesRows(s)' /\ StillSelected(s)'
  <2>1. s \in ScoredSet /\ ScoredWell(s) /\ s.cutoff <= now /\ CopiesRows(s) /\ StillSelected(s)
    BY <1>9, ScoredTypes DEF SignalsInv, ScoredInv
  <2>2. s.cutoff \in Nat /\ s.cutoff < run.cutoff
    BY <1>2, <1>9, <2>1 DEF SignalsInv, RunInv, ScoredSet, At
  <2>3. \A r \in new.inputs : r.cutoff = run.cutoff
    BY <1>4, SelectedFacts, CopyFacts
  <2>4. \A r \in new.inputs : ~(r.cutoff <= s.cutoff)
    BY <1>4, <2>2, <2>3
  <2>5. BuildSymbol(AllRows \cup new.inputs, s.cutoff) = BuildSymbol(AllRows, s.cutoff)
    BY <2>4, LaterIsInvisible
  <2>6. CopiesRows(s)'
    BY <1>2, <2>1 DEF CopiesRows
  <2> QED BY <1>6, <2>1, <2>5, <2>6 DEF StillSelected
<1>10. ASSUME NEW i \in 1 .. Len(scored'), NEW s, s = scored'[i]
       PROVE  ScoredWell(s) /\ s.cutoff <= now /\ CopiesRows(s)' /\ StillSelected(s)'
  <2>1. CASE i \in 1 .. Len(scored)
    BY <1>5, <1>9, <1>10, <2>1
  <2>2. CASE i = Len(scored) + 1
    BY <1>3, <1>4, <1>5, <1>8, <1>10, <2>2
  <2> QED BY <1>5, <2>1, <2>2
<1>11. ScoredInv'
  <2>1. \A i \in 1 .. Len(scored') : LET s == scored'[i]
                                     IN ScoredWell(s) /\ s.cutoff <= now
    BY <1>10
  <2>2. \A i \in 1 .. Len(scored') : \E s : s = scored'[i] /\ CopiesRows(s)' /\ StillSelected(s)'
    BY <1>10
  <2> QED BY <1>2, <1>5, <2>1, <2>2 DEF ScoredInv, CopiesRows, StillSelected
<1>12. RowsInv'
  BY <1>2 DEF SignalsInv, RowsInv
<1>13. RunInv'
  BY <1>2 DEF SignalsInv, RunInv, At, Idle, Stages
<1> QED BY <1>11, <1>12, <1>13 DEF SignalsInv

(* Every step of a run, and none. *)
LEMMA SignalsStep == SignalsInv /\ [SignalsNext]_signals => SignalsInv'
<1>1. SignalsInv /\ UNCHANGED signals => SignalsInv'
  <2> SUFFICES ASSUME SignalsInv, UNCHANGED signals PROVE SignalsInv'
    OBVIOUS
  <2>1. RowsInv' /\ ScoredInv'
    BY RecordedStays DEF signals
  <2>2. RunInv'
    BY DEF signals, SignalsInv, RunInv, At, Wrote, Supersedes
  <2> QED BY <2>1, <2>2 DEF SignalsInv
<1> QED
  BY <1>1, TickStep, BeginStep, FailStep, DomesticStep, PriceStep, GlobalStep, PersistStep
  DEF SignalsNext

-----------------------------------------------------------------------------
(***************************************************************************)
(* What the invariant says of the scored runs.                             *)
(***************************************************************************)
LEMMA SignalsProperties ==
    SignalsInv => NoLookAhead /\ RequiredOfItsSession /\ AsOfStable /\ Loadable /\ ReadyIsFresh
<1> SUFFICES ASSUME SignalsInv
             PROVE  NoLookAhead /\ RequiredOfItsSession /\ AsOfStable /\ Loadable /\ ReadyIsFresh
  OBVIOUS
<1>1. \A i \in 1 .. Len(scored) : ScoredWell(scored[i]) /\ StillSelected(scored[i])
  BY DEF SignalsInv, ScoredInv
<1>2. NoLookAhead
  BY <1>1 DEF NoLookAhead, ScoredWell, NothingAhead, Public
<1>3. RequiredOfItsSession
  BY <1>1 DEF RequiredOfItsSession, ScoredWell, OfItsSession
<1>4. AsOfStable
  BY <1>1 DEF AsOfStable, StillSelected
<1>5. Loadable
  BY <1>1 DEF Loadable, ScoredWell
<1>6. ReadyIsFresh
  BY <1>1 DEF ReadyIsFresh, ScoredWell, FreshIfReady
<1> QED BY <1>2, <1>3, <1>4, <1>5, <1>6

-----------------------------------------------------------------------------
(***************************************************************************)
(* Counting sessions, and picking bars.                                    *)
(***************************************************************************)
(* Of a bounded set of numbers there is one with so many up to it. *)
LEMMA CountsUp ==
    ASSUME NEW A \in SUBSET Nat, NEW b \in Nat, \A x \in A : x <= b,
           NEW h \in Nat \ {0}, h <= Cardinality(A)
    PROVE  \E s \in A : Cardinality({q \in A : q <= s}) = h
<1> DEFINE Up(s) == {q \in A : q <= s}
           Enough == {s \in A : h <= Cardinality(Up(s))}
<1>1. IsFiniteSet(A) /\ Cardinality(A) \in Nat
  BY FS_BoundedSetOfNaturals, FS_CardinalityType
<1>2. \A S \in SUBSET A : IsFiniteSet(S) /\ Cardinality(S) \in Nat
  BY <1>1, FS_Subset, FS_CardinalityType
<1>3. Enough \in SUBSET Nat /\ Enough # {}
  <2>1. A # {}
    BY <1>1, FS_EmptySet
  <2>2. PICK m \in A : \A x \in A : x <= m
    BY <2>1, MaxOfBounded
  <2>3. Up(m) = A
    BY <2>2
  <2> QED BY <2>2, <2>3
<1>4. PICK m \in Enough : \A n \in Enough : m <= n
  BY <1>3, LeastNatural
<1>5. m \in A /\ m \in Nat /\ h <= Cardinality(Up(m)) /\ Cardinality(Up(m)) \in Nat
  BY <1>2, <1>4
<1>6. ASSUME Cardinality(Up(m)) # h PROVE FALSE
  <2>0. PICK U \in SUBSET A : U = Up(m)
    OBVIOUS
  <2> DEFINE Below == U \ {m}
  <2>1. IsFiniteSet(U) /\ m \in U /\ Below \in SUBSET A
    BY <1>2, <1>5, <2>0
  <2>2. h <= Cardinality(Below)
    <3>1. Cardinality(Below) = Cardinality(U) - 1
      BY <2>1, FS_RemoveElement
    <3> QED BY <1>5, <1>6, <2>0, <3>1
  <2>3. Below # {}
    BY <2>2, FS_EmptySet
  <2>4. PICK p \in Below : \A x \in Below : x <= p
    BY <2>1, <2>3, MaxOfBounded
  <2>5. p \in A /\ p \in Nat /\ p < m
    BY <1>5, <2>0, <2>4
  <2>6. Up(p) = Below
    <3>1. \A q \in A : q \in Below <=> (q <= m /\ q # m)
      BY <2>0
    <3>2. \A q \in A : q <= p <=> (q <= m /\ q # m)
      BY <1>5, <2>4, <2>5, <3>1
    <3> QED BY <2>1, <3>1, <3>2
  <2>7. p \in Enough
    BY <2>2, <2>5, <2>6
  <2> QED BY <1>4, <1>5, <2>5, <2>7
<1> QED BY <1>5, <1>6

SessionsBetween(base, target) == {d \in Sessions : base < d /\ d <= target}

(* The session at the horizon does not depend on where the calendar ends. *)
LEMMA TargetFacts ==
    ASSUME NEW last \in Nat, NEW base, NEW h \in Nat \ {0},
           NEW target, target = Target(Sessions \cap 1 .. last, base, h), target # 0
    PROVE  /\ base \in Sessions /\ target \in Sessions
           /\ Cardinality(SessionsBetween(base, target)) = h
<1> DEFINE after == {s \in Sessions \cap 1 .. last : s > base}
<1>1. base \in Sessions \cap 1 .. last /\ ~(Cardinality(after) < h)
  BY DEF Target
<1>2. target = CHOOSE s \in after : Cardinality({q \in after : q <= s}) = h
  BY <1>1 DEF Target
<1>3. after \in SUBSET Nat /\ \A x \in after : x <= last
  OBVIOUS
<1>4. h <= Cardinality(after)
  <2>1. IsFiniteSet(after)
    BY <1>3, FS_BoundedSetOfNaturals
  <2>2. Cardinality(after) \in Nat
    BY <2>1, FS_CardinalityType
  <2> QED BY <1>1, <2>2
<1>5. \E s \in after : Cardinality({q \in after : q <= s}) = h
  BY <1>3, <1>4, CountsUp
<1>6. target \in after /\ Cardinality({q \in after : q <= target}) = h
  BY <1>2, <1>5, Zenon
<1>7. SessionsBetween(base, target) = {q \in after : q <= target}
  BY <1>1, <1>6 DEF SessionsBetween, Sessions, Days
<1> QED BY <1>1, <1>6, <1>7

CloseBar(d) == [date |-> d, at |-> Close(d)]

(* Of the bars of a date the first is the one of the close. *)
LEMMA SelectedBar ==
    ASSUME NEW upto \in Nat, NEW d \in Nat, asOf' \in Nat,
           SelectBar(BarsUpTo(upto), d) # {}
    PROVE  SelectBar(BarsUpTo(upto), d) = {CloseBar(d)}
<1> DEFINE bars == BarsUpTo(upto)
<1>1. PICK b \in bars : b.date = d /\ b.at <= asOf'
  BY DEF SelectBar, Eligible
<1>2. d \in Sessions \cap 1 .. upto /\ b.at \in {3 * d + 1, 3 * d + 3}
  BY <1>1 DEF BarsUpTo, Close, Label
<1>3. CloseBar(d) \in bars
  BY <1>2 DEF BarsUpTo, CloseBar
<1>4. CloseBar(d).at = 3 * d + 1 /\ CloseBar(d).date = d /\ 3 * d + 1 <= asOf'
  BY <1>1, <1>2 DEF CloseBar, Close
<1>5. ASSUME NEW c \in bars, c.date = d
      PROVE  3 * d + 1 <= c.at /\ (c.at = 3 * d + 1 => c = CloseBar(d)) /\ c.at \in Nat
  BY <1>5 DEF BarsUpTo, CloseBar, Close, Label
<1>6. CloseBar(d) \in Eligible(bars, d)
  BY <1>3, <1>4 DEF Eligible
<1>7. CloseBar(d) \in SelectBar(bars, d)
  BY <1>4, <1>5, <1>6 DEF SelectBar, Eligible
<1>8. ASSUME NEW c \in SelectBar(bars, d) PROVE c = CloseBar(d)
  <2>1. c \in bars /\ c.date = d /\ c.at <= 3 * d + 1
    BY <1>4, <1>6, <1>8 DEF SelectBar, Eligible
  <2> QED BY <1>5, <2>1
<1> QED BY <1>7, <1>8

-----------------------------------------------------------------------------
(***************************************************************************)
(* The invariant: a settled row is the one its decision determines.        *)
(***************************************************************************)
Reproduced(s, base, h) ==
    /\ s.target \in Sessions /\ Due(s.target) <= s.cutoff
    /\ Cardinality(SessionsBetween(base, s.target)) = h
    /\ s.bars = {CloseBar(d) : d \in {base, s.target}}

SettlingInv ==
    /\ DOMAIN settlements \subseteq Decisions
    /\ \A k \in DOMAIN settlements :
          Settled(k) => Reproduced(settlements[k], scored[k[1]].session, k[2])

LEMMA OutcomeFacts ==
    ASSUME NEW last \in Nat, NEW upto \in Nat, asOf' \in Nat, NEW k, k[2] \in Nat \ {0},
           NEW o, o = Outcome(k, Sessions \cap 1 .. last, BarsUpTo(upto)), o.status = "SETTLED"
    PROVE  Reproduced(o, scored[k[1]].session, k[2])
<1>1. PICK base, target, from, to :
        /\ base = scored[k[1]].session
        /\ target = Target(Sessions \cap 1 .. last, base, k[2])
        /\ from = SelectBar(BarsUpTo(upto), base) /\ to = SelectBar(BarsUpTo(upto), target)
  OBVIOUS
<1>2. o = CASE target = 0                     -> StatusRow(k, "CALENDAR_BLOCKED", 0, asOf', {})
            [] target # 0 /\ ~IsDue(target)   ->
                 StatusRow(k, "PENDING_SETTLEMENT", target, Due(target), {})
            [] target # 0 /\ IsDue(target) /\ {} \in {from, to} ->
                 StatusRow(k, "MISSING_PRICE", target, Due(target), {})
            [] OTHER                          -> SettledRow(k, target, from \cup to)
  BY <1>1 DEF Outcome
<1>3. /\ target # 0 /\ IsDue(target) /\ from # {} /\ to # {}
      /\ o = SettledRow(k, target, from \cup to)
  BY <1>2 DEF StatusRow
<1>4. base \in Sessions /\ target \in Sessions /\ Cardinality(SessionsBetween(base, target)) = k[2]
  BY <1>1, <1>3, TargetFacts
<1>5. base \in Nat /\ target \in Nat
  BY <1>4 DEF Sessions, Days
<1>6. from = {CloseBar(base)} /\ to = {CloseBar(target)}
  BY <1>1, <1>3, <1>5, SelectedBar
<1>7. o.target = target /\ o.cutoff = asOf' /\ o.bars = {CloseBar(d) : d \in {base, target}}
  BY <1>3, <1>6 DEF SettledRow, StatusRow
<1>8. Due(o.target) <= o.cutoff
  BY <1>3, <1>7 DEF IsDue
<1> QED BY <1>1, <1>4, <1>7, <1>8 DEF Reproduced

(* The scored runs are a history. *)
LEMMA ScoredGrows ==
    ASSUME SignalsInv, [SignalsNext]_signals
    PROVE  \A i \in 1 .. Len(scored) : i \in 1 .. Len(scored') /\ scored'[i] = scored[i]
<1>1. CASE scored' = scored
  BY <1>1
<1>2. CASE PersistScoring
  <2>1. PICK new : new = Conclusion
    OBVIOUS
  <2>2. scored' = Append(scored, new) /\ new \in ScoredSet /\ scored \in Seq(ScoredSet)
    BY <1>2, <2>1, ConclusionScoredWell
    DEF PersistScoring, Conclusion, Selected, SignalsInv, ScoredInv
  <2> QED BY <2>2, AppendFacts
<1> QED
  BY <1>1, <1>2
  DEF signals, SignalsNext, Tick, BeginRun, StageFails, CollectDomestic, CollectPrice, CollectGlobal

LEMMA ScoredDecisions ==
    ASSUME NEW k \in Decisions
    PROVE  k[1] \in 1 .. Len(scored) /\ k[2] \in Horizons /\ k[2] \in Nat \ {0}
  BY SettlementAssumption DEF Decisions

(* A settlement call fills in the rows it may, and leaves the settled ones. *)
LEMMA SettleFacts ==
    ASSUME SignalsInv, Settle
    PROVE  \/ settlements' = settlements
           \/ /\ DOMAIN settlements' = Decisions
              /\ \A k \in Decisions :
                   \/ Settled(k) /\ settlements'[k] = settlements[k]
                   \/ ~Settled(k) /\ (settlements'[k].status = "SETTLED" =>
                        Reproduced(settlements'[k], scored[k[1]].session, k[2]))
<1>1. asOf' = now /\ now \in Nat
  BY DEF Settle, SignalsInv, RunInv
<1>2. DayOf(now) \in Nat /\ LastDay \in Nat
  BY <1>1, DayFacts, SignalsAssumption
<1>3. PICK last \in 0 .. LastDay, upto \in 0 .. DayOf(now) :
        LET outcomes == [d \in Decisions |-> Outcome(d, Sessions \cap 1 .. last, BarsUpTo(upto))]
        IN  settlements' =
              IF Refused(outcomes) THEN settlements
              ELSE [d \in Decisions |-> IF Settled(d) THEN settlements[d] ELSE outcomes[d]]
  BY Zenon DEF Settle, Calendars
<1> DEFINE outcomes == [d \in Decisions |-> Outcome(d, Sessions \cap 1 .. last, BarsUpTo(upto))]
<1>4. ASSUME NEW k \in Decisions, outcomes[k].status = "SETTLED"
      PROVE  Reproduced(outcomes[k], scored[k[1]].session, k[2])
  <2>1. k[2] \in Nat \ {0} /\ last \in Nat /\ upto \in Nat
    BY <1>2, ScoredDecisions
  <2>2. outcomes[k] = Outcome(k, Sessions \cap 1 .. last, BarsUpTo(upto))
    BY <1>4
  <2> QED BY <1>1, <1>4, <2>1, <2>2, OutcomeFacts
<1>5. CASE ~Refused(outcomes)
  <2>1. settlements' = [d \in Decisions |-> IF Settled(d) THEN settlements[d] ELSE outcomes[d]]
    BY <1>3, <1>5
  <2> HIDE DEF outcomes
  <2>2. ASSUME NEW k \in Decisions, ~Settled(k), settlements'[k].status = "SETTLED"
        PROVE  Reproduced(settlements'[k], scored[k[1]].session, k[2])
    BY <1>4, <2>1, <2>2
  <2> QED BY <2>1, <2>2
<1> QED BY <1>3, <1>5

DeskInv == SignalsInv /\ SettlingInv

LEMMA DeskInitially == DeskInit => DeskInv
<1> SUFFICES ASSUME DeskInit PROVE DeskInv
  OBVIOUS
<1>1. SignalsInv
  BY SignalsInitially DEF DeskInit
<1>2. DOMAIN settlements = {}
  BY DEF DeskInit
<1> QED BY <1>1, <1>2 DEF DeskInv, SettlingInv

LEMMA SettleStep == DeskInv /\ Settle => DeskInv'
<1> SUFFICES ASSUME DeskInv, Settle PROVE DeskInv'
  OBVIOUS
<1>1. SignalsInv'
  BY SignalsStep DEF DeskInv, Settle
<1>2. scored' = scored /\ Decisions' = Decisions
  BY DEF Settle, signals, Decisions
<1>3. SettlingInv'
  <2>1. CASE settlements' = settlements
    BY <1>2, <2>1 DEF DeskInv, SettlingInv, Settled
  <2>2. CASE settlements' # settlements
    <3>1. /\ DOMAIN settlements' = Decisions
          /\ \A k \in Decisions :
               \/ Settled(k) /\ settlements'[k] = settlements[k]
               \/ ~Settled(k) /\ (settlements'[k].status = "SETTLED" =>
                    Reproduced(settlements'[k], scored[k[1]].session, k[2]))
      BY <2>2, SettleFacts DEF DeskInv
    <3>2. ASSUME NEW k \in Decisions, settlements'[k].status = "SETTLED"
          PROVE  Reproduced(settlements'[k], scored[k[1]].session, k[2])
      BY <3>1, <3>2 DEF DeskInv, SettlingInv, Settled
    <3> QED BY <1>2, <3>1, <3>2 DEF SettlingInv, Settled
  <2> QED BY <2>1, <2>2
<1> QED BY <1>1, <1>3 DEF DeskInv

LEMMA SettlementsStand ==
    ASSUME DeskInv, [SignalsNext]_signals, UNCHANGED settlements
    PROVE  DeskInv'
<1>1. SignalsInv'
  BY SignalsStep DEF DeskInv
<1>2. \A i \in 1 .. Len(scored) : i \in 1 .. Len(scored') /\ scored'[i] = scored[i]
  BY ScoredGrows DEF DeskInv
<1>3. Decisions \subseteq Decisions'
  BY <1>2 DEF Decisions
<1>4. ASSUME NEW k \in DOMAIN settlements, settlements[k].status = "SETTLED"
      PROVE  Reproduced(settlements[k], scored'[k[1]].session, k[2])
  <2>1. k \in Decisions /\ Reproduced(settlements[k], scored[k[1]].session, k[2])
    BY <1>4 DEF DeskInv, SettlingInv, Settled
  <2> QED BY <1>2, <2>1, ScoredDecisions
<1> QED BY <1>1, <1>3, <1>4 DEF DeskInv, SettlingInv, Settled

LEMMA DeskStep == DeskInv /\ [DeskNext]_desk => DeskInv'
<1> SUFFICES ASSUME DeskInv, [DeskNext]_desk PROVE DeskInv'
  OBVIOUS
<1>1. CASE Settle
  BY <1>1, SettleStep
<1>2. CASE (SignalsNext /\ UNCHANGED settlements) \/ UNCHANGED desk
  BY <1>2, SettlementsStand DEF desk, settling
<1> QED BY <1>1, <1>2 DEF DeskNext

LEMMA DeskAlways == DeskSpec => []DeskInv
<1> QED BY DeskInitially, DeskStep, PTL DEF DeskSpec

-----------------------------------------------------------------------------
(***************************************************************************)
(* The theorems.                                                           *)
(***************************************************************************)
(* No scored run has used an observation that was not public at its        *)
(* cutoff: the collectors ask IsSourceDateAvailable of what they store and *)
(* the engine selects nothing stored later.                                *)
THEOREM NoRunLooksAhead == DeskSpec => []NoLookAhead
<1>1. DeskInv => NoLookAhead
  BY SignalsProperties DEF DeskInv
<1> QED BY <1>1, DeskAlways, PTL

(* Every scored run used the close, the volume and the flow of the latest  *)
(* session that had closed at its cutoff, though the gate of scoring       *)
(* compares no dates.  Its one-day return may be that of an earlier one.   *)
THEOREM RequiredFeaturesOfTheSession == DeskSpec => []RequiredOfItsSession
<1>1. DeskInv => RequiredOfItsSession
  BY SignalsProperties DEF DeskInv
<1> QED BY <1>1, DeskAlways, PTL

(* What the engine selects for the cutoff of a scored run stays what it    *)
(* selected, whatever later runs and the copies of scored ones add.        *)
THEOREM SelectionStable == DeskSpec => []AsOfStable
<1>1. DeskInv => AsOfStable
  BY SignalsProperties DEF DeskInv
<1> QED BY <1>1, DeskAlways, PTL

(* The rows of a scored run tell load_ksf_sqlite the snapshot its          *)
(* decisions were made of.                                                 *)
THEOREM ScoredRunsLoad == DeskSpec => []Loadable
<1>1. DeskInv => Loadable
  BY SignalsProperties DEF DeskInv
<1> QED BY <1>1, DeskAlways, PTL

(* What a scored run calls ready is fresh, though staleness is recorded    *)
(* when a row is written and never looked at again.                        *)
THEOREM ReadyStaysFresh == DeskSpec => []ReadyIsFresh
<1>1. DeskInv => ReadyIsFresh
  BY SignalsProperties DEF DeskInv
<1> QED BY <1>1, DeskAlways, PTL

(* A settled decision is settled on the session at its horizon, after that *)
(* session's close was confirmed, at the closes and never at a correction. *)
THEOREM ResultsReproducible == DeskSpec => []SettledReproducible
<1>1. DeskInv => SettledReproducible
  BY DEF DeskInv, SettlingInv, SettledReproducible, Reproduced, SessionsBetween, CloseBar
<1> QED BY <1>1, DeskAlways, PTL

(* settle_due_decisions never touches a settled row. *)
THEOREM DecisionsSettledOnce == DeskSpec => SettledOnce
<1> DEFINE Keeps == \A k \in DOMAIN settlements : Settled(k) =>
                       k \in DOMAIN settlements' /\ settlements'[k] = settlements[k]
<1>1. DeskInv /\ [DeskNext]_desk => [Keeps]_desk
  <2> SUFFICES ASSUME DeskInv, DeskNext PROVE Keeps
    OBVIOUS
  <2>1. CASE settlements' = settlements
    BY <2>1
  <2>2. CASE Settle
    BY <2>2, SettleFacts DEF DeskInv, SettlingInv
  <2> QED BY <2>1, <2>2 DEF DeskNext, settling
<1> QED BY <1>1, DeskAlways, PTL DEF DeskSpec, SettledOnce
=============================================================================

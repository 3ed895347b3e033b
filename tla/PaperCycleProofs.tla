-------------------------- MODULE PaperCycleProofs --------------------------
(***************************************************************************)
(* What the paper cycle promises for any number of sessions and symbols,   *)
(* whatever the agent answers, the market does and the operator flips, and *)
(* wherever a cycle fails or dies.                                         *)
(***************************************************************************)
EXTENDS PaperCycle, PaperLedgerProofs, PaperRiskProofs

-----------------------------------------------------------------------------
(***************************************************************************)
(* The broker's arithmetic, for every rate and every price: an execution   *)
(* is never better for the account than the market and the rates are, and  *)
(* its charges stay within its proceeds, which is what PaperLedger assumes *)
(* of every fill (ChargeAssumption).                                       *)
(***************************************************************************)
(* Rounding up is the least solution of an inequality. *)
LEMMA CeilLemma ==
    ASSUME NEW value \in Nat
    PROVE  /\ CeilDiv(value, 10000) \in Nat
           /\ value <= CeilDiv(value, 10000) * 10000
           /\ CeilDiv(value, 10000) * 10000 < value + 10000
BY Z3 DEF CeilDiv

LEMMA ProductInNat ==
    ASSUME NEW amount \in Nat
    PROVE  amount * FeeBps \in Nat /\ amount * SellTaxBps \in Nat /\ amount * SlippageBps \in Nat
<1>1. FeeBps \in Nat /\ SellTaxBps \in Nat /\ SlippageBps \in Nat
  BY ExecutionAssumption
<1> QED BY <1>1

(* A purchase costs at least the price observed, a sale brings at most     *)
(* that and never a negative price, and fee and tax are at least what the  *)
(* rates say: no rounding in the broker's arithmetic favours the account.  *)
THEOREM RoundedAgainstAccount ==
    ASSUME NEW reference \in Nat, NEW gross \in Nat
    PROVE  /\ FillPrice("BUY", reference) >= reference
           /\ FillPrice("SELL", reference) \in 0 .. reference
           /\ Fee(gross) * 10000 >= gross * FeeBps
           /\ Tax("SELL", gross) * 10000 >= gross * SellTaxBps
<1> DEFINE slip == reference * SlippageBps
<1>1. slip \in Nat /\ gross * FeeBps \in Nat /\ gross * SellTaxBps \in Nat
  BY ProductInNat
<1>2. slip <= reference * 10000
  BY ExecutionAssumption
<1>3. /\ CeilDiv(slip, 10000) \in Nat
      /\ CeilDiv(slip, 10000) * 10000 < slip + 10000
  BY <1>1, CeilLemma
<1>4. CeilDiv(slip, 10000) <= reference
  <2> HIDE DEF slip
  <2> QED BY <1>1, <1>2, <1>3
<1>5. FillPrice("BUY", reference) >= reference /\ FillPrice("SELL", reference) \in 0 .. reference
  BY <1>3, <1>4 DEF FillPrice, SlipPerShare
<1>6. Fee(gross) * 10000 >= gross * FeeBps
  BY <1>1, CeilLemma DEF Fee
<1>7. Tax("SELL", gross) * 10000 >= gross * SellTaxBps
  BY <1>1, CeilLemma DEF Tax
<1> QED BY <1>5, <1>6, <1>7

(* With rates of half the amount together at the most, the charges of an   *)
(* execution of 2 KRW or more are within its amount, although each of them *)
(* is rounded up by itself: a sale never costs cash.                       *)
THEOREM ChargesWithinProceeds ==
    ASSUME NEW side \in {"BUY", "SELL"}, NEW gross \in Nat, gross >= 2,
           FeeBps + SellTaxBps <= 5000
    PROVE  Fee(gross) + Tax(side, gross) <= gross
<1> DEFINE f == gross * FeeBps
           t == gross * SellTaxBps
<1>1. f \in Nat /\ t \in Nat
  BY ProductInNat
<1>2. f + t <= gross * 5000
  <2>1. FeeBps \in Nat /\ SellTaxBps \in Nat
    BY ExecutionAssumption
  <2>2. f + t = gross * (FeeBps + SellTaxBps)
    BY <2>1
  <2>3. gross * (FeeBps + SellTaxBps) <= gross * 5000
    BY <2>1
  <2> QED BY <2>2, <2>3
<1>3. Fee(gross) \in Nat /\ Fee(gross) * 10000 < f + 10000
  BY <1>1, CeilLemma DEF Fee
<1>4. CeilDiv(t, 10000) \in Nat /\ CeilDiv(t, 10000) * 10000 < t + 10000
  BY <1>1, CeilLemma
<1>5. Tax(side, gross) \in Nat /\ Tax(side, gross) * 10000 < t + 10000
  BY <1>1, <1>4 DEF Tax
<1> HIDE DEF f, t
<1>6. (Fee(gross) + Tax(side, gross)) * 10000 < gross * 5000 + 20000
  BY <1>1, <1>2, <1>3, <1>5
<1>7. gross * 5000 + 20000 <= (gross + 1) * 10000
  OBVIOUS
<1> QED BY <1>3, <1>5, <1>6, <1>7

-----------------------------------------------------------------------------
(***************************************************************************)
(* The steps of a cycle by what becomes of the transaction: it goes on, or *)
(* it is rolled back.                                                      *)
(***************************************************************************)
WorkStages == {"settle", "fill_nav", "decide", "propose", "review", "order"}

GoesOn ==
    \/ Settle \/ Marking
    \/ \E answer \in Answers : Decide(answer)
    \/ Propose \/ ReviewProposal \/ PlaceOrder

RollsBack ==
    \/ SettlementFails \/ MarkingFails \/ ReviewFails
    \/ InCycle /\ Fail("crashed")

(* What a step inside the transaction leaves alone. *)
Inside ==
    /\ InCycle
    /\ UNCHANGED <<accounts, accountEvents, killEvents, saved, commits, alerts>>
    /\ run'.stage \in WorkStages /\ run'.session = run.session /\ run'.mode = run.mode

LEMMA RunningInside ==
    ASSUME NEW stage \in WorkStages, NEW left, GoTo(Running(stage, left)), InCycle,
           UNCHANGED <<accounts, accountEvents, killEvents, saved, commits, alerts>>
    PROVE  Inside
  BY DEF GoTo, Running, Inside

LEMMA GoesOnInside == GoesOn => Inside
<1>1. ASSUME NEW o, At("settle"), SettleOrder(o) PROVE Inside
  BY <1>1 DEF SettleOrder, AppendFill, At, InCycle, GoTo, WorkStages, Inside
<1>2. SnapshotFill => Inside
  <2> SUFFICES ASSUME SnapshotFill PROVE Inside
    OBVIOUS
  <2>1. InCycle /\ UNCHANGED <<accounts, accountEvents, killEvents, saved, commits, alerts>>
    BY DEF SnapshotFill, AppendNavSnapshot, At, InCycle
  <2> QED BY <2>1, RunningInside DEF SnapshotFill, WorkStages
<1>3. Marking => Inside
  <2> SUFFICES ASSUME Marking PROVE Inside
    OBVIOUS
  <2>1. InCycle /\ UNCHANGED <<accounts, accountEvents, killEvents, saved, commits, alerts>>
    BY DEF Marking, AppendNavSnapshot, At, InCycle
  <2> QED BY <2>1, RunningInside DEF Marking, WorkStages
<1>4. ASSUME NEW answer, Decide(answer) PROVE Inside
  <2>1. InCycle /\ UNCHANGED <<accounts, accountEvents, killEvents, saved, commits, alerts>>
    BY <1>4 DEF Decide, AppendAgentDecision, At, InCycle
  <2>2. CASE GoTo(Rest)
    BY <2>1, <2>2, RunningInside DEF Rest, WorkStages
  <2>3. CASE GoTo([stage |-> "propose", session |-> run.session, mode |-> run.mode,
                   closes |-> run.closes, offsets |-> run.offsets, left |-> run.left,
                   target |-> answer.target])
    BY <2>1, <2>3 DEF GoTo, WorkStages, Inside
  <2> QED BY <1>4, <2>2, <2>3 DEF Decide
<1>5. Propose => Inside
  <2> SUFFICES ASSUME Propose PROVE Inside
    OBVIOUS
  <2>1. InCycle /\ UNCHANGED <<accounts, accountEvents, killEvents, saved, commits, alerts>>
    BY DEF Propose, AppendOrderProposal, At, InCycle
  <2> QED BY <2>1, RunningInside DEF Propose, WorkStages
<1>6. ReviewProposal => Inside
  <2> SUFFICES ASSUME ReviewProposal PROVE Inside
    OBVIOUS
  <2>1. /\ InCycle /\ UNCHANGED <<accounts, accountEvents, killEvents, saved, commits, alerts>>
        /\ GoTo(Rest) \/ GoTo(Running("order", run.left))
    BY DEF ReviewProposal, AppendRiskReview, ledger, At, InCycle
  <2> QED BY <2>1, RunningInside DEF Rest, WorkStages
<1>7. PlaceOrder => Inside
  <2> SUFFICES ASSUME PlaceOrder PROVE Inside
    OBVIOUS
  <2>1. InCycle /\ UNCHANGED <<accounts, accountEvents, killEvents, saved, commits, alerts>>
    BY DEF PlaceOrder, AppendOrder, At, InCycle
  <2> QED BY <2>1, RunningInside DEF PlaceOrder, Rest, WorkStages
<1> QED BY <1>1, <1>2, <1>3, <1>4, <1>5, <1>6, <1>7 DEF GoesOn, Settle

LEMMA RollsBackRestores ==
    ASSUME RollsBack
    PROVE  InCycle /\ Rollback /\ run' = Idle
<1>1. /\ SettleFails \/ SnapshotFillFails => InCycle /\ Rollback /\ run' = Idle
      /\ MarkingFails => InCycle /\ Rollback /\ run' = Idle
  BY DEF SettleFails, SnapshotFillFails, MarkingFails, Fail, GoTo, At, InCycle
<1>2. ReviewFails => InCycle /\ Rollback /\ run' = Idle
  BY DEF ReviewFails, Fail, GoTo, At, InCycle
<1> QED BY <1>1, <1>2 DEF RollsBack, SettlementFails, Fail, GoTo

(* Every step, by what it does to the transaction. *)
LEMMA CycleSteps ==
    ASSUME [CycleNext]_vars
    PROVE  \/ \E s \in Sessions, mode \in Modes, closes \in [Symbols -> Closes],
                 offsets \in Offsets : Begin(s, mode, closes, offsets)
           \/ GoesOn
           \/ RollsBack
           \/ Commit
           \/ Alert
           \/ Operator
           \/ At("alert") /\ run' = Idle /\ UNCHANGED <<ledger, saved, commits, alerts>>
           \/ UNCHANGED <<ledger, run, saved, commits, alerts>>
<1>1. ASSUME Start PROVE \/ \E s \in Sessions, mode \in Modes, closes \in [Symbols -> Closes],
                              offsets \in Offsets : Begin(s, mode, closes, offsets)
                         \/ UNCHANGED <<ledger, run, saved, commits, alerts>>
  BY <1>1 DEF Start, Rerun, Refuse
<1>2. Step => GoesOn \/ RollsBack \/ Commit \/ Alert
  BY DEF Step, GoesOn, RollsBack
<1>3. Crash => RollsBack \/ (At("alert") /\ run' = Idle /\ UNCHANGED <<ledger, saved, commits, alerts>>)
  BY DEF Crash, RollsBack, GoTo
<1>4. UNCHANGED vars => UNCHANGED <<ledger, run, saved, commits, alerts>>
  BY DEF vars, cycle
<1> QED BY <1>1, <1>2, <1>3, <1>4 DEF CycleNext

-----------------------------------------------------------------------------
(***************************************************************************)
(* The digest.  A session whose transaction is open has no commit row, and *)
(* one whose digest is due has been committed and not been told.           *)
(***************************************************************************)
RunOf ==
    \/ run = Idle
    \/ At("alert") /\ run.session \in Sessions /\ commits[run.session] # "none"
                   /\ alerts[run.session] = 0
    \/ run.stage \in WorkStages /\ run.session \in Sessions /\ run.mode \in Modes
         /\ commits[run.session] = "none"

DigestInv ==
    /\ commits \in [Sessions -> {"none"} \cup Modes] /\ alerts \in [Sessions -> Nat]
    /\ DigestOnce
    /\ RunOf

LEMMA InCycleMeans ==
    ASSUME RunOf, InCycle
    PROVE  run.stage \in WorkStages /\ run.session \in Sessions /\ run.mode \in Modes
           /\ commits[run.session] = "none"
  BY DEF RunOf, InCycle, Idle, At

LEMMA DigestStep ==
    ASSUME DigestInv, [CycleNext]_vars
    PROVE  DigestInv'
<1>1. ASSUME NEW s \in Sessions, NEW mode \in Modes, NEW closes, NEW offsets,
             Begin(s, mode, closes, offsets)
      PROVE  DigestInv'
  <2>1. /\ commits' = commits /\ alerts' = alerts /\ commits[s] = "none"
        /\ run'.stage = "settle" /\ run'.session = s /\ run'.mode = mode
    BY <1>1 DEF Begin, GoTo
  <2> QED BY <2>1 DEF DigestInv, DigestOnce, RunOf, WorkStages
<1>2. ASSUME GoesOn PROVE DigestInv'
  <2>1. /\ InCycle /\ commits' = commits /\ alerts' = alerts
        /\ run'.stage \in WorkStages /\ run'.session = run.session /\ run'.mode = run.mode
    BY <1>2, GoesOnInside DEF Inside
  <2> QED BY <2>1, InCycleMeans DEF DigestInv, DigestOnce, RunOf
<1>3. ASSUME RollsBack PROVE DigestInv'
  <2>1. commits' = commits /\ alerts' = alerts /\ run' = Idle
    BY <1>3, RollsBackRestores DEF Rollback
  <2> QED BY <2>1 DEF DigestInv, DigestOnce, RunOf, Idle
<1>4. ASSUME Commit PROVE DigestInv'
  <2>1. InCycle
    BY <1>4 DEF Commit, At, InCycle
  <2>2. /\ run.session \in Sessions /\ run.mode \in Modes /\ run.mode # "none"
        /\ commits[run.session] = "none"
    BY <2>1, InCycleMeans, CycleAssumption DEF DigestInv
  <2>3. /\ commits' = [commits EXCEPT ![run.session] = run.mode] /\ alerts' = alerts
        /\ run'.stage = "alert" /\ run'.session = run.session
    BY <1>4 DEF Commit, GoTo
  <2>4. alerts[run.session] = 0
    BY <2>2 DEF DigestInv, DigestOnce
  <2>5. DigestOnce'
    BY <2>2, <2>3, <2>4 DEF DigestInv, DigestOnce
  <2>6. RunOf'
    BY <2>2, <2>3, <2>4 DEF DigestInv, RunOf, At
  <2> QED BY <2>2, <2>3, <2>5, <2>6 DEF DigestInv
<1>5. ASSUME Alert PROVE DigestInv'
  <2>1. /\ run.session \in Sessions /\ commits[run.session] # "none" /\ alerts[run.session] = 0
    BY <1>5 DEF Alert, DigestInv, RunOf, At, Idle, WorkStages
  <2>2. /\ commits' = commits /\ run' = Idle
        /\ alerts' = alerts \/ alerts' = [alerts EXCEPT ![run.session] = alerts[run.session] + 1]
    BY <1>5 DEF Alert, GoTo
  <2> QED BY <2>1, <2>2 DEF DigestInv, DigestOnce, RunOf, Idle
<1>6. ASSUME Operator PROVE DigestInv'
  BY <1>6 DEF Operator, cycle, DigestInv, DigestOnce, RunOf, At
<1>7. ASSUME run' = Idle \/ run' = run, commits' = commits, alerts' = alerts PROVE DigestInv'
  BY <1>7 DEF DigestInv, DigestOnce, RunOf, Idle, At
<1> QED BY CycleSteps, <1>1, <1>2, <1>3, <1>4, <1>5, <1>6, <1>7

LEMMA DigestInvariance == CycleSpec => []DigestInv
<1>1. CycleInit => DigestInv
  BY DEF CycleInit, DigestInv, DigestOnce, RunOf
<1> QED BY <1>1, DigestStep, PTL DEF CycleSpec

(* However often a session is run again and wherever the process dies, its *)
(* digest is delivered at most once, and only after its commit.            *)
THEOREM DigestsAtMostOnce == CycleSpec => []DigestOnce
BY DigestInvariance, PTL DEF DigestInv

-----------------------------------------------------------------------------
(***************************************************************************)
(* The switches.  What they said when the transaction began they say until *)
(* it ends, because an operator's write cannot come between.               *)
(***************************************************************************)
SwitchTypes ==
    /\ SwitchInv /\ DOMAIN accounts = Accounts
    /\ \A i \in 1 .. Len(killEvents[TheAccount]) :
         killEvents[TheAccount][i].type \in {"ENGAGED", "RELEASED"}

SaysGo ==
    /\ LastType(accountEvents[TheAccount]) = "ENABLED"
    /\ LastType(killEvents[TheAccount]) = "RELEASED"

LEMMA AuthoritySaysGo ==
    ASSUME SwitchTypes, NEW t \in Times, Authority(t)
    PROVE  SaysGo
<1>1. TheAccount \in Accounts
  BY CycleAssumption
<1> DEFINE log == accountEvents[TheAccount]
           kill == killEvents[TheAccount]
<1>2. log \in Seq(Event) /\ kill \in Seq(Event)
  BY <1>1 DEF SwitchTypes, SwitchInv
<1>3. /\ \A i \in 1 .. Len(log) : log[i].at <= t /\ log[i].at \in Int
      /\ \A i \in 1 .. Len(kill) : kill[i].at <= t /\ kill[i].at \in Int
      /\ Len(log) \in Nat /\ Len(kill) \in Nat /\ t \in Int
  <2>1. \A e \in Event : e.at \in Int
    BY DEF Event, Times
  <2>2. \A i \in 1 .. Len(log) : log[i] \in Event
    BY <1>2
  <2>3. \A i \in 1 .. Len(kill) : kill[i] \in Event
    BY <1>2
  <2>4. Len(log) \in Nat /\ Len(kill) \in Nat /\ t \in Int
    BY <1>2 DEF Times
  <2>5. /\ \A i \in 1 .. Len(log) : log[i].at <= t
        /\ \A i \in 1 .. Len(kill) : kill[i].at <= t
    BY DEF Authority
  <2> QED BY <2>1, <2>2, <2>3, <2>4, <2>5
<1>4. LastAsOf(log, t, "ENABLED") /\ ~LastAsOf(kill, t, "ENGAGED")
      /\ \E i \in 1 .. Len(kill) : ~(kill[i].at > t)
  BY DEF Authority, AccountEnabledAsOf, KillSwitchEngagedAsOf
<1>5. \A i \in 1 .. Len(kill) : kill[i].type \in {"ENGAGED", "RELEASED"}
  BY DEF SwitchTypes
<1> HIDE DEF log, kill
<1>6. log[Len(log)].type = "ENABLED"
  <2>1. PICK i \in 1 .. Len(log) : /\ log[i].at <= t /\ log[i].type = "ENABLED"
                                   /\ \A j \in i + 1 .. Len(log) : log[j].at > t
    BY <1>4 DEF LastAsOf
  <2>2. i = Len(log)
    <3>1. SUFFICES ASSUME i # Len(log) PROVE FALSE
      OBVIOUS
    <3>2. Len(log) \in i + 1 .. Len(log) /\ Len(log) \in 1 .. Len(log)
      BY <1>3, <3>1
    <3>3. log[Len(log)].at > t
      BY <2>1, <3>2
    <3>4. log[Len(log)].at <= t /\ log[Len(log)].at \in Int /\ t \in Int
      BY <1>3, <3>2
    <3> QED BY <3>3, <3>4
  <2> QED BY <2>1, <2>2
<1>7. kill[Len(kill)].type = "RELEASED"
  <2>1. Len(kill) \in 1 .. Len(kill)
    BY <1>3, <1>4
  <2>2. ~(kill[Len(kill)].at <= t /\ kill[Len(kill)].type = "ENGAGED")
    <3>1. \A j \in Len(kill) + 1 .. Len(kill) : kill[j].at > t
      BY <1>3
    <3> QED BY <1>4, <2>1, <3>1 DEF LastAsOf
  <2> QED BY <1>3, <1>5, <2>1, <2>2
<1> QED BY <1>6, <1>7 DEF SaysGo, LastType, log, kill

LEMMA Instants ==
    ASSUME NEW s \in Sessions, NEW offset \in {0, 1}
    PROVE  /\ CycleAt(s) \in Times /\ CutoffAt(s, offset) \in Times
           /\ SessionOf(CycleAt(s)) = s /\ SessionOf(CutoffAt(s, offset)) = s
<1>1. s \in Nat /\ s <= MaxSession /\ MaxSession \in Nat /\ MaxTime = 3 * MaxSession + 2
  BY CycleAssumption DEF Sessions, CycleAt
<1>2. /\ CycleAt(s) \in Times /\ CutoffAt(s, offset) \in Times
  BY <1>1 DEF CycleAt, CutoffAt, Times
<1>3. (3 * s + 2) \div 3 = s /\ (3 * s) \div 3 = s /\ (3 * s + 1) \div 3 = s
  BY <1>1, Z3
<1> QED BY <1>1, <1>2, <1>3 DEF CycleAt, CutoffAt, SessionOf

LEMMA OperatorWrites ==
    ASSUME SwitchTypes, Operator
    PROVE  SwitchTypes' /\ HistoryKept
<1>1. PICK id \in EventIds, at \in EventTimes :
        \/ \E type \in {"ENGAGED", "RELEASED"} : AppendKillSwitchEvent(id, TheAccount, type, at)
        \/ \E type \in {"ENABLED", "DISABLED"} : AppendAccountEvent(id, TheAccount, type, at)
  BY DEF Operator
<1>2. at \in Times /\ TheAccount \in Accounts
  BY CycleAssumption
<1>3. SwitchInv' /\ HistoryKept
  BY <1>1, <1>2, SwitchEventHistory DEF SwitchTypes
<1>4. accounts' = accounts
  BY <1>1 DEF AppendKillSwitchEvent, AppendAccountEvent
<1>5. CASE \E type \in {"ENGAGED", "RELEASED"} : AppendKillSwitchEvent(id, TheAccount, type, at)
  <2>1. PICK type \in {"ENGAGED", "RELEASED"} : AppendKillSwitchEvent(id, TheAccount, type, at)
    BY <1>5
  <2>2. PICK e \in Event : e = Entry(id, type, at)
    BY <1>2, EntryType
  <2>3. PICK kill \in Seq(Event) : kill = killEvents[TheAccount]
    BY <1>2 DEF SwitchTypes, SwitchInv
  <2>4. killEvents'[TheAccount] = Append(kill, e)
    BY <1>2, <2>1, <2>2, <2>3 DEF AppendKillSwitchEvent, SwitchTypes, SwitchInv
  <2>5. /\ Len(kill) \in Nat /\ Len(Append(kill, e)) = Len(kill) + 1
        /\ \A i \in 1 .. Len(kill) : Append(kill, e)[i] = kill[i]
        /\ Append(kill, e)[Len(kill) + 1] = e
    BY AppendFacts
  <2>6. e.type = type
    BY <2>2 DEF Entry
  <2>7. \A i \in 1 .. Len(kill) : kill[i].type \in {"ENGAGED", "RELEASED"}
    BY <2>3 DEF SwitchTypes
  <2>8. ASSUME NEW i \in 1 .. Len(Append(kill, e))
        PROVE  Append(kill, e)[i].type \in {"ENGAGED", "RELEASED"}
    <3>1. CASE i = Len(kill) + 1
      BY <2>5, <2>6, <3>1
    <3>2. CASE i # Len(kill) + 1
      <4>1. i \in 1 .. Len(kill)
        BY <2>5, <3>2
      <4> QED BY <2>5, <2>7, <4>1
    <3> QED BY <3>1, <3>2
  <2> QED BY <1>3, <1>4, <2>4, <2>8 DEF SwitchTypes
<1>6. CASE \E type \in {"ENABLED", "DISABLED"} : AppendAccountEvent(id, TheAccount, type, at)
  <2>1. killEvents' = killEvents
    BY <1>6 DEF AppendAccountEvent
  <2> QED BY <1>3, <1>4, <2>1 DEF SwitchTypes
<1> QED BY <1>1, <1>3, <1>5, <1>6

(* Only an operator's write touches the switches. *)
LEMMA SwitchesOnlyByOperator ==
    ASSUME [CycleNext]_vars, ~Operator
    PROVE  UNCHANGED <<accounts, accountEvents, killEvents>>
<1>1. \A s, mode, closes, offsets : Begin(s, mode, closes, offsets) =>
        UNCHANGED <<accounts, accountEvents, killEvents>>
  BY DEF Begin, ledger
<1>2. GoesOn => UNCHANGED <<accounts, accountEvents, killEvents>>
  BY GoesOnInside DEF Inside
<1>3. RollsBack => UNCHANGED <<accounts, accountEvents, killEvents>>
  BY RollsBackRestores DEF Rollback
<1>4. /\ Commit \/ Alert => UNCHANGED <<accounts, accountEvents, killEvents>>
      /\ UNCHANGED ledger => UNCHANGED <<accounts, accountEvents, killEvents>>
  BY DEF Commit, Alert, ledger
<1> QED BY CycleSteps, <1>1, <1>2, <1>3, <1>4

LEMMA SwitchesKept ==
    ASSUME SwitchTypes, [CycleNext]_vars
    PROVE  SwitchTypes' /\ HistoryKept
<1>1. CASE Operator
  BY <1>1, OperatorWrites
<1>2. CASE ~Operator
  <2>1. UNCHANGED <<accounts, accountEvents, killEvents>>
    BY <1>2, SwitchesOnlyByOperator
  <2> QED BY <2>1, QuietSwitches DEF SwitchTypes, SwitchInv
<1> QED BY <1>1, <1>2

AuthorityInv == SwitchTypes /\ DigestInv /\ (InCycle => SaysGo)

LEMMA AuthorityStep ==
    ASSUME AuthorityInv, [CycleNext]_vars
    PROVE  AuthorityInv'
<1>1. SwitchTypes' /\ DigestInv'
  BY SwitchesKept, DigestStep DEF AuthorityInv
<1>2. CASE Operator
  BY <1>1, <1>2 DEF AuthorityInv, Operator, InCycle, cycle
<1>3. CASE ~Operator
  <2>1. SaysGo' <=> SaysGo
    BY <1>3, SwitchesOnlyByOperator DEF SaysGo
  <2>2. CASE InCycle
    BY <1>1, <2>1, <2>2 DEF AuthorityInv
  <2>3. CASE ~InCycle /\ InCycle'
    <3>1. /\ ~GoesOn /\ ~RollsBack
      BY <2>3, GoesOnInside, RollsBackRestores DEF Inside
    <3>2. /\ ~Commit /\ ~Alert /\ run' # Idle /\ run' # run
      BY <2>3 DEF Commit, Alert, GoTo, Idle, InCycle, At
    <3>3. PICK s \in Sessions, mode \in Modes, closes \in [Symbols -> Closes], offsets \in Offsets :
            Begin(s, mode, closes, offsets)
      BY <1>3, <3>1, <3>2, CycleSteps
    <3>4. Authority(CycleAt(s)) /\ CycleAt(s) \in Times
      BY <3>3, Instants DEF Begin
    <3>5. SaysGo
      BY <3>4, AuthoritySaysGo DEF AuthorityInv
    <3> QED BY <1>1, <2>1, <3>5 DEF AuthorityInv
  <2> QED BY <1>1, <2>2, <2>3 DEF AuthorityInv
<1> QED BY <1>2, <1>3

LEMMA AuthorityInvariance == CycleSpec => []AuthorityInv
<1>1. CycleInit => SwitchTypes
  <2> SUFFICES ASSUME CycleInit PROVE SwitchTypes
    OBVIOUS
  <2>1. 0 \in Times /\ TheAccount \in Accounts
    BY TimeAssumption, CycleAssumption DEF Times
  <2>2. /\ Entry("emitted", "CREATED", 0) \in Event /\ Entry("emitted", "ENABLED", 0) \in Event
        /\ Entry("emitted", "RELEASED", 0) \in Event
    BY <2>1, EntryType
  <2>3. /\ accountEvents = [a \in Accounts |-> <<Entry("emitted", "CREATED", 0),
                                                 Entry("emitted", "ENABLED", 0)>>]
        /\ killEvents = [a \in Accounts |-> <<Entry("emitted", "RELEASED", 0)>>]
        /\ DOMAIN accounts = Accounts
    BY DEF CycleInit
  <2>4. SwitchInv
    BY <2>2, <2>3 DEF SwitchInv
  <2>5. Entry("emitted", "RELEASED", 0).type = "RELEASED"
    BY DEF Entry
  <2>6. \A i \in 1 .. Len(killEvents[TheAccount]) :
          killEvents[TheAccount][i] = Entry("emitted", "RELEASED", 0)
    BY <2>1, <2>3
  <2> QED BY <2>3, <2>4, <2>5, <2>6 DEF SwitchTypes
<1>2. CycleInit => DigestInv /\ ~InCycle
  BY DEF CycleInit, DigestInv, DigestOnce, RunOf, Idle, InCycle
<1> QED BY <1>1, <1>2, AuthorityStep, PTL DEF CycleSpec, AuthorityInv

(* A cycle commits only if the account is enabled and the kill switch      *)
(* released at that moment, although it read them when it began.           *)
THEOREM CommitsAreAuthorised == CycleSpec => CommitsAuthorised
<1>1. AuthorityInv /\ [CycleNext]_vars =>
        [commits' # commits => /\ LastType(accountEvents[TheAccount]) = "ENABLED"
                               /\ LastType(killEvents[TheAccount]) = "RELEASED"]_vars
  <2> SUFFICES ASSUME AuthorityInv, [CycleNext]_vars, commits' # commits PROVE SaysGo
    BY DEF SaysGo
  <2>1. ~GoesOn /\ ~RollsBack
    BY GoesOnInside, RollsBackRestores DEF Inside, Rollback
  <2>2. ~Alert /\ ~Operator /\ \A s, mode, closes, offsets : ~Begin(s, mode, closes, offsets)
    BY DEF Alert, Operator, cycle, Begin
  <2>3. Commit
    BY <2>1, <2>2, CycleSteps
  <2>4. InCycle
    BY <2>3 DEF Commit, At, InCycle
  <2> QED BY <2>4 DEF AuthorityInv
<1> QED BY <1>1, AuthorityInvariance, PTL DEF CycleSpec, CommitsAuthorised

(* In every cycle of every session, what the switches said as of an        *)
(* instant is final once a later event is recorded.                        *)
THEOREM CycleSwitchHistory == CycleSpec => SwitchHistoryFinal
<1>1. AuthorityInv /\ [CycleNext]_vars => [HistoryKept]_ledger
  BY SwitchesKept DEF AuthorityInv
<1> QED BY <1>1, AuthorityInvariance, PTL DEF CycleSpec, SwitchHistoryFinal, HistoryKept

-----------------------------------------------------------------------------
(***************************************************************************)
(* The ledger under the cycle.  Past is the ledger as of BEGIN IMMEDIATE,  *)
(* which is what a rollback restores.                                      *)
(***************************************************************************)
Past == INSTANCE PaperLedger WITH
    decisions <- saved.decisions, proposals <- saved.proposals, reviews <- saved.reviews,
    orders <- saved.orders, orderEvents <- saved.orderEvents, fills <- saved.fills,
    navs <- saved.navs, cashAsOf <- saved.cash, positionAsOf <- saved.position

OrdersOf(table) == DOMAIN table \subseteq Sessions \X Symbols

BookSound == TypeOK /\ AuthorityChain /\ OrderLifecycle /\ OrdersOf(orders)
PastSound == Past!TypeOK /\ Past!AuthorityChain /\ Past!OrderLifecycle /\ OrdersOf(saved.orders)

(* A rollback is a return to the past, and the past does not change.       *)
LEMMA ReturnToPast ==
    ASSUME PastSound, Rollback
    PROVE  BookSound'
<1>1. /\ decisions' = saved.decisions /\ proposals' = saved.proposals
      /\ reviews' = saved.reviews /\ orders' = saved.orders
      /\ orderEvents' = saved.orderEvents /\ fills' = saved.fills /\ navs' = saved.navs
      /\ cashAsOf' = saved.cash /\ positionAsOf' = saved.position
      /\ accounts' = accounts /\ accountEvents' = accountEvents /\ killEvents' = killEvents
  BY DEF Rollback
<1>2. TypeOK'
  BY <1>1 DEF PastSound, TypeOK, Past!TypeOK, IsTable, Past!IsTable, Times, Past!Times,
     Account, Past!Account, Event, Past!Event, Decision, Past!Decision, Proposal, Past!Proposal,
     Review, Past!Review, Order, Past!Order, Fill, Past!Fill, Mark, Past!Mark, Sides, Past!Sides,
     Actions, Past!Actions
<1>3. AuthorityChain'
  BY <1>1 DEF PastSound, AuthorityChain, Past!AuthorityChain, DecisionsSound, Past!DecisionsSound,
     ProposalsSound, Past!ProposalsSound, ReviewsSound, Past!ReviewsSound, OrdersSound,
     Past!OrdersSound, FillsSound, Past!FillsSound, Authorises, Past!Authorises
<1>4. OrderLifecycle'
  BY <1>1 DEF PastSound, OrderLifecycle, Past!OrderLifecycle, LifeOf, Past!LifeOf
<1> QED BY <1>1, <1>2, <1>3, <1>4 DEF BookSound, PastSound, OrdersOf

LEMMA PastKept ==
    ASSUME PastSound, UNCHANGED <<accounts, accountEvents, killEvents, saved>>
    PROVE  PastSound'
<1>1. Past!TypeOK'
  BY SMTT(40) DEF PastSound, Past!TypeOK, Past!IsTable
<1>2. Past!AuthorityChain'
  BY DEF PastSound, Past!AuthorityChain, Past!DecisionsSound, Past!ProposalsSound,
     Past!ReviewsSound, Past!OrdersSound, Past!FillsSound
<1>3. Past!OrderLifecycle'
  BY DEF PastSound, Past!OrderLifecycle, Past!LifeOf
<1> QED BY <1>1, <1>2, <1>3 DEF PastSound, OrdersOf

LEMMA BeginRemembers ==
    ASSUME BookSound, saved' = Tables, UNCHANGED ledger
    PROVE  PastSound'
<1>1. /\ saved'.decisions = decisions /\ saved'.proposals = proposals
      /\ saved'.reviews = reviews /\ saved'.orders = orders
      /\ saved'.orderEvents = orderEvents /\ saved'.fills = fills /\ saved'.navs = navs
      /\ saved'.cash = cashAsOf /\ saved'.position = positionAsOf
      /\ accounts' = accounts /\ accountEvents' = accountEvents /\ killEvents' = killEvents
  BY DEF Tables, ledger
<1>2. Past!TypeOK'
  BY <1>1 DEF BookSound, TypeOK, Past!TypeOK, IsTable, Past!IsTable, Times, Past!Times,
     Account, Past!Account, Event, Past!Event, Decision, Past!Decision, Proposal, Past!Proposal,
     Review, Past!Review, Order, Past!Order, Fill, Past!Fill, Mark, Past!Mark, Sides, Past!Sides,
     Actions, Past!Actions
<1>3. Past!AuthorityChain'
  BY <1>1 DEF BookSound, AuthorityChain, Past!AuthorityChain, DecisionsSound, Past!DecisionsSound,
     ProposalsSound, Past!ProposalsSound, ReviewsSound, Past!ReviewsSound, OrdersSound,
     Past!OrdersSound, FillsSound, Past!FillsSound, Authorises, Past!Authorises
<1>4. Past!OrderLifecycle'
  BY <1>1 DEF BookSound, OrderLifecycle, Past!OrderLifecycle, LifeOf, Past!LifeOf
<1> QED BY <1>1, <1>2, <1>3, <1>4 DEF BookSound, PastSound, OrdersOf

(***************************************************************************)
(* The running cycle carries prices, offsets and the symbols left; a fill  *)
(* waiting for its snapshot is of an order.                                *)
(***************************************************************************)
RunTyped ==
    InCycle =>
        /\ run.closes \in [Symbols -> Closes] /\ run.offsets \in Offsets
        /\ run.left \in Seq(Symbols)
        /\ run.stage \in {"propose", "review", "order"} => run.left # << >>
        /\ At("fill_nav") => run.filled \in DOMAIN orders

LedgerInv == DigestInv /\ RunTyped /\ BookSound /\ (InCycle => PastSound)

LEMMA RowIds ==
    ASSUME NEW id \in Sessions \X Symbols
    PROVE  /\ id \in DecisionIds /\ id \in ProposalIds /\ id \in ReviewIds /\ id \in OrderIds
           /\ id \in FillIds /\ id \in NavIds /\ id \in KsfIds /\ id \in Keys
  BY CycleAssumption

LEMMA CycleInstants ==
    ASSUME LedgerInv, InCycle
    PROVE  /\ run.session \in Sessions /\ Now \in Times /\ SessionOf(Now) = run.session
           /\ \A s \in Symbols : /\ CutOff(s) \in Times /\ SessionOf(CutOff(s)) = run.session
                                 /\ Close(s) \in Nat \ {0}
<1>1. run.session \in Sessions
  BY InCycleMeans DEF LedgerInv, DigestInv
<1>2. /\ run.offsets \in [Symbols -> {0, 1}] /\ run.closes \in [Symbols -> Nat \ {0}]
  BY CycleAssumption DEF LedgerInv, RunTyped
<1>3. Now \in Times /\ SessionOf(Now) = run.session
  BY <1>1, Instants DEF Now
<1>4. ASSUME NEW s \in Symbols
      PROVE  CutOff(s) \in Times /\ SessionOf(CutOff(s)) = run.session
  <2>1. run.offsets[s] \in {0, 1}
    BY <1>2
  <2> QED BY <1>1, <2>1, Instants DEF CutOff
<1>5. \A s \in Symbols : Close(s) \in Nat \ {0}
  BY <1>2 DEF Close
<1> QED BY <1>1, <1>3, <1>4, <1>5

LEMMA RunningTyped ==
    ASSUME RunTyped, InCycle, NEW stage, NEW left \in Seq(Symbols), GoTo(Running(stage, left)),
           stage # "fill_nav", stage \in {"propose", "review", "order"} => left # << >>
    PROVE  RunTyped'
  BY DEF RunTyped, GoTo, Running, At

LEMMA NextSymbol ==
    ASSUME LedgerInv, InCycle, run.left # << >>
    PROVE  /\ Sym \in Symbols /\ Tail(run.left) \in Seq(Symbols)
           /\ Id \in Sessions \X Symbols /\ Id[1] = run.session /\ Id[2] = Sym
<1>1. run.left \in Seq(Symbols)
  BY DEF LedgerInv, RunTyped
<1>2. Sym \in Symbols /\ Tail(run.left) \in Seq(Symbols)
  BY <1>1 DEF Sym
<1> QED BY <1>2, CycleInstants DEF Id

LEMMA SameRows ==
    ASSUME BookSound, UNCHANGED <<chain, orderEvents, fills>>, TypeOK'
    PROVE  BookSound'
  BY DEF BookSound, AuthorityChain, DecisionsSound, ProposalsSound, ReviewsSound, OrdersSound,
     FillsSound, OrderLifecycle, LifeOf, OrdersOf, chain

LEMMA SettleBook ==
    ASSUME LedgerInv, At("settle"), NEW o \in Pending, SettleOrder(o)
    PROVE  BookSound' /\ RunTyped'
<1>1. o \in DOMAIN orders /\ o \in OrderIds /\ o \in FillIds /\ InCycle
  BY RowIds DEF LedgerInv, BookSound, OrdersOf, Pending, At, InCycle
<1>2. orders[o] \in Order
  BY <1>1 DEF LedgerInv, BookSound, TypeOK, IsTable
<1>3. SeenAt(o) \in Times
  BY <1>1, <1>2, CycleInstants DEF SeenAt, Order
<1>4. AppendFill(o, o, PriceOf(o), FeeOf(o), TaxOf(o), SeenAt(o), SeenAt(o))
  BY DEF SettleOrder
<1>5. TypeOK' /\ AuthorityChain' /\ OrderLifecycle'
  BY <1>1, <1>3, <1>4, FillType, FillChain, OrderFilledLifecycle DEF LedgerInv, BookSound
<1>6. orders' = orders
  BY <1>4 DEF AppendFill, chain
<1>7. RunTyped'
  BY <1>1, <1>6 DEF SettleOrder, GoTo, LedgerInv, RunTyped, At
<1> QED BY <1>5, <1>6, <1>7 DEF LedgerInv, BookSound, OrdersOf

LEMMA NavBook ==
    ASSUME BookSound, NEW n \in NavIds, NEW nav, AppendNavSnapshot(n, nav),
           nav.account \in Accounts, nav.snapshot_at \in Times,
           nav.marks \in [DOMAIN nav.marks -> Mark]
    PROVE  BookSound'
<1>1. TypeOK'
  BY NavType DEF BookSound
<1>2. UNCHANGED <<chain, orderEvents, fills>>
  BY DEF AppendNavSnapshot
<1> QED BY <1>1, <1>2, SameRows

(* Instants are bounded, so that a latest snapshot exists. *)
LEMMA LatestNavExists ==
    ASSUME TypeOK, DOMAIN navs # {}
    PROVE  LatestNav \in DOMAIN navs
<1> DEFINE Ages == {MaxTime - navs[n].snapshot_at : n \in DOMAIN navs}
<1>1. \A n \in DOMAIN navs : navs[n].snapshot_at \in Times
  BY DEF TypeOK
<1>2. Ages \in SUBSET Nat /\ Ages # {}
  BY <1>1, TimeAssumption DEF Times
<1>3. PICK age \in Ages : \A other \in Ages : age <= other
  BY <1>2, LeastOfNaturals
<1>4. PICK n \in DOMAIN navs : age = MaxTime - navs[n].snapshot_at
  BY <1>3
<1>5. ASSUME NEW m \in DOMAIN navs PROVE navs[m].snapshot_at <= navs[n].snapshot_at
  <2>1. MaxTime - navs[n].snapshot_at <= MaxTime - navs[m].snapshot_at
    BY <1>3, <1>4
  <2> QED BY <1>1, <2>1, TimeAssumption DEF Times
<1> QED BY <1>4, <1>5 DEF LatestNav

LEMMA FillNavTyped ==
    ASSUME LedgerInv, At("fill_nav"), Marked(run.filled)
    PROVE  LET nav == FillNav(run.filled) IN
           /\ run.filled \in NavIds
           /\ nav.account \in Accounts /\ nav.snapshot_at \in Times
           /\ nav.marks \in [DOMAIN nav.marks -> Mark]
<1> DEFINE o == run.filled
           nav == FillNav(o)
<1>1. InCycle /\ o \in DOMAIN orders /\ o \in NavIds
  BY RowIds DEF LedgerInv, RunTyped, BookSound, OrdersOf, At, InCycle
<1>2. orders[o] \in Order
  BY <1>1 DEF LedgerInv, BookSound, TypeOK, IsTable
<1>3. orders[o].symbol \in Symbols /\ SeenAt(o) \in Times /\ Close(orders[o].symbol) \in Nat
  BY <1>1, <1>2, CycleInstants DEF SeenAt, Order
<1>4. /\ Held \subseteq DOMAIN PriorMarks \cup {orders[o].symbol}
      /\ \A s \in DOMAIN nav.marks : nav.marks[s].quantity \in Nat
  BY SubmitInserted DEF Marked, NavOutcome
<1>5. DOMAIN nav.marks = Held /\ nav.account = TheAccount /\ nav.snapshot_at = SeenAt(o)
  BY DEF FillNav
<1>6. \A s \in DOMAIN PriorMarks : PriorMarks[s] \in Mark
  <2>1. CASE DOMAIN navs = {}
    BY <2>1 DEF PriorMarks
  <2>2. CASE DOMAIN navs # {}
    <3>1. IsTable(navs[LatestNav].marks, Symbols, Mark)
      BY <2>2, LatestNavExists DEF LedgerInv, BookSound, TypeOK
    <3> QED BY <2>2, <3>1 DEF PriorMarks, IsTable
  <2> QED BY <2>1, <2>2
<1>7. ASSUME NEW s \in Held PROVE nav.marks[s] \in Mark
  <2>1. CASE s = orders[o].symbol
    <3>1. nav.marks[s] = [quantity |-> Position(TheAccount, s), price |-> Close(s),
                          observed_at |-> SeenAt(o)]
      BY <1>7, <2>1 DEF FillNav
    <3>2. Position(TheAccount, s) \in Nat
      BY <1>4, <1>5, <3>1
    <3> QED BY <1>3, <2>1, <3>1, <3>2 DEF Mark
  <2>2. CASE s # orders[o].symbol
    <3>1. nav.marks[s] = [PriorMarks[s] EXCEPT !.quantity = Position(TheAccount, s)]
      BY <1>7, <2>2 DEF FillNav
    <3>2. PriorMarks[s] \in Mark
      BY <1>4, <1>6, <2>2
    <3>3. Position(TheAccount, s) \in Nat
      <4>1. nav.marks[s].quantity = Position(TheAccount, s)
        BY <3>1, <3>2 DEF Mark
      <4> QED BY <1>4, <1>5, <4>1
    <3> QED BY <3>1, <3>2, <3>3 DEF Mark
  <2> QED BY <2>1, <2>2
<1>8. nav.marks = [s \in Held |-> nav.marks[s]]
  BY DEF FillNav
<1> QED BY <1>1, <1>3, <1>5, <1>7, <1>8, CycleAssumption

LEMMA SnapshotFillBook ==
    ASSUME LedgerInv, SnapshotFill
    PROVE  BookSound' /\ RunTyped'
<1>1. /\ At("fill_nav") /\ InCycle /\ Marked(run.filled)
      /\ AppendNavSnapshot(run.filled, FillNav(run.filled))
  BY DEF SnapshotFill, At, InCycle
<1>2. BookSound'
  BY <1>1, FillNavTyped, NavBook DEF LedgerInv
<1>3. run.left \in Seq(Symbols)
  BY <1>1 DEF LedgerInv, RunTyped
<1>4. RunTyped'
  BY <1>1, <1>3, RunningTyped DEF SnapshotFill, LedgerInv
<1> QED BY <1>2, <1>4

LEMMA MarkingBook ==
    ASSUME LedgerInv, Marking
    PROVE  BookSound' /\ RunTyped'
<1>1. InCycle /\ AppendNavSnapshot(CycleNavId, CycleNav)
  BY DEF Marking, At, InCycle
<1>2. CycleNavId \in NavIds /\ CycleNav.account \in Accounts /\ CycleNav.snapshot_at \in Times
  BY <1>1, CycleInstants, CycleAssumption DEF CycleNavId, CycleNav
<1>3. /\ \A s \in DOMAIN CycleNav.marks : CycleNav.marks[s].quantity \in Nat
      /\ CycleNav.marks = [s \in Held |-> [quantity |-> Position(TheAccount, s),
                             price |-> Close(s), observed_at |-> CutOff(s)]]
  BY <1>1, SubmitInserted DEF AppendNavSnapshot, NavOutcome, CycleNav
<1>4. ASSUME NEW s \in Held
      PROVE  [quantity |-> Position(TheAccount, s), price |-> Close(s),
              observed_at |-> CutOff(s)] \in Mark
  <2>1. Position(TheAccount, s) \in Nat
    BY <1>3
  <2>2. Close(s) \in Nat /\ CutOff(s) \in Times
    BY <1>1, CycleInstants DEF Held
  <2> QED BY <2>1, <2>2 DEF Mark
<1>5. CycleNav.marks \in [DOMAIN CycleNav.marks -> Mark]
  BY <1>3, <1>4
<1>6. BookSound'
  BY <1>1, <1>2, <1>5, NavBook DEF LedgerInv
<1>7. run.left \in Seq(Symbols)
  BY <1>1 DEF LedgerInv, RunTyped
<1>8. RunTyped'
  BY <1>1, <1>7, RunningTyped DEF Marking, LedgerInv
<1> QED BY <1>6, <1>8

LEMMA DecideBook ==
    ASSUME LedgerInv, NEW answer, Decide(answer)
    PROVE  BookSound' /\ RunTyped'
<1>1. InCycle /\ run.left # << >> /\ run.left \in Seq(Symbols)
  BY DEF Decide, At, InCycle, LedgerInv, RunTyped
<1>2. PICK action \in Actions : AppendAgentDecision(Id, DecisionRow(action))
  BY DEF Decide, GateAllows, Actions
<1>3. /\ Id \in DecisionIds /\ Id \in KsfIds /\ Sym \in Symbols /\ Tail(run.left) \in Seq(Symbols)
  BY <1>1, NextSymbol, RowIds
<1>4. DecisionRow(action) \in Decision
  <2>1. CutOff(Sym) \in Times /\ Now \in Times /\ TheAccount \in Accounts
    BY <1>1, <1>3, CycleInstants, CycleAssumption
  <2> QED BY <1>3, <2>1 DEF DecisionRow, Decision
<1>5. TypeOK' /\ AuthorityChain'
  BY <1>2, <1>3, <1>4, DecisionType, DecisionChain DEF LedgerInv, BookSound
<1>6. UNCHANGED <<orders, orderEvents, fills>>
  BY <1>2 DEF AppendAgentDecision
<1>7. BookSound'
  BY <1>5, <1>6 DEF LedgerInv, BookSound, OrderLifecycle, LifeOf, OrdersOf
<1>8. RunTyped'
  <2>1. CASE GoTo(Rest)
    BY <1>1, <1>3, <2>1, RunningTyped DEF Rest, LedgerInv
  <2>2. CASE GoTo([stage |-> "propose", session |-> run.session, mode |-> run.mode,
                   closes |-> run.closes, offsets |-> run.offsets, left |-> run.left,
                   target |-> answer.target])
    BY <1>1, <2>2 DEF GoTo, LedgerInv, RunTyped, At
  <2> QED BY <2>1, <2>2 DEF Decide
<1> QED BY <1>7, <1>8

LEMMA ProposeBook ==
    ASSUME LedgerInv, Propose
    PROVE  BookSound' /\ RunTyped'
<1>1. InCycle /\ run.left # << >> /\ run.left \in Seq(Symbols)
  BY DEF Propose, At, InCycle, LedgerInv, RunTyped
<1>2. PICK side \in Sides : AppendOrderProposal(Id, Id, side, run.target, Id, Now)
  BY DEF Propose, SideOf, Sides
<1>3. Id \in ProposalIds /\ Id \in DecisionIds /\ Id \in Keys /\ Now \in Times
  BY <1>1, NextSymbol, RowIds, CycleInstants
<1>4. TypeOK' /\ AuthorityChain'
  BY <1>2, <1>3, ProposalType, ProposalChain DEF LedgerInv, BookSound
<1>5. UNCHANGED <<orders, orderEvents, fills>>
  BY <1>2 DEF AppendOrderProposal
<1>6. BookSound'
  BY <1>4, <1>5 DEF LedgerInv, BookSound, OrderLifecycle, LifeOf, OrdersOf
<1>7. RunTyped'
  BY <1>1, RunningTyped DEF Propose, LedgerInv
<1> QED BY <1>6, <1>7

LEMMA ReviewBook ==
    ASSUME LedgerInv, ReviewProposal
    PROVE  BookSound' /\ RunTyped'
<1>1. InCycle /\ run.left # << >> /\ run.left \in Seq(Symbols)
  BY DEF ReviewProposal, At, InCycle, LedgerInv, RunTyped
<1>2. Id \in ReviewIds /\ Id \in ProposalIds /\ Now \in Times /\ Sym \in Symbols
      /\ Tail(run.left) \in Seq(Symbols)
  BY <1>1, NextSymbol, RowIds, CycleInstants
<1>3. PICK request : LET result == EvaluateRisk(request) IN
        IF result.verdict = "NO_OP" THEN GoTo(Rest) /\ UNCHANGED ledger
        ELSE /\ AppendRiskReview(Id, ReviewRow(result))
             /\ IF OrdersWanted(result) THEN GoTo(Running("order", run.left)) ELSE GoTo(Rest)
  BY DEF ReviewProposal
<1>4. RunTyped'
  <2>1. GoTo(Rest) \/ GoTo(Running("order", run.left))
    BY <1>3
  <2> QED BY <1>1, <1>2, <2>1, RunningTyped DEF Rest, LedgerInv
<1>5. PICK result : result = EvaluateRisk(request)
  OBVIOUS
<1>6. CASE result.verdict = "NO_OP"
  <2>1. UNCHANGED ledger
    BY <1>3, <1>5, <1>6
  <2>2. TypeOK'
    BY <2>1 DEF LedgerInv, BookSound, TypeOK, IsTable, ledger, chain, balances
  <2> QED BY <1>4, <2>1, <2>2, SameRows DEF LedgerInv, ledger
<1>7. CASE result.verdict # "NO_OP"
  <2>1. AppendRiskReview(Id, ReviewRow(result))
    BY <1>3, <1>5, <1>7
  <2>2. result.verdict \in {"APPROVE", "RESIZE", "REJECT"}
    BY <1>5, <1>7 DEF EvaluateRisk, Reject, NoOp, Accept
  <2>3. ReviewRow(result).quantity \in Nat /\ ReviewRow(result).price \in Nat
    <3>1. ReviewArguments(ReviewRow(result))
      BY <2>1, SubmitInserted DEF AppendRiskReview, ReviewOutcome, ReviewArguments
    <3> QED BY <3>1 DEF ReviewArguments
  <2>4. ReviewRow(result) \in Review
    BY <1>2, <2>2, <2>3 DEF ReviewRow, Review
  <2>5. TypeOK' /\ AuthorityChain'
    BY <1>2, <2>1, <2>4, ReviewType, ReviewChain DEF LedgerInv, BookSound
  <2>6. UNCHANGED <<orders, orderEvents, fills>>
    BY <2>1 DEF AppendRiskReview
  <2> QED BY <1>4, <2>5, <2>6 DEF LedgerInv, BookSound, OrderLifecycle, LifeOf, OrdersOf
<1> QED BY <1>6, <1>7

LEMMA OrderBook ==
    ASSUME LedgerInv, PlaceOrder
    PROVE  BookSound' /\ RunTyped'
<1>1. InCycle /\ run.left # << >> /\ run.left \in Seq(Symbols)
  BY DEF PlaceOrder, At, InCycle, LedgerInv, RunTyped
<1>2. /\ Id \in OrderIds /\ Id \in ReviewIds /\ Id \in Keys /\ Now \in Times
      /\ Tail(run.left) \in Seq(Symbols) /\ Id \in Sessions \X Symbols
  BY <1>1, NextSymbol, RowIds, CycleInstants
<1>3. AppendOrder(Id, Id, Id, Now)
  BY DEF PlaceOrder
<1>4. TypeOK' /\ AuthorityChain' /\ OrderLifecycle'
  BY <1>2, <1>3, OrderType, OrderChain, OrderAcceptedLifecycle DEF LedgerInv, BookSound
<1>5. DOMAIN orders' = DOMAIN orders \cup {Id}
  BY <1>3 DEF AppendOrder, Put
<1>6. RunTyped'
  BY <1>1, <1>2, RunningTyped DEF PlaceOrder, Rest, LedgerInv
<1> QED BY <1>2, <1>4, <1>5, <1>6 DEF LedgerInv, BookSound, OrdersOf

LEMMA QuietBook ==
    ASSUME LedgerInv, UNCHANGED ledger
    PROVE  BookSound'
<1>1. TypeOK'
  BY DEF LedgerInv, BookSound, TypeOK, IsTable, ledger, chain, balances
<1> QED BY <1>1, SameRows DEF LedgerInv, ledger

LEMMA OperatorBook ==
    ASSUME LedgerInv, Operator
    PROVE  BookSound'
<1>1. PICK id \in EventIds, at \in EventTimes,
          type \in {"ENGAGED", "RELEASED", "ENABLED", "DISABLED"} :
        \/ AppendKillSwitchEvent(id, TheAccount, type, at)
        \/ AppendAccountEvent(id, TheAccount, type, at)
  BY DEF Operator
<1>2. at \in Times /\ TheAccount \in Accounts
  BY CycleAssumption
<1>3. TypeOK'
  BY <1>1, <1>2, EventTypes DEF LedgerInv, BookSound
<1>4. UNCHANGED <<chain, orderEvents, fills>>
  BY <1>1 DEF AppendKillSwitchEvent, AppendAccountEvent
<1> QED BY <1>3, <1>4, SameRows DEF LedgerInv

LEMMA GoesOnBook ==
    ASSUME LedgerInv, GoesOn
    PROVE  BookSound' /\ RunTyped'
  BY SettleBook, SnapshotFillBook, MarkingBook, DecideBook, ProposeBook, ReviewBook, OrderBook
     DEF GoesOn, Settle

LEMMA LedgerStep ==
    ASSUME LedgerInv, [CycleNext]_vars
    PROVE  LedgerInv'
<1>1. DigestInv'
  BY DigestStep DEF LedgerInv
<1>2. ASSUME NEW s \in Sessions, NEW mode \in Modes, NEW closes \in [Symbols -> Closes],
             NEW offsets \in Offsets, Begin(s, mode, closes, offsets)
      PROVE  LedgerInv'
  <2>1. saved' = Tables /\ UNCHANGED ledger
    BY <1>2 DEF Begin
  <2>2. BookSound' /\ PastSound'
    BY <2>1, BeginRemembers, QuietBook DEF LedgerInv
  <2>3. /\ run'.stage = "settle" /\ run'.closes = closes /\ run'.offsets = offsets
        /\ run'.left = SymbolOrder
    BY <1>2 DEF Begin, GoTo
  <2>4. RunTyped'
    BY <2>3, CycleAssumption DEF RunTyped, At
  <2> QED BY <1>1, <2>2, <2>4 DEF LedgerInv
<1>3. ASSUME GoesOn PROVE LedgerInv'
  <2>1. InCycle /\ UNCHANGED <<accounts, accountEvents, killEvents, saved>>
    BY <1>3, GoesOnInside DEF Inside
  <2>2. BookSound' /\ RunTyped' /\ PastSound'
    BY <1>3, <2>1, GoesOnBook, PastKept DEF LedgerInv
  <2> QED BY <1>1, <2>2 DEF LedgerInv
<1>4. ASSUME RollsBack PROVE LedgerInv'
  <2>1. InCycle /\ Rollback /\ run' = Idle
    BY <1>4, RollsBackRestores
  <2>2. BookSound'
    BY <2>1, ReturnToPast DEF LedgerInv
  <2>3. ~InCycle'
    BY <2>1 DEF InCycle, Idle
  <2> QED BY <1>1, <2>2, <2>3 DEF LedgerInv, RunTyped
<1>5. ASSUME UNCHANGED ledger, ~InCycle' PROVE LedgerInv'
  BY <1>1, <1>5, QuietBook DEF LedgerInv, RunTyped
<1>6. ASSUME Operator PROVE LedgerInv'
  <2>1. BookSound' /\ ~InCycle'
    BY <1>6, OperatorBook DEF Operator, cycle, InCycle
  <2> QED BY <1>1, <2>1 DEF LedgerInv, RunTyped
<1>7. ASSUME UNCHANGED <<ledger, run, saved, commits, alerts>> PROVE LedgerInv'
  <2>1. BookSound'
    BY <1>7, QuietBook
  <2>2. RunTyped'
    BY <1>7 DEF LedgerInv, RunTyped, InCycle, At, ledger, chain
  <2>3. InCycle' => PastSound'
    BY <1>7, PastKept DEF LedgerInv, InCycle, ledger
  <2> QED BY <1>1, <2>1, <2>2, <2>3 DEF LedgerInv
<1>8. Commit \/ Alert => UNCHANGED ledger /\ ~InCycle'
  BY DEF Commit, Alert, GoTo, InCycle, Idle
<1>9. run' = Idle => ~InCycle'
  BY DEF InCycle, Idle
<1> QED BY CycleSteps, <1>2, <1>3, <1>4, <1>5, <1>6, <1>7, <1>8, <1>9

LEMMA LedgerStarts == CycleInit => LedgerInv
<1> SUFFICES ASSUME CycleInit PROVE LedgerInv
  OBVIOUS
<1>1. 0 \in Times /\ TheAccount \in Accounts
  BY TimeAssumption, CycleAssumption DEF Times
<1>2. /\ Entry("emitted", "CREATED", 0) \in Event /\ Entry("emitted", "ENABLED", 0) \in Event
      /\ Entry("emitted", "RELEASED", 0) \in Event
  BY <1>1, EntryType
<1>3. PICK cash \in Deposits :
        /\ accounts = [a \in Accounts |-> [initial_cash |-> cash, created_at |-> 0]]
        /\ cashAsOf = [a \in Accounts |-> [t \in Times |-> cash]]
  BY DEF CycleInit
<1>4. cash \in Nat
  BY SMTT(40), ValueAssumption
<1>5. IsTable(accounts, Accounts, Account)
  BY <1>1, <1>3, <1>4 DEF IsTable, Account
<1>6. /\ accountEvents \in [Accounts -> Seq(Event)] /\ killEvents \in [Accounts -> Seq(Event)]
      /\ orderEvents \in [OrderIds -> Seq(Event)]
  BY <1>2 DEF CycleInit
<1>7. TypeOK
  BY <1>3, <1>4, <1>5, <1>6 DEF CycleInit, TypeOK, IsTable
<1>8. BookSound
  BY <1>7 DEF CycleInit, BookSound, AuthorityChain, DecisionsSound, ProposalsSound, ReviewsSound,
     OrdersSound, FillsSound, OrderLifecycle, LifeOf, OrdersOf
<1>9. DigestInv /\ ~InCycle
  BY DEF CycleInit, DigestInv, DigestOnce, RunOf, Idle, InCycle
<1> QED BY <1>8, <1>9 DEF LedgerInv, RunTyped

LEMMA CycleLedgerInvariance == CycleSpec => []LedgerInv
BY LedgerStarts, LedgerStep, PTL DEF CycleSpec

(* Every state of every cycle, the ones between two calls of the ledger     *)
(* and the ones after a failure or a crash included, has a sound ledger.   *)
THEOREM CycleKeepsTheLedger == CycleSpec => [](TypeOK /\ AuthorityChain /\ OrderLifecycle)
BY CycleLedgerInvariance, PTL DEF LedgerInv, BookSound

(* So every fill of every cycle is authorised, is the only one of its KSF  *)
(* decision, and uses no price that the decision could have seen.          *)
THEOREM CycleFillsSound == CycleSpec => [](FillsAuthorised /\ OneFillPerSignal /\ NoLookAhead)
BY ChainAuthorises, ChainOnce, ChainDated, CycleLedgerInvariance, PTL DEF LedgerInv, BookSound

-----------------------------------------------------------------------------
(***************************************************************************)
(* All or nothing.  What a finished session has left behind is said of a   *)
(* set of tables, because it must hold of the current ones between cycles, *)
(* and during a cycle of the ones that a rollback restores, while the      *)
(* current ones hold it of every other session.                            *)
(***************************************************************************)
Absent(t, s) ==
    /\ \A ids \in {DOMAIN t.decisions, DOMAIN t.proposals, DOMAIN t.reviews, DOMAIN t.orders} :
         OfSession(ids, s) = {}
    /\ \A n \in DOMAIN t.navs : SessionOf(t.navs[n].snapshot_at) # s
    /\ \A f \in DOMAIN t.fills : SessionOf(t.fills[f].filled_at) # s

Present(t, s, mode) ==
    /\ <<s, "cycle">> \in DOMAIN t.navs
    /\ \A x \in Symbols : <<s, x>> \in DOMAIN t.decisions
    /\ \A r \in OfSession(DOMAIN t.reviews, s) :
         (r \in DOMAIN t.orders) <=> (mode = "fills" /\ t.reviews[r].verdict # "REJECT")

Recorded(t, s) == IF commits[s] = "none" THEN Absent(t, s) ELSE Present(t, s, commits[s])

IdsSound(t) ==
    DOMAIN t.decisions \subseteq Sessions \X Symbols /\ DOMAIN t.orders \subseteq DOMAIN t.reviews

Whole(t) ==
    IdsSound(t) /\ (\A s \in Sessions : Recorded(t, s)) /\ DOMAIN t.fills \subseteq DOMAIN t.navs

Apart == IdsSound(Tables) /\ \A s \in Sessions \ {run.session} : Recorded(Tables, s)

(* How far the running session has come: before its own snapshot nothing   *)
(* is decided or reviewed; after it every symbol is decided or still to    *)
(* come, and an accepted review in fills mode has its order, or gets it    *)
(* next.                                                                   *)
Settling ==
    /\ run.left = SymbolOrder /\ OfSession(DOMAIN reviews, run.session) = {}
    /\ DOMAIN fills \subseteq DOMAIN navs \cup (IF At("fill_nav") THEN {run.filled} ELSE {})

ReviewedSo(r) == (r \in DOMAIN orders) <=> (run.mode = "fills" /\ reviews[r].verdict # "REJECT")

Deciding ==
    /\ <<run.session, "cycle">> \in DOMAIN navs /\ DOMAIN fills \subseteq DOMAIN navs
    /\ \A x \in Symbols : \/ <<run.session, x>> \in DOMAIN decisions
                          \/ \E i \in 1 .. Len(run.left) : run.left[i] = x
    /\ run.stage # "decide" => Id \in DOMAIN decisions
    /\ At("order") => run.mode = "fills" /\ reviews[Id].verdict # "REJECT"
    /\ \A r \in OfSession(DOMAIN reviews, run.session) :
         (At("order") /\ r = Id) \/ ReviewedSo(r)

Progress == IF run.stage \in {"settle", "fill_nav"} THEN Settling ELSE Deciding

AtomicInv ==
    /\ LedgerInv
    /\ IF InCycle THEN Whole(saved) /\ Apart /\ Progress ELSE Whole(Tables)

LEMMA RestIsAllOrNothing ==
    ASSUME AtomicInv
    PROVE  AllOrNothing
<1> SUFFICES ASSUME ~InCycle, NEW s \in Sessions
             PROVE  /\ IF commits[s] = "none" THEN LeftNothing(s) ELSE LeftAll(s)
                    /\ DOMAIN fills \subseteq DOMAIN navs
  BY DEF AllOrNothing, AtomicInv, Whole, Tables
<1>1. Recorded(Tables, s) /\ DOMAIN decisions \subseteq Sessions \X Symbols
      /\ DOMAIN fills \subseteq DOMAIN navs
  BY DEF AtomicInv, Whole, IdsSound, Tables
<1>2. Absent(Tables, s) => LeftNothing(s)
  BY DEF Absent, LeftNothing, Tables
<1>3. Present(Tables, s, commits[s]) => LeftAll(s)
  <2> SUFFICES ASSUME Present(Tables, s, commits[s]) PROVE LeftAll(s)
    OBVIOUS
  <2>1. OfSession(DOMAIN decisions, s) = {s} \X Symbols
    <3>1. \A x \in Symbols : <<s, x>> \in OfSession(DOMAIN decisions, s)
      BY DEF Present, Tables, OfSession
    <3>2. OfSession(DOMAIN decisions, s) \subseteq {s} \X Symbols
      BY <1>1 DEF OfSession
    <3> QED BY <3>1, <3>2
  <2> QED BY <2>1 DEF Present, LeftAll, Tables
<1> QED BY <1>1, <1>2, <1>3 DEF Recorded

(* Tables that only gain rows of the running session keep the others.      *)
Gains(new, old) == new = old \/ \E row : new = Put(old, Id, row)

LEMMA OthersKept ==
    ASSUME Apart, commits' = commits, run'.session = run.session,
           Gains(decisions', decisions), Gains(proposals', proposals),
           Gains(reviews', reviews), Gains(orders', orders),
           \/ navs' = navs
           \/ \E n, row : /\ navs' = Put(navs, n, row)
                          /\ SessionOf(row.snapshot_at) = run.session,
           \/ fills' = fills
           \/ \E f, row : /\ fills' = Put(fills, f, row)
                          /\ SessionOf(row.filled_at) = run.session
    PROVE  \A s \in Sessions \ {run'.session} : Recorded(Tables, s)'
<1> SUFFICES ASSUME NEW s \in Sessions \ {run.session} PROVE Recorded(Tables, s)'
  OBVIOUS
<1>1. Recorded(Tables, s)
  BY DEF Apart
<1>2. /\ OfSession(DOMAIN decisions', s) = OfSession(DOMAIN decisions, s)
      /\ OfSession(DOMAIN proposals', s) = OfSession(DOMAIN proposals, s)
      /\ OfSession(DOMAIN reviews', s) = OfSession(DOMAIN reviews, s)
      /\ OfSession(DOMAIN orders', s) = OfSession(DOMAIN orders, s)
  <2>1. Id[1] # s
    BY DEF Id
  <2> QED BY <2>1 DEF Gains, Put, OfSession
<1>3. ASSUME Absent(Tables, s) PROVE Absent(Tables, s)'
  <2>1. \A ids \in {DOMAIN decisions', DOMAIN proposals', DOMAIN reviews', DOMAIN orders'} :
          OfSession(ids, s) = {}
    BY <1>2, <1>3 DEF Absent, Tables
  <2>2. ASSUME NEW n \in DOMAIN navs' PROVE SessionOf(navs'[n].snapshot_at) # s
    <3>1. \A m \in DOMAIN navs : SessionOf(navs[m].snapshot_at) # s
      BY <1>3 DEF Absent, Tables
    <3>2. CASE navs' = navs
      BY <2>2, <3>1, <3>2
    <3>3. CASE \E m, row : navs' = Put(navs, m, row) /\ SessionOf(row.snapshot_at) = run.session
      <4>1. PICK m, row : navs' = Put(navs, m, row) /\ SessionOf(row.snapshot_at) = run.session
        BY <3>3
      <4>2. navs'[n] = row \/ (n \in DOMAIN navs /\ navs'[n] = navs[n])
        BY <2>2, <4>1 DEF Put
      <4> QED BY <3>1, <4>1, <4>2
    <3> QED BY <3>2, <3>3
  <2>3. ASSUME NEW f \in DOMAIN fills' PROVE SessionOf(fills'[f].filled_at) # s
    <3>1. \A m \in DOMAIN fills : SessionOf(fills[m].filled_at) # s
      BY <1>3 DEF Absent, Tables
    <3>2. CASE fills' = fills
      BY <2>3, <3>1, <3>2
    <3>3. CASE \E m, row : fills' = Put(fills, m, row) /\ SessionOf(row.filled_at) = run.session
      <4>1. PICK m, row : fills' = Put(fills, m, row) /\ SessionOf(row.filled_at) = run.session
        BY <3>3
      <4>2. fills'[f] = row \/ (f \in DOMAIN fills /\ fills'[f] = fills[f])
        BY <2>3, <4>1 DEF Put
      <4> QED BY <3>1, <4>1, <4>2
    <3> QED BY <3>2, <3>3
  <2> QED BY <2>1, <2>2, <2>3 DEF Absent, Tables
<1>4. ASSUME Present(Tables, s, commits[s]) PROVE Present(Tables, s, commits[s])'
  <2>1. <<s, "cycle">> \in DOMAIN navs' /\ \A x \in Symbols : <<s, x>> \in DOMAIN decisions'
    BY <1>4 DEF Present, Tables, Put, Gains
  <2>2. ASSUME NEW r \in OfSession(DOMAIN reviews', s)
        PROVE  (r \in DOMAIN orders') <=> (commits[s] = "fills" /\ reviews'[r].verdict # "REJECT")
    <3>1. /\ r \in OfSession(DOMAIN reviews, s) /\ r # Id
          /\ r \in DOMAIN orders' <=> r \in DOMAIN orders
      BY <1>2, <2>2 DEF OfSession, Id
    <3>2. reviews'[r] = reviews[r]
      BY <3>1 DEF Gains, Put, OfSession
    <3> QED BY <1>4, <3>1, <3>2 DEF Present, Tables
  <2> QED BY <2>1, <2>2 DEF Present, Tables
<1> QED BY <1>1, <1>3, <1>4 DEF Recorded

LEMMA SettleAtomic ==
    ASSUME AtomicInv, At("settle"), NEW o \in Pending, SettleOrder(o)
    PROVE  Apart' /\ Progress'
<1>1. InCycle /\ Apart /\ Settling /\ DOMAIN fills \subseteq DOMAIN navs
  BY DEF AtomicInv, Progress, Settling, At, InCycle
<1>2. PICK row : row = FillRow(o, PriceOf(o), FeeOf(o), TaxOf(o), SeenAt(o), SeenAt(o))
  OBVIOUS
<1>3. /\ fills' = Put(fills, o, row)
      /\ UNCHANGED <<decisions, proposals, reviews, orders, navs, commits>>
  BY <1>2 DEF SettleOrder, AppendFill, chain
<1>4. SessionOf(row.filled_at) = run.session
  <2>1. orders[o] \in Order
    BY DEF AtomicInv, LedgerInv, BookSound, TypeOK, IsTable, Pending
  <2>2. orders[o].symbol \in Symbols
    BY <2>1 DEF Order
  <2>3. row.filled_at = SeenAt(o)
    BY <1>2 DEF FillRow
  <2> QED BY <1>1, <2>2, <2>3, CycleInstants DEF AtomicInv, SeenAt
<1>5. /\ run'.stage = "fill_nav" /\ run'.session = run.session /\ run'.left = run.left
      /\ run'.filled = o
  BY DEF SettleOrder, GoTo
<1>6. Apart'
  <2>1. \A s \in Sessions \ {run'.session} : Recorded(Tables, s)'
    BY <1>1, <1>3, <1>4, <1>5, OthersKept DEF Gains
  <2> QED BY <1>1, <1>3, <2>1 DEF Apart, IdsSound, Tables
<1>7. Progress'
  BY <1>1, <1>3, <1>5 DEF Progress, Settling, At, Put
<1> QED BY <1>6, <1>7

LEMMA SnapshotFillAtomic ==
    ASSUME AtomicInv, SnapshotFill
    PROVE  Apart' /\ Progress'
<1>1. InCycle /\ Apart /\ Settling /\ DOMAIN fills \subseteq DOMAIN navs \cup {run.filled}
  BY DEF SnapshotFill, AtomicInv, Progress, Settling, At, InCycle
<1>2. PICK nav : nav = FillNav(run.filled)
  OBVIOUS
<1>3. /\ navs' = Put(navs, run.filled, nav)
      /\ UNCHANGED <<decisions, proposals, reviews, orders, fills, commits>>
  BY <1>2 DEF SnapshotFill, AppendNavSnapshot, chain
<1>4. SessionOf(nav.snapshot_at) = run.session
  <2>1. run.filled \in DOMAIN orders
    BY <1>1 DEF AtomicInv, LedgerInv, RunTyped, SnapshotFill
  <2>2. orders[run.filled] \in Order
    BY <2>1 DEF AtomicInv, LedgerInv, BookSound, TypeOK, IsTable
  <2>3. orders[run.filled].symbol \in Symbols
    BY <2>2 DEF Order
  <2>4. nav.snapshot_at = SeenAt(run.filled)
    BY <1>2 DEF FillNav
  <2> QED BY <1>1, <2>3, <2>4, CycleInstants DEF AtomicInv, SeenAt
<1>5. /\ run'.stage = "settle" /\ run'.session = run.session /\ run'.left = run.left
  BY DEF SnapshotFill, GoTo, Running
<1>6. Apart'
  <2>1. \A s \in Sessions \ {run'.session} : Recorded(Tables, s)'
    BY <1>1, <1>3, <1>4, <1>5, OthersKept DEF Gains
  <2> QED BY <1>1, <1>3, <2>1 DEF Apart, IdsSound, Tables
<1>7. Progress'
  BY <1>1, <1>3, <1>5 DEF Progress, Settling, At, Put
<1> QED BY <1>6, <1>7

LEMMA MarkingAtomic ==
    ASSUME AtomicInv, Marking
    PROVE  Apart' /\ Progress'
<1>1. InCycle /\ Apart /\ Settling /\ DOMAIN fills \subseteq DOMAIN navs
  BY DEF Marking, AtomicInv, Progress, Settling, At, InCycle
<1>2. PICK nav : nav = CycleNav
  OBVIOUS
<1>3. /\ navs' = Put(navs, CycleNavId, nav)
      /\ UNCHANGED <<decisions, proposals, reviews, orders, fills, commits>>
  BY <1>2 DEF Marking, AppendNavSnapshot, chain
<1>4. SessionOf(nav.snapshot_at) = run.session
  BY <1>1, <1>2, CycleInstants DEF AtomicInv, CycleNav
<1>5. /\ run'.stage = "decide" /\ run'.session = run.session /\ run'.left = run.left
  BY DEF Marking, GoTo, Running
<1>6. Apart'
  <2>1. \A s \in Sessions \ {run'.session} : Recorded(Tables, s)'
    BY <1>1, <1>3, <1>4, <1>5, OthersKept DEF Gains
  <2> QED BY <1>1, <1>3, <2>1 DEF Apart, IdsSound, Tables
<1>7. Progress'
  <2>1. <<run.session, "cycle">> \in DOMAIN navs' /\ DOMAIN fills \subseteq DOMAIN navs'
    BY <1>1, <1>3 DEF Put, CycleNavId
  <2>2. \A x \in Symbols : \E i \in 1 .. Len(run'.left) : run'.left[i] = x
    BY <1>1, <1>5, CycleAssumption DEF Settling
  <2> QED BY <1>1, <1>3, <1>5, <2>1, <2>2 DEF Progress, Settling, Deciding, At, OfSession
<1> QED BY <1>6, <1>7

(* The symbols of a tail, and the head, are the symbols of the sequence.   *)
LEMMA HeadOrTail ==
    ASSUME NEW left \in Seq(Symbols), left # << >>, NEW i \in 1 .. Len(left)
    PROVE  \/ left[i] = Head(left)
           \/ \E j \in 1 .. Len(Tail(left)) : Tail(left)[j] = left[i]
<1>1. CASE i = 1
  BY <1>1
<1>2. CASE i # 1
  <2>1. i - 1 \in 1 .. Len(Tail(left)) /\ Tail(left)[i - 1] = left[i]
    BY <1>2
  <2> QED BY <2>1
<1> QED BY <1>1, <1>2

(* Once the head is decided, what is decided or to come stays all symbols. *)
LEMMA StillAll ==
    ASSUME LedgerInv, InCycle, Deciding, run.left # << >>, Id \in DOMAIN decisions',
           DOMAIN decisions \subseteq DOMAIN decisions', run'.session = run.session,
           run'.left = run.left \/ run'.left = Tail(run.left)
    PROVE  \A x \in Symbols : \/ <<run'.session, x>> \in DOMAIN decisions'
                              \/ \E i \in 1 .. Len(run'.left) : run'.left[i] = x
<1> SUFFICES ASSUME NEW x \in Symbols, <<run.session, x>> \notin DOMAIN decisions'
             PROVE  \E i \in 1 .. Len(run'.left) : run'.left[i] = x
  OBVIOUS
<1>1. PICK i \in 1 .. Len(run.left) : run.left[i] = x
  BY DEF Deciding
<1>2. CASE run'.left = run.left
  BY <1>1, <1>2
<1>3. CASE run'.left = Tail(run.left)
  <2>1. run.left \in Seq(Symbols) /\ x # Head(run.left)
    BY DEF LedgerInv, RunTyped, Id, Sym
  <2> QED BY <1>1, <1>3, <2>1, HeadOrTail
<1> QED BY <1>2, <1>3

LEMMA DecideAtomic ==
    ASSUME AtomicInv, NEW answer, Decide(answer)
    PROVE  Apart' /\ Progress'
<1>1. InCycle /\ LedgerInv /\ Apart /\ Deciding /\ run.left # << >> /\ At("decide")
  BY DEF Decide, AtomicInv, Progress, At, InCycle
<1>2. PICK row : /\ decisions' = Put(decisions, Id, row)
                 /\ UNCHANGED <<proposals, reviews, orders, navs, fills, commits>>
  BY DEF Decide, AppendAgentDecision
<1>3. Id \in Sessions \X Symbols
  BY <1>1, NextSymbol
<1>4. /\ run'.session = run.session /\ run'.mode = run.mode
      /\ \/ run'.stage = "decide" /\ run'.left = Tail(run.left)
         \/ run'.stage = "propose" /\ run'.left = run.left
  <2>1. CASE GoTo(Rest)
    BY <2>1 DEF GoTo, Rest, Running
  <2>2. CASE GoTo([stage |-> "propose", session |-> run.session, mode |-> run.mode,
                   closes |-> run.closes, offsets |-> run.offsets, left |-> run.left,
                   target |-> answer.target])
    BY <2>2 DEF GoTo
  <2> QED BY <2>1, <2>2 DEF Decide
<1>5. DOMAIN decisions' = DOMAIN decisions \cup {Id}
  BY <1>2 DEF Put
<1>6. Apart'
  <2>1. Gains(decisions', decisions)
    BY <1>2 DEF Gains
  <2>2. \A s \in Sessions \ {run'.session} : Recorded(Tables, s)'
    BY <1>1, <1>2, <1>4, <2>1, OthersKept DEF Gains
  <2> QED BY <1>1, <1>2, <1>3, <1>5, <2>2 DEF Apart, IdsSound, Tables
<1>7. Progress'
  <2>1. \A x \in Symbols : \/ <<run'.session, x>> \in DOMAIN decisions'
                           \/ \E i \in 1 .. Len(run'.left) : run'.left[i] = x
    BY <1>1, <1>4, <1>5, StillAll
  <2>2. run'.stage # "decide" => Id' \in DOMAIN decisions'
    BY <1>4, <1>5 DEF Id, Sym
  <2>3. \A r \in OfSession(DOMAIN reviews', run'.session) : ReviewedSo(r)'
    BY <1>1, <1>2, <1>4 DEF Deciding, ReviewedSo, At
  <2>4. ~At("order")' /\ run'.stage \notin {"settle", "fill_nav"}
    BY <1>4 DEF At
  <2> QED BY <1>1, <1>2, <1>4, <2>1, <2>2, <2>3, <2>4 DEF Progress, Deciding
<1> QED BY <1>6, <1>7

LEMMA ProposeAtomic ==
    ASSUME AtomicInv, Propose
    PROVE  Apart' /\ Progress'
<1>1. InCycle /\ LedgerInv /\ Apart /\ Deciding /\ At("propose")
  BY DEF Propose, AtomicInv, Progress, At, InCycle
<1>2. PICK row : /\ proposals' = Put(proposals, Id, row)
                 /\ UNCHANGED <<decisions, reviews, orders, navs, fills, commits>>
  BY DEF Propose, AppendOrderProposal
<1>3. /\ run'.stage = "review" /\ run'.session = run.session /\ run'.mode = run.mode
      /\ run'.left = run.left
  BY DEF Propose, GoTo, Running
<1>4. Apart'
  <2>1. \A s \in Sessions \ {run'.session} : Recorded(Tables, s)'
    BY <1>1, <1>2, <1>3, OthersKept DEF Gains
  <2> QED BY <1>1, <1>2, <2>1 DEF Apart, IdsSound, Tables
<1>5. Progress'
  <2>1. Id' = Id /\ Id \in DOMAIN decisions
    BY <1>1, <1>3 DEF Id, Sym, Deciding, At
  <2>2. \A r \in OfSession(DOMAIN reviews', run'.session) : ReviewedSo(r)'
    BY <1>1, <1>2, <1>3 DEF Deciding, ReviewedSo, At
  <2> QED BY <1>1, <1>2, <1>3, <2>1, <2>2 DEF Progress, Deciding, At
<1> QED BY <1>4, <1>5

LEMMA ReviewAtomic ==
    ASSUME AtomicInv, ReviewProposal
    PROVE  Apart' /\ Progress'
<1>1. InCycle /\ LedgerInv /\ Apart /\ Deciding /\ At("review") /\ run.left # << >>
      /\ Id \in DOMAIN decisions
  BY DEF ReviewProposal, AtomicInv, LedgerInv, RunTyped, Progress, Deciding, At, InCycle
<1>2. PICK request, result :
        /\ result = EvaluateRisk(request)
        /\ IF result.verdict = "NO_OP" THEN GoTo(Rest) /\ UNCHANGED ledger
           ELSE /\ AppendRiskReview(Id, ReviewRow(result))
                /\ IF OrdersWanted(result) THEN GoTo(Running("order", run.left)) ELSE GoTo(Rest)
  BY DEF ReviewProposal
<1>3. result = EvaluateRisk(request)
  BY <1>2
<1>4. PICK id : id = Id
  OBVIOUS
<1>5. commits' = commits
  BY DEF ReviewProposal
<1>6. /\ run'.session = run.session /\ run'.mode = run.mode
      /\ \/ /\ result.verdict = "NO_OP" /\ UNCHANGED ledger
            /\ run'.stage = "decide" /\ run'.left = Tail(run.left)
         \/ /\ result.verdict # "NO_OP" /\ AppendRiskReview(Id, ReviewRow(result))
            /\ IF OrdersWanted(result) THEN run'.stage = "order" /\ run'.left = run.left
                                       ELSE run'.stage = "decide" /\ run'.left = Tail(run.left)
  <2>1. GoTo(Rest) =>
          /\ run'.session = run.session /\ run'.mode = run.mode
          /\ run'.stage = "decide" /\ run'.left = Tail(run.left)
    BY DEF GoTo, Rest, Running
  <2>2. GoTo(Running("order", run.left)) =>
          /\ run'.session = run.session /\ run'.mode = run.mode
          /\ run'.stage = "order" /\ run'.left = run.left
    BY DEF GoTo, Running
  <2> QED BY <1>2, <2>1, <2>2
<1>7. /\ UNCHANGED <<decisions, proposals, orders, navs, fills>>
      /\ reviews' = reviews \/ reviews' = Put(reviews, Id, ReviewRow(result))
  BY <1>6 DEF AppendRiskReview, ledger, chain
<1>8. Apart'
  <2>1. \A s \in Sessions \ {run'.session} : Recorded(Tables, s)'
    BY <1>1, <1>5, <1>6, <1>7, OthersKept DEF Gains
  <2> QED BY <1>1, <1>7, <2>1 DEF Apart, IdsSound, Tables, Put
<1>9. \A x \in Symbols : \/ <<run'.session, x>> \in DOMAIN decisions'
                         \/ \E i \in 1 .. Len(run'.left) : run'.left[i] = x
  BY <1>1, <1>6, <1>7, StillAll
<1>10. ASSUME NEW r \in OfSession(DOMAIN reviews, run.session), r # id \/ reviews' = reviews
       PROVE  ReviewedSo(r)'
  <2>1. reviews'[r] = reviews[r]
    BY <1>4, <1>7, <1>10 DEF Put, OfSession
  <2> QED BY <1>1, <1>6, <1>7, <1>10, <2>1 DEF Deciding, ReviewedSo, At
<1>11. CASE result.verdict = "NO_OP"
  <2>1. reviews' = reviews /\ run'.stage = "decide"
    BY <1>6, <1>11 DEF ledger, chain
  <2>2. \A r \in OfSession(DOMAIN reviews', run'.session) : ReviewedSo(r)'
    BY <1>6, <1>10, <2>1
  <2> QED BY <1>1, <1>6, <1>7, <1>8, <1>9, <2>1, <2>2 DEF Progress, Deciding, At
<1>12. CASE result.verdict # "NO_OP"
  <2>1. AppendRiskReview(Id, ReviewRow(result)) /\ reviews' = Put(reviews, Id, ReviewRow(result))
    BY <1>6, <1>12 DEF AppendRiskReview
  <2>2. result.verdict \in {"APPROVE", "RESIZE", "REJECT"}
    BY <1>3, <1>12 DEF EvaluateRisk, Reject, NoOp, Accept
  <2>3. reviews'[id].verdict = result.verdict
    BY <1>4, <2>1 DEF Put, ReviewRow
  <2>4. id \notin DOMAIN orders
    <3>1. Id \notin DOMAIN reviews
      BY <2>1, SubmitInserted DEF AppendRiskReview, ReviewOutcome
    <3> QED BY <1>1, <1>4, <3>1 DEF Apart, IdsSound, Tables
  <2>5. \A r \in OfSession(DOMAIN reviews', run.session) :
          r = id \/ (r # id /\ r \in OfSession(DOMAIN reviews, run.session))
    BY <1>4, <2>1 DEF OfSession, Put
  <2>6. CASE OrdersWanted(result)
    <3>1. /\ run'.stage = "order" /\ Id' = id /\ run'.mode = "fills"
          /\ reviews'[id].verdict # "REJECT"
      BY <1>4, <1>6, <1>12, <2>3, <2>6 DEF OrdersWanted, Accepted, Id, Sym
    <3>2. \A r \in OfSession(DOMAIN reviews', run'.session) : r = id \/ ReviewedSo(r)'
      BY <1>6, <1>10, <2>5
    <3> QED BY <1>1, <1>4, <1>6, <1>7, <1>8, <1>9, <3>1, <3>2 DEF Progress, Deciding, At
  <2>7. CASE ~OrdersWanted(result)
    <3>1. run'.stage = "decide" /\ ~(run.mode = "fills" /\ reviews'[id].verdict # "REJECT")
      BY <1>6, <1>12, <2>2, <2>3, <2>7 DEF OrdersWanted, Accepted
    <3>2. ReviewedSo(id)'
      BY <1>6, <1>7, <2>4, <3>1 DEF ReviewedSo
    <3>3. \A r \in OfSession(DOMAIN reviews', run'.session) : ReviewedSo(r)'
      BY <1>6, <1>10, <2>5, <3>2
    <3> QED BY <1>1, <1>6, <1>7, <1>8, <1>9, <3>1, <3>3 DEF Progress, Deciding, At
  <2> QED BY <2>6, <2>7
<1> QED BY <1>11, <1>12

LEMMA OrderAtomic ==
    ASSUME AtomicInv, PlaceOrder
    PROVE  Apart' /\ Progress'
<1>1. InCycle /\ LedgerInv /\ Apart /\ Deciding /\ At("order") /\ run.left # << >>
      /\ Id \in DOMAIN decisions
  BY DEF PlaceOrder, AtomicInv, LedgerInv, RunTyped, Progress, Deciding, At, InCycle
<1>2. PICK row : /\ orders' = Put(orders, Id, row)
                 /\ UNCHANGED <<decisions, proposals, reviews, navs, fills, commits>>
  BY DEF PlaceOrder, AppendOrder
<1>3. Id \in DOMAIN reviews
  BY SubmitInserted DEF PlaceOrder, AppendOrder, OrderOutcome
<1>4. /\ run'.stage = "decide" /\ run'.session = run.session /\ run'.mode = run.mode
      /\ run'.left = Tail(run.left)
  BY DEF PlaceOrder, GoTo, Rest, Running
<1>5. DOMAIN orders' = DOMAIN orders \cup {Id}
  BY <1>2 DEF Put
<1>6. Apart'
  <2>1. \A s \in Sessions \ {run'.session} : Recorded(Tables, s)'
    BY <1>1, <1>2, <1>4, OthersKept DEF Gains
  <2> QED BY <1>1, <1>2, <1>3, <1>5, <2>1 DEF Apart, IdsSound, Tables
<1>7. Progress'
  <2>1. \A x \in Symbols : \/ <<run'.session, x>> \in DOMAIN decisions'
                           \/ \E i \in 1 .. Len(run'.left) : run'.left[i] = x
    BY <1>1, <1>2, <1>4, StillAll
  <2>2. \A r \in OfSession(DOMAIN reviews', run'.session) : ReviewedSo(r)'
    BY <1>1, <1>2, <1>4, <1>5 DEF Deciding, ReviewedSo, At
  <2> QED BY <1>1, <1>2, <1>4, <2>1, <2>2 DEF Progress, Deciding, At
<1> QED BY <1>6, <1>7

LEMMA GoesOnAtomic ==
    ASSUME AtomicInv, GoesOn
    PROVE  Apart' /\ Progress'
  BY SettleAtomic, SnapshotFillAtomic, MarkingAtomic, DecideAtomic, ProposeAtomic, ReviewAtomic,
     OrderAtomic DEF GoesOn, Settle

(* With no symbol left, the running session's record is complete.          *)
LEMMA CommitAtomic ==
    ASSUME AtomicInv, Commit
    PROVE  Whole(Tables)'
<1>1. InCycle /\ Apart /\ Deciding /\ At("decide") /\ run.left = << >>
  BY DEF Commit, AtomicInv, Progress, At, InCycle
<1>2. /\ run.session \in Sessions /\ run.mode \in Modes /\ run.mode # "none"
      /\ commits \in [Sessions -> {"none"} \cup Modes]
  BY <1>1, InCycleMeans, CycleAssumption DEF AtomicInv, LedgerInv, DigestInv
<1>3. UNCHANGED ledger /\ commits' = [commits EXCEPT ![run.session] = run.mode]
  BY DEF Commit
<1>0. PICK mode : mode = run.mode
  OBVIOUS
<1>4. Present(Tables, run.session, mode)
  <2>1. <<run.session, "cycle">> \in DOMAIN navs
        /\ \A x \in Symbols : <<run.session, x>> \in DOMAIN decisions
    BY <1>1 DEF Deciding
  <2>2. \A r \in OfSession(DOMAIN reviews, run.session) : ReviewedSo(r)
    BY <1>1 DEF Deciding, At
  <2> QED BY <1>0, <2>1, <2>2 DEF Present, Tables, ReviewedSo
<1>5. Tables' = Tables
  BY <1>3 DEF Tables, ledger, chain, balances
<1>6. ASSUME NEW s \in Sessions PROVE Recorded(Tables, s)'
  <2>1. CASE s = run.session
    <3>1. commits'[s] = mode /\ mode # "none"
      BY <1>0, <1>2, <1>3, <2>1
    <3>2. Present(Tables, s, mode)'
      BY <1>4, <1>5, <2>1, <1>3 DEF Present, Tables, ledger, chain, OfSession
    <3> QED BY <3>1, <3>2 DEF Recorded, Present, OfSession
  <2>2. CASE s # run.session
    <3>1. Recorded(Tables, s) /\ commits'[s] = commits[s]
      BY <1>1, <1>2, <1>3, <2>2 DEF Apart
    <3> QED BY <1>3, <3>1 DEF Recorded, Absent, Present, Tables, ledger, chain, OfSession
  <2> QED BY <2>1, <2>2
<1>7. IdsSound(Tables)' /\ DOMAIN fills' \subseteq DOMAIN navs'
  BY <1>1, <1>3 DEF Apart, Deciding, IdsSound, Tables, ledger, chain
<1> QED BY <1>6, <1>7 DEF Whole, Tables

LEMMA AtomicStep ==
    ASSUME AtomicInv, [CycleNext]_vars
    PROVE  AtomicInv'
<1>1. LedgerInv'
  BY LedgerStep DEF AtomicInv
<1>2. ASSUME NEW s \in Sessions, NEW mode, NEW closes, NEW offsets,
             Begin(s, mode, closes, offsets)
      PROVE  AtomicInv'
  <2>1. /\ ~InCycle /\ saved' = Tables /\ UNCHANGED <<ledger, commits>> /\ commits[s] = "none"
        /\ run'.stage = "settle" /\ run'.session = s /\ run'.left = SymbolOrder
    BY <1>2 DEF Begin, GoTo, At, InCycle
  <2>2. Whole(Tables)
    BY <2>1 DEF AtomicInv
  <2>3. Whole(saved)'
    BY <2>1, <2>2 DEF Whole, IdsSound, Recorded, Absent, Present, OfSession
  <2>4. Apart'
    BY <2>1, <2>2 DEF Whole, Apart, IdsSound, Recorded, Absent, Present, OfSession, Tables,
       ledger, chain
  <2>5. Progress'
    <3>1. OfSession(DOMAIN reviews, s) = {} /\ DOMAIN fills \subseteq DOMAIN navs
      BY <2>1, <2>2 DEF Whole, Recorded, Absent, Tables
    <3> QED BY <2>1, <3>1 DEF Progress, Settling, At, ledger, chain
  <2>6. InCycle'
    BY <2>1 DEF InCycle
  <2> QED BY <1>1, <2>3, <2>4, <2>5, <2>6 DEF AtomicInv
<1>3. ASSUME GoesOn PROVE AtomicInv'
  <2>1. InCycle /\ InCycle' /\ saved' = saved /\ commits' = commits
    BY <1>3, GoesOnInside DEF Inside, InCycle, WorkStages
  <2>2. Apart' /\ Progress'
    BY <1>3, GoesOnAtomic
  <2>3. Whole(saved)'
    BY <2>1 DEF AtomicInv, Whole, IdsSound, Recorded, Absent, Present, OfSession
  <2> QED BY <1>1, <2>1, <2>2, <2>3 DEF AtomicInv
<1>4. ASSUME RollsBack PROVE AtomicInv'
  <2>1. InCycle /\ Rollback /\ ~InCycle' /\ commits' = commits
    BY <1>4, RollsBackRestores DEF InCycle, Idle, Rollback
  <2>2. /\ decisions' = saved.decisions /\ proposals' = saved.proposals
        /\ reviews' = saved.reviews /\ orders' = saved.orders
        /\ fills' = saved.fills /\ navs' = saved.navs
    BY <2>1 DEF Rollback
  <2>3. Whole(saved)
    BY <2>1 DEF AtomicInv
  <2>4. Whole(Tables)'
    BY <2>1, <2>2, <2>3 DEF Whole, IdsSound, Recorded, Absent, Present, OfSession, Tables
  <2> QED BY <1>1, <2>1, <2>4 DEF AtomicInv
<1>5. ASSUME Commit PROVE AtomicInv'
  <2>1. ~InCycle'
    BY <1>5 DEF Commit, GoTo, InCycle
  <2> QED BY <1>1, <1>5, <2>1, CommitAtomic DEF AtomicInv
<1>6. ASSUME ~InCycle, ~InCycle', UNCHANGED <<chain, navs, fills, commits>> PROVE AtomicInv'
  <2>1. Whole(Tables)
    BY <1>6 DEF AtomicInv
  <2>2. Whole(Tables)'
    BY <1>6, <2>1 DEF Whole, IdsSound, Recorded, Absent, Present, OfSession, Tables, chain
  <2> QED BY <1>1, <1>6, <2>2 DEF AtomicInv
<1>7. Alert => ~InCycle /\ ~InCycle' /\ UNCHANGED <<ledger, commits>>
  BY DEF Alert, GoTo, InCycle, Idle, At
<1>8. Operator => ~InCycle /\ ~InCycle' /\ UNCHANGED <<chain, navs, fills, commits>>
  BY DEF Operator, cycle, InCycle, AppendKillSwitchEvent, AppendAccountEvent
<1>9. At("alert") /\ run' = Idle => ~InCycle /\ ~InCycle'
  BY DEF At, InCycle, Idle
<1>10. ASSUME UNCHANGED <<ledger, run, saved, commits, alerts>> PROVE AtomicInv'
  <2>1. CASE ~InCycle
    BY <1>6, <1>10, <2>1 DEF InCycle, ledger
  <2>2. CASE InCycle
    <3>1. Whole(saved)' /\ Apart' /\ InCycle'
      BY <1>10, <2>2 DEF AtomicInv, Whole, Apart, IdsSound, Recorded, Absent, Present, OfSession,
         Tables, ledger, chain, InCycle
    <3>2. Progress'
      BY <1>10, <2>2 DEF AtomicInv, Progress, Settling, Deciding, ReviewedSo, Id, Sym, At,
         OfSession, ledger, chain
    <3> QED BY <1>1, <3>1, <3>2 DEF AtomicInv
  <2> QED BY <2>1, <2>2
<1>11. UNCHANGED ledger => UNCHANGED <<chain, navs, fills>>
  BY DEF ledger
<1> QED BY CycleSteps, <1>2, <1>3, <1>4, <1>5, <1>6, <1>7, <1>8, <1>9, <1>10, <1>11

LEMMA AtomicStarts == CycleInit => AtomicInv
<1> SUFFICES ASSUME CycleInit PROVE AtomicInv
  OBVIOUS
<1>1. LedgerInv /\ ~InCycle
  BY LedgerStarts DEF CycleInit, Idle, InCycle
<1>2. Whole(Tables)
  BY DEF CycleInit, Whole, IdsSound, Recorded, Absent, OfSession, Tables
<1> QED BY <1>1, <1>2 DEF AtomicInv

(* Wherever a cycle fails or its process dies, at whichever call of the    *)
(* ledger: a session leaves its whole record or nothing.                   *)
THEOREM CyclesAllOrNothing == CycleSpec => []AllOrNothing
<1>1. AtomicInv => AllOrNothing
  BY RestIsAllOrNothing
<1> QED BY <1>1, AtomicStarts, AtomicStep, PTL DEF CycleSpec

-----------------------------------------------------------------------------
(***************************************************************************)
(* The limits of a session.  The amounts are sums over sets; each is one   *)
(* of SumProofs' sums.                                                     *)
(***************************************************************************)
Worth(n) == [s \in DOMAIN n.marks |-> n.marks[s].quantity * n.marks[s].price]
Cost(table) == [r \in DOMAIN table |-> table[r].quantity * table[r].price]
SharesOf(s) == [r \in DOMAIN reviews |->
                  IF proposals[reviews[r].proposal].symbol = s THEN reviews[r].quantity ELSE 0]

LEMMA MarkedValueIsSum ==
    ASSUME NEW n
    PROVE  MarkedValue(n) = SumFunctionOnSet(Worth(n), DOMAIN n.marks)
<1> DEFINE S == DOMAIN n.marks
           Solved(g) == g = [T \in SUBSET S |->
             IF T = {} THEN 0
             ELSE n.marks[Pick(T)].quantity * n.marks[Pick(T)].price + g[T \ {Pick(T)}]]
<1>1. MarkedValue(n) = (CHOOSE g : Solved(g))[S]
  BY DEF MarkedValue, MapThenSumSet, MapThenFoldSet, Pick
<1>2. \A g : Solved(g) <=> Solves(Worth(n), SUBSET S, g)
  <2>1. \A T \in SUBSET S : T # {} =>
          Worth(n)[Pick(T)] = n.marks[Pick(T)].quantity * n.marks[Pick(T)].price
    BY PickIn DEF Worth
  <2> QED BY <2>1 DEF Solves
<1> HIDE DEF Solved
<1>3. (CHOOSE g : Solved(g)) = (CHOOSE g : Solves(Worth(n), SUBSET S, g))
  BY <1>2
<1> QED BY <1>1, <1>3, SumIsSolution

LEMMA CostIsSum ==
    ASSUME NEW S \in SUBSET DOMAIN reviews
    PROVE  MapThenSumSet(LAMBDA r : reviews[r].quantity * reviews[r].price, S)
             = SumFunctionOnSet(Cost(reviews), S)
<1> DEFINE Solved(g) == g = [T \in SUBSET S |->
             IF T = {} THEN 0
             ELSE reviews[Pick(T)].quantity * reviews[Pick(T)].price + g[T \ {Pick(T)}]]
<1>1. MapThenSumSet(LAMBDA r : reviews[r].quantity * reviews[r].price, S)
        = (CHOOSE g : Solved(g))[S]
  BY DEF MapThenSumSet, MapThenFoldSet, Pick
<1>2. \A g : Solved(g) <=> Solves(Cost(reviews), SUBSET S, g)
  <2>1. \A T \in SUBSET S : T # {} =>
          Cost(reviews)[Pick(T)] = reviews[Pick(T)].quantity * reviews[Pick(T)].price
    BY PickIn DEF Cost
  <2> QED BY <2>1 DEF Solves
<1> HIDE DEF Solved
<1>3. (CHOOSE g : Solved(g)) = (CHOOSE g : Solves(Cost(reviews), SUBSET S, g))
  BY <1>2
<1> QED BY <1>1, <1>3, SumIsSolution

LEMMA SharesAreSum ==
    ASSUME NEW side, NEW s
    PROVE  ReservedShares(side, s) = SumFunctionOnSet(SharesOf(s), ReservedFor(side))
<1> DEFINE S == ReservedFor(side)
           Solved(g) == g = [T \in SUBSET S |->
             IF T = {} THEN 0
             ELSE (IF proposals[reviews[Pick(T)].proposal].symbol = s
                   THEN reviews[Pick(T)].quantity ELSE 0) + g[T \ {Pick(T)}]]
<1>1. ReservedShares(side, s) = (CHOOSE g : Solved(g))[S]
  BY DEF ReservedShares, MapThenSumSet, MapThenFoldSet, Pick
<1>2. \A g : Solved(g) <=> Solves(SharesOf(s), SUBSET S, g)
  <2>1. S \in SUBSET DOMAIN reviews
    BY DEF ReservedFor, Reserved, AcceptedReviews
  <2>2. ASSUME NEW T \in SUBSET S, T # {}
        PROVE  SharesOf(s)[Pick(T)] = IF proposals[reviews[Pick(T)].proposal].symbol = s
                                      THEN reviews[Pick(T)].quantity ELSE 0
    BY <2>1, <2>2, PickIn DEF SharesOf
  <2> QED BY <2>2 DEF Solves
<1> HIDE DEF Solved
<1>3. (CHOOSE g : Solved(g)) = (CHOOSE g : Solves(SharesOf(s), SUBSET S, g))
  BY <1>2
<1> QED BY <1>1, <1>3, SumIsSolution

(* What a set of tables must say of a session: the limits, as the run      *)
(* checks them between cycles.                                             *)
ApprovedOf(t, s) == {r \in OfSession(DOMAIN t.reviews, s) : t.reviews[r].verdict # "REJECT"}
BoughtOf(t, s)   == {r \in ApprovedOf(t, s) : t.proposals[r].side = "BUY"}
SpentOf(t, s)    == SumFunctionOnSet(Cost(t.reviews), BoughtOf(t, s))
MarksOf(n)       == SumFunctionOnSet(Worth(n), DOMAIN n.marks)

WithinLimits(t, s) ==
    /\ Cardinality(ApprovedOf(t, s)) <= DailyOrderCap
    /\ BoughtOf(t, s) # {} =>
         LET nav == t.navs[<<s, "cycle">>] IN
         /\ <<s, "cycle">> \in DOMAIN t.navs
         /\ SpentOf(t, s) <= nav.cash
         /\ (MarksOf(nav) + SpentOf(t, s)) * 10000 <= (nav.cash + MarksOf(nav)) * MaxAggregateBps

(* The rows of one proposal have one name, and carry their session's time. *)
Named(t) ==
    /\ \A p \in DOMAIN t.proposals : t.proposals[p].decision = p
    /\ \A r \in DOMAIN t.reviews : t.reviews[r].proposal = r
    /\ \A d \in DOMAIN t.decisions : t.decisions[d].created_at = CycleAt(d[1])
    /\ \A o \in DOMAIN t.orders : t.orders[o].created_at = CycleAt(o[1])

Limited(t) == Named(t) /\ \A s \in Sessions : WithinLimits(t, s)

OpenInSession == \A o \in DOMAIN orders : o[1] = run.session => Open(o)

(* During a cycle the tables of BEGIN IMMEDIATE are within the limits too, *)
(* and the orders placed in it are still open: what has been approved in   *)
(* the session is reserved.                                                *)
LimitsInv ==
    /\ AtomicInv
    /\ Limited(Tables)
    /\ InCycle => /\ Limited(saved)
                  /\ OpenInSession

LEMMA FinitelyManyIds ==
    /\ IsFiniteSet(Symbols) /\ IsFiniteSet(Sessions \X Symbols)
<1>1. /\ SymbolOrder \in Seq(Symbols) /\ Symbols = {SymbolOrder[i] : i \in 1 .. Len(SymbolOrder)}
      /\ Len(SymbolOrder) \in Nat /\ MaxSession \in Nat
  BY CycleAssumption
<1>2. SymbolOrder \in Surjection(1 .. Len(SymbolOrder), Symbols)
  BY <1>1 DEF Surjection
<1>3. IsFiniteSet(1 .. Len(SymbolOrder)) /\ IsFiniteSet(Sessions)
  BY <1>1, FS_Interval DEF Sessions
<1>4. IsFiniteSet(Symbols)
  BY <1>2, <1>3, FS_Surjection
<1> QED BY <1>3, <1>4, FS_Product

(* The tables of a sound book: every review has its proposal and decision, *)
(* of its own name; and what they add up is natural.                       *)
LEMMA RowsAreFew ==
    ASSUME BookSound, IdsSound(Tables), Named(Tables)
    PROVE  /\ DOMAIN reviews \subseteq DOMAIN proposals /\ DOMAIN proposals \subseteq DOMAIN decisions
           /\ DOMAIN decisions \subseteq Sessions \X Symbols
           /\ IsFiniteSet(DOMAIN reviews) /\ IsFiniteSet(DOMAIN orders)
           /\ \A r \in DOMAIN reviews : /\ reviews[r].quantity \in Nat /\ reviews[r].price \in Nat
                                        /\ Cost(reviews)[r] \in Nat
<1>1. /\ DOMAIN reviews \subseteq DOMAIN proposals /\ DOMAIN proposals \subseteq DOMAIN decisions
  BY DEF BookSound, AuthorityChain, ReviewsSound, ProposalsSound, Named, Tables
<1>2. DOMAIN decisions \subseteq Sessions \X Symbols /\ DOMAIN orders \subseteq DOMAIN reviews
  BY DEF IdsSound, Tables
<1>3. DOMAIN reviews \in SUBSET (Sessions \X Symbols) /\ DOMAIN orders \in SUBSET (Sessions \X Symbols)
  BY <1>1, <1>2
<1>4. IsFiniteSet(DOMAIN reviews) /\ IsFiniteSet(DOMAIN orders)
  BY <1>3, FinitelyManyIds, FS_Subset
<1>5. ASSUME NEW r \in DOMAIN reviews
      PROVE  reviews[r].quantity \in Nat /\ reviews[r].price \in Nat /\ Cost(reviews)[r] \in Nat
  <2>1. reviews[r] \in Review
    BY DEF BookSound, TypeOK, IsTable
  <2>2. reviews[r].quantity \in Nat /\ reviews[r].price \in Nat
    BY <2>1 DEF Review
  <2>3. Cost(reviews)[r] = reviews[r].quantity * reviews[r].price
    BY DEF Cost
  <2> QED BY <2>2, <2>3
<1> QED BY <1>1, <1>2, <1>4, <1>5

LEMMA MarksAreNatural ==
    ASSUME TypeOK, NEW n \in DOMAIN navs
    PROVE  MarksOf(navs[n]) \in Nat /\ MarkedValue(navs[n]) = MarksOf(navs[n])
           /\ navs[n].cash \in Nat
<1>1. PICK nav : nav = navs[n]
  OBVIOUS
<1>2. IsTable(nav.marks, Symbols, Mark) /\ nav.cash \in Nat
  BY <1>1 DEF TypeOK
<1>3. IsFiniteSet(DOMAIN nav.marks)
  BY <1>2, FinitelyManyIds, FS_Subset DEF IsTable
<1>4. ASSUME NEW s \in DOMAIN nav.marks PROVE Worth(nav)[s] \in Nat
  <2>1. nav.marks[s] \in Mark
    BY <1>2 DEF IsTable
  <2>2. nav.marks[s].quantity \in Nat /\ nav.marks[s].price \in Nat
    BY <2>1 DEF Mark
  <2>3. Worth(nav)[s] = nav.marks[s].quantity * nav.marks[s].price
    BY DEF Worth
  <2> QED BY <2>2, <2>3
<1>5. SumFunctionOnSet(Worth(nav), DOMAIN nav.marks) \in Nat
  BY <1>3, <1>4, SumIsNat
<1>6. MarkedValue(nav) = SumFunctionOnSet(Worth(nav), DOMAIN nav.marks)
  BY MarkedValueIsSum
<1> QED BY <1>1, <1>2, <1>5, <1>6 DEF MarksOf

LEMMA SpentIsNatural ==
    ASSUME BookSound, IdsSound(Tables), Named(Tables), NEW s
    PROVE  /\ IsFiniteSet(ApprovedOf(Tables, s)) /\ IsFiniteSet(BoughtOf(Tables, s))
           /\ SpentOf(Tables, s) \in Nat /\ Cardinality(ApprovedOf(Tables, s)) \in Nat
<1>1. /\ ApprovedOf(Tables, s) \in SUBSET DOMAIN reviews
      /\ BoughtOf(Tables, s) \in SUBSET DOMAIN reviews
      /\ Tables.reviews = reviews
  BY DEF ApprovedOf, BoughtOf, OfSession, Tables
<1>2. IsFiniteSet(ApprovedOf(Tables, s)) /\ IsFiniteSet(BoughtOf(Tables, s))
      /\ \A r \in BoughtOf(Tables, s) : Cost(reviews)[r] \in Nat
  BY <1>1, RowsAreFew, FS_Subset
<1>3. SumFunctionOnSet(Cost(reviews), BoughtOf(Tables, s)) \in Nat
  BY <1>2, SumIsNat
<1> QED BY <1>1, <1>2, <1>3, FS_CardinalityType DEF SpentOf

(* A session whose rows stay keeps its limits.                             *)
LEMMA LimitsKept ==
    ASSUME NEW s, IsFiniteSet(DOMAIN reviews), WithinLimits(Tables, s),
           OfSession(DOMAIN reviews', s) = OfSession(DOMAIN reviews, s),
           \A r \in OfSession(DOMAIN reviews, s) :
             reviews'[r] = reviews[r] /\ proposals'[r] = proposals[r],
           <<s, "cycle">> \in DOMAIN navs =>
             <<s, "cycle">> \in DOMAIN navs' /\ navs'[<<s, "cycle">>] = navs[<<s, "cycle">>]
    PROVE  WithinLimits(Tables, s)'
<1>1. PICK t, u : t = Tables /\ u = Tables'
  OBVIOUS
<1>2. /\ t.reviews = reviews /\ t.proposals = proposals /\ t.navs = navs
      /\ u.reviews = reviews' /\ u.proposals = proposals' /\ u.navs = navs'
  BY <1>1 DEF Tables
<1>3. ApprovedOf(u, s) = ApprovedOf(t, s) /\ ApprovedOf(t, s) \in SUBSET DOMAIN reviews
  BY <1>2 DEF ApprovedOf, OfSession
<1>4. BoughtOf(u, s) = BoughtOf(t, s) /\ BoughtOf(t, s) \in SUBSET DOMAIN reviews
  BY <1>2, <1>3 DEF BoughtOf, ApprovedOf, OfSession
<1>5. \A r \in BoughtOf(t, s) : Cost(u.reviews)[r] = Cost(t.reviews)[r]
  BY <1>2, <1>3, <1>4 DEF Cost, BoughtOf, ApprovedOf, OfSession
<1>6. IsFiniteSet(BoughtOf(t, s))
  BY <1>4, FS_Subset
<1>7. SpentOf(u, s) = SpentOf(t, s)
  BY <1>4, <1>5, <1>6, SumOfEqual DEF SpentOf
<1>8. WithinLimits(t, s)
  BY <1>1
<1>9. WithinLimits(u, s)
  BY <1>2, <1>3, <1>4, <1>7, <1>8 DEF WithinLimits
<1> QED BY <1>1, <1>9

(* What is reserved at a review covers what the session has approved: an   *)
(* approval of the session is not ordered, or its order is open.           *)
LEMMA ApprovedIsReserved ==
    ASSUME LimitsInv, InCycle, Id \notin DOMAIN reviews
    PROVE  /\ BoughtOf(Tables, run.session) \subseteq ReservedFor("BUY")
           /\ ReservedKrw \in Nat /\ SpentOf(Tables, run.session) <= ReservedKrw
           /\ \A side \in Sides : \A s : ReservedShares(side, s) \in Int
<1>1. BookSound /\ IdsSound(Tables) /\ Named(Tables)
  BY DEF LimitsInv, Limited, AtomicInv, LedgerInv, Apart
<1>2. /\ IsFiniteSet(DOMAIN reviews)
      /\ \A r \in DOMAIN reviews : reviews[r].quantity \in Nat /\ Cost(reviews)[r] \in Nat
  BY <1>1, RowsAreFew
<1>3. BoughtOf(Tables, run.session) \subseteq ReservedFor("BUY")
  <2> SUFFICES ASSUME NEW r \in BoughtOf(Tables, run.session) PROVE r \in ReservedFor("BUY")
    OBVIOUS
  <2>1. /\ r \in DOMAIN reviews /\ r[1] = run.session /\ reviews[r].verdict # "REJECT"
        /\ proposals[r].side = "BUY" /\ reviews[r].proposal = r
    BY <1>1 DEF BoughtOf, ApprovedOf, OfSession, Tables, Named
  <2>2. Ordered(r) => Open(r)
    BY <2>1 DEF LimitsInv, OpenInSession, Ordered
  <2> QED BY <2>1, <2>2 DEF ReservedFor, Reserved, AcceptedReviews
<1>4. \A side : ReservedFor(side) \in SUBSET DOMAIN reviews /\ IsFiniteSet(ReservedFor(side))
  <2>1. \A side : ReservedFor(side) \in SUBSET DOMAIN reviews
    BY DEF ReservedFor, Reserved, AcceptedReviews
  <2> QED BY <1>2, <2>1, FS_Subset
<1>5. ReservedKrw = SumFunctionOnSet(Cost(reviews), ReservedFor("BUY"))
  BY <1>4, CostIsSum DEF ReservedKrw
<1>6. ReservedKrw \in Nat /\ SpentOf(Tables, run.session) <= ReservedKrw
  <2>1. \A r \in ReservedFor("BUY") : Cost(reviews)[r] \in Nat
    BY <1>2, <1>4
  <2>2. SumFunctionOnSet(Cost(reviews), BoughtOf(Tables, run.session))
          <= SumFunctionOnSet(Cost(reviews), ReservedFor("BUY"))
    BY <1>3, <1>4, <2>1, SumMonotone
  <2>3. SumFunctionOnSet(Cost(reviews), ReservedFor("BUY")) \in Nat
    BY <1>4, <2>1, SumIsNat
  <2>4. Tables.reviews = reviews
    BY DEF Tables
  <2> QED BY <1>5, <2>2, <2>3, <2>4 DEF SpentOf
<1>7. ASSUME NEW side \in Sides, NEW s PROVE ReservedShares(side, s) \in Int
  <2>1. \A r \in ReservedFor(side) : SharesOf(s)[r] \in Int
    BY <1>2, <1>4 DEF SharesOf
  <2>2. SumFunctionOnSet(SharesOf(s), ReservedFor(side)) \in Int
    BY <1>4, <2>1, SumIsInt
  <2> QED BY <2>2, SharesAreSum
<1> QED BY <1>3, <1>6, <1>7

(* The session's approvals are among the orders and the unordered          *)
(* approvals that a review counts.                                         *)
LEMMA ApprovedIsCounted ==
    ASSUME LimitsInv, InCycle, Id \notin DOMAIN reviews
    PROVE  OrdersToday \in Nat /\ Cardinality(ApprovedOf(Tables, run.session)) <= OrdersToday
<1> DEFINE A == {o \in DOMAIN orders : SessionOf(orders[o].created_at) = run.session}
           B == PendingWithoutOrder
           C == ApprovedOf(Tables, run.session)
<1>1. BookSound /\ IdsSound(Tables) /\ Named(Tables) /\ run.session \in Sessions
      /\ SessionOf(CycleAt(run.session)) = run.session
  BY InCycleMeans, Instants DEF LimitsInv, Limited, AtomicInv, LedgerInv, DigestInv, Apart
<1>2. /\ IsFiniteSet(DOMAIN reviews) /\ IsFiniteSet(DOMAIN orders)
      /\ DOMAIN reviews \subseteq DOMAIN proposals /\ DOMAIN proposals \subseteq DOMAIN decisions
  BY <1>1, RowsAreFew
<1>3. A \in SUBSET DOMAIN orders /\ B \in SUBSET DOMAIN reviews
  BY DEF PendingWithoutOrder, AcceptedReviews
<1>4. C \subseteq A \cup B
  <2> SUFFICES ASSUME NEW r \in C PROVE r \in A \cup B
    OBVIOUS
  <2>1. /\ r \in DOMAIN reviews /\ r[1] = run.session /\ reviews[r].verdict # "REJECT"
        /\ reviews[r].proposal = r
    BY <1>1 DEF ApprovedOf, OfSession, Tables, Named
  <2>2. CASE Ordered(r)
    <3>1. orders[r].created_at = CycleAt(run.session)
      BY <1>1, <2>1, <2>2 DEF Named, Tables, Ordered
    <3> QED BY <1>1, <2>2, <3>1 DEF Ordered
  <2>3. CASE ~Ordered(r)
    <3>1. /\ r \in DOMAIN proposals /\ r \in DOMAIN decisions
      BY <1>2, <2>1
    <3>2. proposals[r].decision = r /\ decisions[r].created_at = CycleAt(run.session)
      BY <1>1, <2>1, <3>1 DEF Named, Tables
    <3>3. SessionOfReview(r) = run.session
      BY <1>1, <2>1, <3>2 DEF SessionOfReview
    <3> QED BY <2>1, <2>3, <3>3 DEF PendingWithoutOrder, AcceptedReviews
  <2> QED BY <2>2, <2>3
<1>5. OrdersToday = Cardinality(A) + Cardinality(B)
  BY DEF OrdersToday
<1> HIDE DEF A, B, C
<1>6. IsFiniteSet(A) /\ IsFiniteSet(B)
  BY <1>2, <1>3, FS_Subset
<1>7. /\ IsFiniteSet(A \cup B)
      /\ Cardinality(A \cup B) = Cardinality(A) + Cardinality(B) - Cardinality(A \cap B)
  BY <1>6, FS_Union
<1>8. IsFiniteSet(A \cap B)
  BY <1>6, FS_Subset
<1>9. /\ Cardinality(A) \in Nat /\ Cardinality(B) \in Nat /\ Cardinality(A \cap B) \in Nat
      /\ IsFiniteSet(C) /\ Cardinality(C) \in Nat
  <2>1. C \in SUBSET (A \cup B)
    BY <1>4
  <2>2. IsFiniteSet(C)
    BY <1>7, <2>1, FS_Subset
  <2> QED BY <1>6, <1>8, <2>2, FS_CardinalityType
<1>10. Cardinality(C) <= Cardinality(A \cup B)
  BY <1>4, <1>7, FS_Subset
<1>11. OrdersToday \in Nat /\ Cardinality(C) <= OrdersToday
  BY <1>5, <1>7, <1>9, <1>10
<1> QED BY <1>11 DEF C

LEMMA RequestOfReview ==
    ASSUME LimitsInv, At("review"), Id \in DOMAIN proposals, Id \notin DOMAIN reviews,
           NEW request, request = RiskRequest, RequestValid(request)
    PROVE  /\ Measured(request) /\ request.orders = OrdersToday /\ request.price = Close(Sym)
           /\ request.cash = navs[CycleNavId].cash - ReservedKrw
           /\ request.position_value = MarksOf(navs[CycleNavId]) + ReservedKrw
           /\ request.nav = navs[CycleNavId].cash + MarksOf(navs[CycleNavId])
           /\ request.action = decisions[Id].action
           /\ navs[CycleNavId].cash \in Nat /\ MarksOf(navs[CycleNavId]) \in Nat
<1>1. InCycle /\ LedgerInv /\ TypeOK /\ Deciding /\ run.left # << >>
  BY DEF LimitsInv, AtomicInv, LedgerInv, BookSound, RunTyped, Progress, At, InCycle
<1>2. /\ CycleNavId \in DOMAIN navs /\ Sym \in Symbols /\ Close(Sym) \in Nat
  BY <1>1, NextSymbol, CycleInstants DEF Deciding, CycleNavId
<1>3. /\ navs[CycleNavId].cash \in Nat /\ MarksOf(navs[CycleNavId]) \in Nat
      /\ MarkedValue(navs[CycleNavId]) = MarksOf(navs[CycleNavId])
  BY <1>1, <1>2, MarksAreNatural
<1>4. /\ request.action = decisions[Id].action /\ request.target = proposals[Id].target
      /\ request.price = Close(Sym) /\ request.cash = navs[CycleNavId].cash - ReservedKrw
      /\ request.holdings = Position(TheAccount, Sym) + ReservedShares("BUY", Sym)
                              - ReservedShares("SELL", Sym)
      /\ request.position_value = MarkedValue(navs[CycleNavId]) + ReservedKrw
      /\ request.nav = NavValue(navs[CycleNavId]) /\ request.orders = OrdersToday
  BY DEF RiskRequest
<1>5. /\ ReservedKrw \in Nat /\ ReservedShares("BUY", Sym) \in Int
      /\ ReservedShares("SELL", Sym) \in Int
  BY <1>1, ApprovedIsReserved DEF Sides
<1>6. Position(TheAccount, Sym) \in Int
  <2>1. MaxTime \in Times /\ TheAccount \in Accounts
    BY TimeAssumption, CycleAssumption DEF Times
  <2> QED BY <1>1, <1>2, <2>1 DEF TypeOK, Position
<1>7. proposals[Id].target \in Nat
  <2>1. proposals[Id] \in Proposal
    BY <1>1 DEF TypeOK, IsTable
  <2> QED BY <2>1 DEF Proposal
<1>8. request.nav = navs[CycleNavId].cash + MarksOf(navs[CycleNavId])
  BY <1>3, <1>4 DEF NavValue
<1>9. request.cash >= 0 /\ request.holdings >= 0
  BY DEF RequestValid
<1>10. /\ request.price \in Nat /\ request.nav \in Nat /\ request.holdings \in Nat
       /\ request.cash \in Nat /\ request.position_value \in Nat /\ request.target \in Nat
  BY <1>2, <1>3, <1>4, <1>5, <1>6, <1>7, <1>8, <1>9
<1> QED BY <1>3, <1>4, <1>8, <1>10 DEF Measured

(* What fits on top of all that is reserved fits on top of what the        *)
(* session has spent.                                                      *)
LEMMA LessIsReserved ==
    ASSUME NEW cash \in Nat, NEW marks \in Nat, NEW reserved \in Nat, NEW spent \in Nat,
           NEW cost \in Nat, NEW limit \in Int, spent <= reserved, cost <= cash - reserved,
           ((marks + reserved) + cost) * 10000 <= limit
    PROVE  spent + cost <= cash /\ (marks + (spent + cost)) * 10000 <= limit
  OBVIOUS

(* A new review of the session keeps its limits. *)
LEMMA ReviewLimits ==
    ASSUME LimitsInv, At("review"), NEW request, request = RiskRequest, RequestValid(request),
           NEW result, result = EvaluateRisk(request), result.verdict # "NO_OP",
           AppendRiskReview(Id, ReviewRow(result)), NEW s, s = run.session
    PROVE  WithinLimits(Tables, s)'
<1>1. /\ InCycle /\ LedgerInv /\ Deciding /\ BookSound /\ IdsSound(Tables) /\ Named(Tables)
      /\ s \in Sessions /\ WithinLimits(Tables, s)
  BY InCycleMeans DEF LimitsInv, Limited, AtomicInv, LedgerInv, DigestInv, Progress, Apart, At, InCycle
<1>2. /\ Id \notin DOMAIN reviews /\ Id \in DOMAIN proposals
      /\ reviews' = Put(reviews, Id, ReviewRow(result)) /\ UNCHANGED <<proposals, navs>>
  BY ZenonT(40), SubmitInserted DEF AppendRiskReview, ReviewOutcome, ReviewRow
<1>0. PICK id : id = Id
  OBVIOUS
<1>3. id[1] = s /\ CycleNavId = <<s, "cycle">> /\ <<s, "cycle">> \in DOMAIN navs
  BY <1>0, <1>1 DEF Id, CycleNavId, Deciding
<1>4. /\ Measured(request) /\ request.orders = OrdersToday /\ request.price = Close(Sym)
      /\ request.cash = navs[CycleNavId].cash - ReservedKrw
      /\ request.position_value = MarksOf(navs[CycleNavId]) + ReservedKrw
      /\ request.nav = navs[CycleNavId].cash + MarksOf(navs[CycleNavId])
      /\ request.action = decisions[Id].action
      /\ navs[CycleNavId].cash \in Nat /\ MarksOf(navs[CycleNavId]) \in Nat
  BY <1>2, RequestOfReview
<1>5. PICK t, u : t = Tables /\ u = Tables'
  OBVIOUS
<1>6. /\ t.reviews = reviews /\ t.proposals = proposals /\ t.navs = navs
      /\ u.reviews = reviews' /\ u.proposals = proposals /\ u.navs = navs
  BY <1>2, <1>5 DEF Tables
<1>7. /\ IsFiniteSet(ApprovedOf(t, s)) /\ IsFiniteSet(BoughtOf(t, s)) /\ SpentOf(t, s) \in Nat
      /\ Cardinality(ApprovedOf(t, s)) \in Nat
  BY <1>1, <1>5, SpentIsNatural
<1>8. /\ id \notin DOMAIN t.reviews /\ DOMAIN u.reviews = DOMAIN t.reviews \cup {id}
      /\ \A r \in DOMAIN t.reviews : u.reviews[r] = t.reviews[r]
      /\ u.reviews[id] = ReviewRow(result)
  BY <1>0, <1>2, <1>6 DEF Put
<1>9. /\ \A r \in DOMAIN t.reviews : Cost(u.reviews)[r] = Cost(t.reviews)[r]
      /\ Cost(u.reviews)[id] = ReviewRow(result).quantity * ReviewRow(result).price
  BY <1>8 DEF Cost
<1>10. BoughtOf(t, s) \subseteq DOMAIN t.reviews /\ ApprovedOf(t, s) \subseteq DOMAIN t.reviews
  BY DEF BoughtOf, ApprovedOf, OfSession
<1>11. WithinLimits(t, s)
  BY <1>1, <1>5
<1>12. CASE result.verdict = "REJECT"
  <2>1. ReviewRow(result).verdict = "REJECT"
    BY <1>12 DEF ReviewRow
  <2>2. ApprovedOf(u, s) = ApprovedOf(t, s)
    BY <1>8, <2>1 DEF ApprovedOf, OfSession
  <2>3. BoughtOf(u, s) = BoughtOf(t, s)
    BY <1>6, <2>2 DEF BoughtOf
  <2>4. SpentOf(u, s) = SpentOf(t, s)
    BY <1>7, <1>9, <1>10, <2>3, SumOfEqual DEF SpentOf
  <2>5. WithinLimits(u, s)
    BY <1>6, <1>11, <2>2, <2>3, <2>4 DEF WithinLimits
  <2> QED BY <1>5, <2>5
<1>13. CASE result.verdict # "REJECT"
  <2>1. Accepted(EvaluateRisk(request))
    BY <1>13 DEF EvaluateRisk, Reject, NoOp, Accept, Accepted
  <2>2. /\ ReviewRow(result).verdict # "REJECT" /\ ReviewRow(result).quantity = result.quantity
        /\ ReviewRow(result).price = request.price
    BY <1>4, <1>13, <2>1 DEF ReviewRow
  <2>3. ApprovedOf(u, s) = ApprovedOf(t, s) \cup {id}
    BY <1>3, <1>8, <2>2 DEF ApprovedOf, OfSession
  <2>4. Cardinality(ApprovedOf(u, s)) <= DailyOrderCap
    <3>1. Cardinality(ApprovedOf(u, s)) = Cardinality(ApprovedOf(t, s)) + 1
      BY ZenonT(40), <1>7, <1>8, <1>10, <2>3, FS_AddElement
    <3>2. OrdersToday \in Nat /\ Cardinality(ApprovedOf(t, s)) <= OrdersToday
      BY <1>1, <1>2, <1>5, ApprovedIsCounted
    <3>3. ~(OrdersToday >= DailyOrderCap) /\ DailyOrderCap \in Nat
      BY <1>4, <2>1, AcceptedMeans, PolicyAssumption
    <3> QED BY <1>7, <3>1, <3>2, <3>3
  <2>5. CASE proposals[id].side # "BUY"
    <3>1. BoughtOf(u, s) = BoughtOf(t, s)
      BY <1>6, <2>3, <2>5 DEF BoughtOf
    <3>2. SpentOf(u, s) = SpentOf(t, s)
      BY <1>7, <1>9, <1>10, <3>1, SumOfEqual DEF SpentOf
    <3>3. WithinLimits(u, s)
      BY <1>6, <1>11, <2>4, <3>1, <3>2 DEF WithinLimits
    <3> QED BY <1>5, <3>3
  <2>6. CASE proposals[id].side = "BUY"
    <3>1. Buying(request)
      <4>1. proposals[id].decision = id /\ Authorises(decisions[id].action, "BUY", proposals[id].target)
        BY <1>0, <1>1, <1>2, <2>6 DEF BookSound, AuthorityChain, ProposalsSound, Named, Tables
      <4> QED BY <1>0, <1>4, <4>1 DEF Authorises, Buying
    <3>2. /\ result.quantity \in Nat /\ Permitted(request, result.quantity)
      <4>1. /\ Quantity(request) \in Int /\ Quantity(request) >= 1
            /\ result.quantity = Quantity(request) /\ Permitted(request, Quantity(request))
        BY <1>4, <2>1, <3>1, PurchaseIsLargestPermitted
      <4> QED BY <4>1
    <3>3. BoughtOf(u, s) = BoughtOf(t, s) \cup {id}
      BY <1>6, <2>3, <2>6 DEF BoughtOf
    <3>4. request.price \in Nat
      BY <1>4 DEF Measured
    <3>5. SpentOf(u, s) = SpentOf(t, s) + result.quantity * request.price
      <4>1. \A r \in BoughtOf(t, s) : Cost(u.reviews)[r] = Cost(t.reviews)[r]
        BY <1>9, <1>10
      <4>2. SumFunctionOnSet(Cost(u.reviews), BoughtOf(t, s)) = SpentOf(t, s)
        BY <1>7, <4>1, SumOfEqual DEF SpentOf
      <4>3. \A r \in BoughtOf(t, s) \cup {id} : Cost(u.reviews)[r] \in Int
        <5>1. \A r \in DOMAIN reviews : Cost(reviews)[r] \in Nat
          BY <1>1, RowsAreFew
        <5>2. Cost(u.reviews)[id] \in Int
          BY <1>9, <2>2, <3>2, <3>4
        <5> QED BY <1>6, <1>10, <4>1, <5>1, <5>2
      <4>4. id \notin BoughtOf(t, s)
        BY <1>8, <1>10
      <4>5. SumFunctionOnSet(Cost(u.reviews), BoughtOf(t, s) \cup {id})
              = SumFunctionOnSet(Cost(u.reviews), BoughtOf(t, s)) + Cost(u.reviews)[id]
        BY <1>7, <4>3, <4>4, SumWith
      <4> QED BY <1>9, <2>2, <3>3, <4>2, <4>5 DEF SpentOf
    <3>6. ReservedKrw \in Nat /\ SpentOf(t, s) <= ReservedKrw
      BY <1>1, <1>2, <1>5, ApprovedIsReserved
    <3>7. PICK nav : nav = navs[CycleNavId]
      OBVIOUS
    <3>8. LET spent == SpentOf(t, s) + result.quantity * request.price IN
          /\ spent <= nav.cash
          /\ (MarksOf(nav) + spent) * 10000 <= (nav.cash + MarksOf(nav)) * MaxAggregateBps
      <4>1. PICK cost : cost = result.quantity * request.price
        OBVIOUS
      <4>2. cost \in Nat
        BY <3>2, <3>4, <4>1
      <4>3. PICK limit : limit = (nav.cash + MarksOf(nav)) * MaxAggregateBps
        OBVIOUS
      <4>4. limit \in Int
        BY <1>4, <3>7, <4>3, PolicyAssumption
      <4>5. /\ cost <= nav.cash - ReservedKrw
            /\ ((MarksOf(nav) + ReservedKrw) + cost) * 10000 <= limit
        BY <1>4, <3>2, <3>7, <4>1, <4>3 DEF Permitted, Affordable, WithinExposure
      <4>6. /\ SpentOf(t, s) + cost <= nav.cash
            /\ (MarksOf(nav) + (SpentOf(t, s) + cost)) * 10000 <= limit
        BY <1>4, <1>7, <3>6, <3>7, <4>2, <4>4, <4>5, LessIsReserved
      <4> QED BY <4>1, <4>3, <4>6
    <3>9. WithinLimits(u, s)
      BY <1>3, <1>6, <2>4, <3>5, <3>7, <3>8 DEF WithinLimits
    <3> QED BY <1>5, <3>9
  <2> QED BY <2>5, <2>6
<1> QED BY <1>12, <1>13

(* The steps, by what they add: nothing that the limits are about, a       *)
(* snapshot, or a row of the chain.                                        *)
LEMMA QuietLimits ==
    ASSUME LimitsInv, UNCHANGED reviews,
           \A r \in DOMAIN reviews : proposals'[r] = proposals[r],
           \A n \in DOMAIN navs : n \in DOMAIN navs' /\ navs'[n] = navs[n]
    PROVE  \A s \in Sessions : WithinLimits(Tables, s)'
<1> SUFFICES ASSUME NEW s \in Sessions PROVE WithinLimits(Tables, s)'
  OBVIOUS
<1>1. WithinLimits(Tables, s) /\ BookSound /\ IdsSound(Tables) /\ Named(Tables)
  BY DEF LimitsInv, Limited, AtomicInv, LedgerInv, Apart, Whole
<1>2. IsFiniteSet(DOMAIN reviews)
  BY <1>1, RowsAreFew
<1>3. \A r \in OfSession(DOMAIN reviews, s) : reviews'[r] = reviews[r] /\ proposals'[r] = proposals[r]
  BY DEF OfSession
<1>4. OfSession(DOMAIN reviews', s) = OfSession(DOMAIN reviews, s)
  OBVIOUS
<1> QED BY <1>1, <1>2, <1>3, <1>4, LimitsKept

LEMMA SettleLimits ==
    ASSUME LimitsInv, At("settle"), NEW o \in Pending, SettleOrder(o)
    PROVE  Limited(Tables)' /\ OpenInSession'
<1>1. Settling /\ IdsSound(Tables) /\ Named(Tables)
  BY DEF LimitsInv, Limited, AtomicInv, Apart, Progress, At, InCycle
<1>2. \A x \in DOMAIN orders : x[1] # run.session
  BY <1>1 DEF Settling, IdsSound, Tables, OfSession
<1>3. UNCHANGED <<decisions, proposals, reviews, orders, navs>> /\ run'.session = run.session
  BY DEF SettleOrder, AppendFill, chain, GoTo
<1>4. Named(Tables)'
  BY <1>1, <1>3 DEF Named, Tables
<1>5. \A s \in Sessions : WithinLimits(Tables, s)'
  BY <1>3, QuietLimits
<1> QED BY <1>2, <1>3, <1>4, <1>5 DEF Limited, OpenInSession

LEMMA SnapshotLimits ==
    ASSUME LimitsInv, InCycle, NEW n, NEW row, AppendNavSnapshot(n, row), run'.session = run.session
    PROVE  Limited(Tables)' /\ OpenInSession'
<1>1. Named(Tables) /\ OpenInSession
  BY DEF LimitsInv, Limited, OpenInSession
<1>2. UNCHANGED <<decisions, proposals, reviews, orders, orderEvents>>
  BY DEF AppendNavSnapshot, chain
<1>3. n \notin DOMAIN navs /\ navs' = Put(navs, n, row)
  BY SubmitInserted DEF AppendNavSnapshot, NavOutcome
<1>4. \A m \in DOMAIN navs : m \in DOMAIN navs' /\ navs'[m] = navs[m]
  BY <1>3 DEF Put
<1>5. \A s \in Sessions : WithinLimits(Tables, s)'
  BY <1>2, <1>4, QuietLimits
<1> QED BY <1>1, <1>2, <1>5 DEF Limited, OpenInSession, Open, Named, Tables

LEMMA DecideLimits ==
    ASSUME LimitsInv, NEW answer, Decide(answer)
    PROVE  Limited(Tables)' /\ OpenInSession'
<1>1. Named(Tables) /\ OpenInSession
  BY DEF LimitsInv, Limited, OpenInSession, Decide, At, InCycle
<1>2. PICK action : AppendAgentDecision(Id, DecisionRow(action))
  BY DEF Decide
<1>3. /\ decisions' = Put(decisions, Id, DecisionRow(action))
      /\ UNCHANGED <<proposals, reviews, orders, orderEvents, navs>>
  BY <1>2 DEF AppendAgentDecision
<1>4. run'.session = run.session
  BY DEF Decide, GoTo, Rest, Running
<1>5. Id[1] = run.session /\ DecisionRow(action).created_at = CycleAt(run.session)
  BY DEF Id, DecisionRow, Now
<1>6. \A d \in DOMAIN decisions' : decisions'[d].created_at = CycleAt(d[1])
  BY <1>1, <1>3, <1>5 DEF Put, Named, Tables
<1>7. \A s \in Sessions : WithinLimits(Tables, s)'
  BY <1>3, QuietLimits
<1> QED BY <1>1, <1>3, <1>4, <1>6, <1>7 DEF Limited, OpenInSession, Open, Named, Tables

LEMMA ProposeLimits ==
    ASSUME LimitsInv, Propose
    PROVE  Limited(Tables)' /\ OpenInSession'
<1>1. Named(Tables) /\ OpenInSession /\ BookSound /\ IdsSound(Tables)
  BY DEF LimitsInv, Limited, OpenInSession, AtomicInv, LedgerInv, Apart, Propose, At, InCycle
<1>2. PICK row : row = ProposalRow(Id, SideOf(decisions[Id].action), run.target, Id, Now)
  OBVIOUS
<1>3. /\ Id \notin DOMAIN proposals /\ proposals' = Put(proposals, Id, row)
      /\ UNCHANGED <<decisions, reviews, orders, orderEvents, navs>>
  BY <1>2, SubmitInserted DEF Propose, AppendOrderProposal, ProposalOutcome
<1>4. run'.session = run.session
  BY DEF Propose, GoTo, Running
<1>5. row.decision = Id
  BY <1>2 DEF ProposalRow
<1>6. \A p \in DOMAIN proposals' : proposals'[p].decision = p
  BY <1>1, <1>3, <1>5 DEF Put, Named, Tables
<1>7. \A r \in DOMAIN reviews : proposals'[r] = proposals[r]
  BY <1>1, <1>3, RowsAreFew DEF Put
<1>8. \A s \in Sessions : WithinLimits(Tables, s)'
  BY <1>3, <1>7, QuietLimits
<1> QED BY <1>1, <1>3, <1>4, <1>6, <1>8 DEF Limited, OpenInSession, Open, Named, Tables

LEMMA ReviewKeepsLimits ==
    ASSUME LimitsInv, ReviewProposal
    PROVE  Limited(Tables)' /\ OpenInSession'
<1>1. Named(Tables) /\ OpenInSession /\ At("review") /\ BookSound /\ IdsSound(Tables)
  BY DEF LimitsInv, Limited, OpenInSession, AtomicInv, LedgerInv, Apart, ReviewProposal, At, InCycle
<1>2. PICK request : request = RiskRequest /\ RequestValid(request)
  BY DEF ReviewProposal, Reviewable
<1>3. PICK result : result = EvaluateRisk(request)
  OBVIOUS
<1>4. /\ run'.session = run.session
      /\ \/ UNCHANGED ledger
         \/ result.verdict # "NO_OP" /\ AppendRiskReview(Id, ReviewRow(result))
  BY <1>2, <1>3 DEF ReviewProposal, GoTo, Rest, Running
<1>5. CASE UNCHANGED ledger
  <2>1. UNCHANGED <<decisions, proposals, reviews, orders, orderEvents, navs>>
    BY <1>5 DEF ledger, chain
  <2>2. \A s \in Sessions : WithinLimits(Tables, s)'
    BY <2>1, QuietLimits
  <2> QED BY <1>1, <1>4, <2>1, <2>2 DEF Limited, OpenInSession, Open, Named, Tables
<1>6. CASE result.verdict # "NO_OP" /\ AppendRiskReview(Id, ReviewRow(result))
  <2>0. PICK id : id = Id
    OBVIOUS
  <2>1. /\ reviews' = Put(reviews, Id, ReviewRow(result)) /\ Id \notin DOMAIN reviews
        /\ UNCHANGED <<decisions, proposals, orders, orderEvents, navs>>
    BY <1>6, SubmitInserted DEF AppendRiskReview, ReviewOutcome
  <2>2. ReviewRow(result).proposal = Id
    BY DEF ReviewRow
  <2>3. Named(Tables)'
    BY <1>1, <2>1, <2>2 DEF Named, Tables, Put
  <2>4. ASSUME NEW s \in Sessions PROVE WithinLimits(Tables, s)'
    <3>1. CASE s = run.session
      BY <1>1, <1>2, <1>3, <1>6, <3>1, ReviewLimits
    <3>2. CASE s # run.session
      <4>1. id[1] # s /\ reviews' = Put(reviews, id, ReviewRow(result))
        BY <2>0, <2>1, <3>2 DEF Id
      <4>2. OfSession(DOMAIN reviews', s) = OfSession(DOMAIN reviews, s)
        BY <4>1 DEF OfSession, Put
      <4>3. \A r \in OfSession(DOMAIN reviews, s) :
              reviews'[r] = reviews[r] /\ proposals'[r] = proposals[r]
        BY <2>1, <4>1 DEF OfSession, Put
      <4>4. WithinLimits(Tables, s) /\ IsFiniteSet(DOMAIN reviews)
        BY <1>1, RowsAreFew DEF LimitsInv, Limited
      <4> QED BY <2>1, <4>2, <4>3, <4>4, LimitsKept
    <3> QED BY <3>1, <3>2
  <2> QED BY <1>1, <1>4, <2>1, <2>3, <2>4 DEF Limited, OpenInSession, Open
<1> QED BY <1>4, <1>5, <1>6

LEMMA OrderLimits ==
    ASSUME LimitsInv, PlaceOrder
    PROVE  Limited(Tables)' /\ OpenInSession'
<1>1. Named(Tables) /\ OpenInSession /\ LedgerInv /\ InCycle /\ run.left # << >>
  BY DEF LimitsInv, Limited, OpenInSession, AtomicInv, LedgerInv, RunTyped, PlaceOrder, At, InCycle
<1>2. PICK row : row = OrderRow(Id, Id, Now)
  OBVIOUS
<1>3. PICK entry : entry = Entry("emitted", "ACCEPTED", Now)
  OBVIOUS
<1>4. /\ orders' = Put(orders, Id, row) /\ UNCHANGED <<decisions, proposals, reviews, navs>>
      /\ orderEvents' = [orderEvents EXCEPT ![Id] = <<entry>>]
  BY <1>2, <1>3 DEF PlaceOrder, AppendOrder
<1>5. run'.session = run.session /\ Id[1] = run.session /\ row.created_at = CycleAt(run.session)
  BY <1>2 DEF PlaceOrder, GoTo, Rest, Running, Id, OrderRow, Now
<1>6. \A o \in DOMAIN orders' : orders'[o].created_at = CycleAt(o[1])
  BY <1>1, <1>4, <1>5 DEF Put, Named, Tables
<1>0. PICK id : id = Id
  OBVIOUS
<1>7. OpenInSession'
  <2> SUFFICES ASSUME NEW o \in DOMAIN orders', o[1] = run.session PROVE Open(o)'
    BY <1>5 DEF OpenInSession
  <2>1. CASE o = id
    <3>1. id \in OrderIds /\ orderEvents \in [OrderIds -> Seq(Event)]
      BY <1>0, <1>1, NextSymbol, RowIds DEF LedgerInv, BookSound, TypeOK
    <3>2. orderEvents'[o] = <<entry>> /\ entry.type = "ACCEPTED"
      BY <1>0, <1>3, <1>4, <2>1, <3>1 DEF Entry
    <3>3. /\ Len(<<entry>>) = 1 /\ <<entry>>[1] = entry
      OBVIOUS
    <3> QED BY <3>2, <3>3 DEF Open
  <2>2. CASE o # id
    <3>1. o \in DOMAIN orders /\ orderEvents'[o] = orderEvents[o]
      <4>1. o \in DOMAIN orders /\ o \in OrderIds /\ orderEvents \in [OrderIds -> Seq(Event)]
        BY <1>0, <1>1, <1>4, <2>2 DEF Put, LedgerInv, BookSound, TypeOK, IsTable
      <4> QED BY <1>0, <1>4, <2>2, <4>1
    <3> QED BY <1>1, <3>1 DEF Open, OpenInSession
  <2> QED BY <2>1, <2>2
<1>8. \A s \in Sessions : WithinLimits(Tables, s)'
  BY <1>4, QuietLimits
<1> QED BY <1>1, <1>4, <1>6, <1>7, <1>8 DEF Limited, Named, Tables

LEMMA GoesOnLimits ==
    ASSUME LimitsInv, GoesOn
    PROVE  Limited(Tables)' /\ OpenInSession'
<1>1. InCycle /\ run'.session = run.session
  BY GoesOnInside DEF Inside
<1>2. SnapshotFill => Limited(Tables)' /\ OpenInSession'
  <2> SUFFICES ASSUME SnapshotFill PROVE Limited(Tables)' /\ OpenInSession'
    OBVIOUS
  <2>1. PICK n, row : AppendNavSnapshot(n, row)
    BY DEF SnapshotFill
  <2> QED BY <1>1, <2>1, SnapshotLimits
<1>3. Marking => Limited(Tables)' /\ OpenInSession'
  <2> SUFFICES ASSUME Marking PROVE Limited(Tables)' /\ OpenInSession'
    OBVIOUS
  <2>1. PICK n, row : AppendNavSnapshot(n, row)
    BY DEF Marking
  <2> QED BY <1>1, <2>1, SnapshotLimits
<1> QED BY <1>2, <1>3, SettleLimits, DecideLimits, ProposeLimits, ReviewKeepsLimits, OrderLimits
        DEF GoesOn, Settle

LEMMA SameTables ==
    ASSUME NEW t, NEW u, Limited(t),
           /\ u.decisions = t.decisions /\ u.proposals = t.proposals /\ u.reviews = t.reviews
           /\ u.orders = t.orders /\ u.navs = t.navs
    PROVE  Limited(u)
<1>1. Named(u)
  BY DEF Limited, Named
<1>2. ASSUME NEW s \in Sessions PROVE WithinLimits(u, s)
  <2>1. ApprovedOf(u, s) = ApprovedOf(t, s)
    BY DEF ApprovedOf
  <2>2. BoughtOf(u, s) = BoughtOf(t, s)
    BY <2>1 DEF BoughtOf
  <2>3. SpentOf(u, s) = SpentOf(t, s)
    BY <2>2 DEF SpentOf
  <2>4. WithinLimits(t, s)
    BY <1>2 DEF Limited
  <2> QED BY <2>1, <2>2, <2>3, <2>4 DEF WithinLimits
<1> QED BY <1>1, <1>2 DEF Limited

LEMMA LimitsStep ==
    ASSUME LimitsInv, [CycleNext]_vars
    PROVE  LimitsInv'
<1>1. AtomicInv' /\ Limited(Tables)
  BY AtomicStep DEF LimitsInv
<1>2. PICK t, u, past, later : t = Tables /\ u = Tables' /\ past = saved /\ later = saved'
  OBVIOUS
<1>3. /\ t.decisions = decisions /\ t.proposals = proposals /\ t.reviews = reviews
      /\ t.orders = orders /\ t.navs = navs
      /\ u.decisions = decisions' /\ u.proposals = proposals' /\ u.reviews = reviews'
      /\ u.orders = orders' /\ u.navs = navs'
  BY <1>2 DEF Tables
<1>4. Limited(t) /\ (InCycle => Limited(past))
  BY <1>1, <1>2 DEF LimitsInv
<1>5. /\ Limited(u) => Limited(Tables)'
      /\ Limited(later) => Limited(saved)'
  BY <1>2
<1>6. UNCHANGED chain /\ navs' = navs => Limited(Tables)'
  BY <1>3, <1>4, <1>5, SameTables DEF chain
<1>7. ASSUME NEW s \in Sessions, NEW mode, NEW closes, NEW offsets,
             Begin(s, mode, closes, offsets)
      PROVE  LimitsInv'
  <2>1. /\ ~InCycle /\ saved' = Tables /\ UNCHANGED ledger /\ commits[s] = "none"
        /\ run'.session = s
    BY <1>7 DEF Begin, GoTo, At, InCycle
  <2>2. Limited(Tables)' /\ Limited(saved)'
    BY <1>2, <1>4, <1>5, <1>6, <2>1 DEF ledger
  <2>3. OpenInSession'
    <3>1. Absent(Tables, s)
      BY <2>1 DEF LimitsInv, AtomicInv, Whole, Recorded
    <3>2. \A o \in DOMAIN orders : o[1] # s
      BY <3>1 DEF Absent, Tables, OfSession
    <3> QED BY <2>1, <3>2 DEF OpenInSession, ledger, chain
  <2> QED BY <1>1, <2>2, <2>3 DEF LimitsInv
<1>8. ASSUME GoesOn PROVE LimitsInv'
  <2>1. InCycle /\ saved' = saved
    BY <1>8, GoesOnInside DEF Inside
  <2>2. Limited(saved)'
    BY <1>2, <1>4, <1>5, <2>1
  <2> QED BY <1>1, <1>8, <2>2, GoesOnLimits DEF LimitsInv
<1>9. ASSUME RollsBack PROVE LimitsInv'
  <2>1. InCycle /\ Rollback /\ ~InCycle'
    BY <1>9, RollsBackRestores DEF InCycle, Idle
  <2>2. Limited(Tables)'
    BY <1>2, <1>3, <1>4, <1>5, <2>1, SameTables DEF Rollback
  <2> QED BY <1>1, <2>1, <2>2 DEF LimitsInv
<1>10. ASSUME ~InCycle', UNCHANGED chain, navs' = navs PROVE LimitsInv'
  BY <1>1, <1>6, <1>10 DEF LimitsInv
<1>11. Commit \/ Alert => ~InCycle' /\ UNCHANGED <<chain, navs>>
  BY DEF Commit, Alert, GoTo, InCycle, Idle, ledger
<1>12. Operator => ~InCycle' /\ UNCHANGED <<chain, navs>>
  BY DEF Operator, cycle, InCycle, AppendKillSwitchEvent, AppendAccountEvent
<1>13. run' = Idle => ~InCycle'
  BY DEF InCycle, Idle
<1>14. ASSUME UNCHANGED <<ledger, run, saved, commits, alerts>> PROVE LimitsInv'
  <2>1. Limited(Tables)'
    BY <1>6, <1>14 DEF ledger
  <2>2. InCycle => Limited(saved)'
    BY <1>2, <1>4, <1>5, <1>14
  <2>3. InCycle => OpenInSession'
    BY <1>14 DEF LimitsInv, OpenInSession, Open, ledger, chain
  <2> QED BY <1>1, <1>14, <2>1, <2>2, <2>3 DEF LimitsInv, InCycle
<1>15. UNCHANGED ledger => UNCHANGED <<chain, navs>>
  BY DEF ledger
<1> QED BY CycleSteps, <1>7, <1>8, <1>9, <1>10, <1>11, <1>12, <1>13, <1>14, <1>15

LEMMA LimitsStart == CycleInit => LimitsInv
<1> SUFFICES ASSUME CycleInit PROVE LimitsInv
  OBVIOUS
<1>1. AtomicInv /\ ~InCycle
  BY AtomicStarts DEF CycleInit, Idle, InCycle
<1>2. DOMAIN reviews = {} /\ DOMAIN proposals = {} /\ DOMAIN decisions = {} /\ DOMAIN orders = {}
  BY DEF CycleInit
<1>3. \A s : ApprovedOf(Tables, s) = {} /\ BoughtOf(Tables, s) = {}
  BY <1>2 DEF ApprovedOf, BoughtOf, OfSession, Tables
<1>4. \A s \in Sessions : WithinLimits(Tables, s)
  BY <1>3, FS_EmptySet, PolicyAssumption DEF WithinLimits
<1> QED BY <1>1, <1>2, <1>4 DEF LimitsInv, Limited, Named, Tables

(* However many symbols a session reviews, in either mode: what it         *)
(* approves together is paid by the cash and within the aggregate cap and  *)
(* the daily number of orders, because every review sees the earlier ones. *)
THEOREM SessionsWithinLimits == CycleSpec => []SessionWithinLimits
<1>1. LimitsInv => SessionWithinLimits
  <2> SUFFICES ASSUME LimitsInv PROVE SessionWithinLimits
    OBVIOUS
  <2>1. ASSUME NEW s \in Sessions
        PROVE  Cardinality(ApprovedIn(s)) <= DailyOrderCap /\ (BoughtIn(s) # {} => WithinBook(s))
    <3>1. /\ ApprovedOf(Tables, s) = ApprovedIn(s) /\ BoughtOf(Tables, s) = BoughtIn(s)
          /\ BoughtIn(s) \in SUBSET DOMAIN reviews
      BY DEF ApprovedOf, ApprovedIn, BoughtOf, BoughtIn, OfSession, Tables
    <3>2. SpentOf(Tables, s) = Spend(s)
      <4>1. Tables.reviews = reviews
        BY DEF Tables
      <4> QED BY <3>1, <4>1, CostIsSum DEF SpentOf, Spend
    <3>3. WithinLimits(Tables, s) /\ TypeOK /\ Tables.navs = navs
      BY <2>1 DEF LimitsInv, Limited, AtomicInv, LedgerInv, BookSound, Tables
    <3>4. ASSUME <<s, "cycle">> \in DOMAIN navs
          PROVE  MarksOf(navs[<<s, "cycle">>]) = MarkedValue(navs[<<s, "cycle">>])
      BY <3>3, <3>4, MarksAreNatural
    <3> QED BY <3>1, <3>2, <3>3, <3>4 DEF WithinLimits, WithinBook, NavValue
  <2> QED BY <2>1 DEF SessionWithinLimits
<1> QED BY <1>1, LimitsStart, LimitsStep, PTL DEF CycleSpec
-----------------------------------------------------------------------------
(***************************************************************************)
(* The cycle implements PaperBook.  Inside a transaction the account that  *)
(* others see is the one of BEGIN IMMEDIATE; what the transaction has      *)
(* moved so far is the sum over the orders it has already settled of the   *)
(* queue it found.                                                         *)
(***************************************************************************)
Waiting(row) == [session |-> SessionOf(row.created_at), symbol |-> row.symbol,
                 side |-> row.side, quantity |-> row.quantity]
OpenIn(theOrders, theEvents) ==
    {o \in DOMAIN theOrders : theEvents[o][Len(theEvents[o])].type = "ACCEPTED"}
Queued(theOrders, ids) == {Waiting(theOrders[o]) : o \in ids}

(* What a queued order moves when it is executed. *)
GrossBy(q, closes) == FillPrice(q.side, closes[q.symbol]) * q.quantity
ChargeBy(q, closes) == Fee(GrossBy(q, closes)) + Tax(q.side, GrossBy(q, closes))
MovedBy(q, closes) ==
    IF q.side = "BUY" THEN -GrossBy(q, closes) - ChargeBy(q, closes)
                      ELSE GrossBy(q, closes) - ChargeBy(q, closes)
SharesBy(q, s) == IF q.symbol # s THEN 0 ELSE IF q.side = "BUY" THEN q.quantity ELSE -q.quantity
CashOf(Q, closes) == [q \in Q |-> MovedBy(q, closes)]
StockOf(Q, s)     == [q \in Q |-> SharesBy(q, s)]

Backlog  == OpenIn(saved.orders, saved.orderEvents)
Still    == OpenIn(orders, orderEvents)
Executed == Queued(saved.orders, Backlog \ Still)

(* No table is short, and the rows of a symbol carry its name.             *)
Long(t) == /\ t.cash[TheAccount][MaxTime] >= 0
           /\ \A s \in Symbols : t.position[TheAccount][s][MaxTime] >= 0
SymbolsNamed(t) == /\ \A d \in DOMAIN t.decisions : t.decisions[d].symbol = d[2]
                   /\ \A o \in DOMAIN t.orders : t.orders[o].symbol = o[2]

Settlement ==
    /\ \A o \in DOMAIN saved.orders : o \in DOMAIN orders /\ orders[o] = saved.orders[o]
    /\ \A o \in Still : o \in Backlog \/ o[1] = run.session
    /\ run.mode = "shadow" => orders = saved.orders /\ orderEvents = saved.orderEvents
    /\ run.mode = "fills" /\ run.stage \notin {"settle", "fill_nav"} => Still \cap Backlog = {}
    /\ CashBalance(TheAccount) = saved.cash[TheAccount][MaxTime]
                                   + SumFunctionOnSet(CashOf(Executed, run.closes), Executed)
    /\ \A s \in Symbols :
         Position(TheAccount, s) = saved.position[TheAccount][s][MaxTime]
                                     + SumFunctionOnSet(StockOf(Executed, s), Executed)

BookInv ==
    /\ LimitsInv
    /\ Long(Tables) /\ SymbolsNamed(Tables)
    /\ InCycle => Long(saved) /\ SymbolsNamed(saved) /\ Settlement

(* Integers. *)
LEMMA RoundingType ==
    ASSUME NEW side \in Sides, NEW reference \in Nat, NEW quantity \in Nat
    PROVE  /\ FillPrice(side, reference) \in Nat
           /\ Fee(FillPrice(side, reference) * quantity) \in Nat
           /\ Tax(side, FillPrice(side, reference) * quantity) \in Nat
<1>1. FillPrice("SELL", reference) \in Nat
  BY RoundedAgainstAccount
<1>2. FillPrice("BUY", reference) \in Nat
  <2>1. reference * SlippageBps \in Nat
    BY ProductInNat
  <2>2. CeilDiv(reference * SlippageBps, 10000) \in Nat
    BY <2>1, CeilLemma
  <2> QED BY <2>2 DEF FillPrice, SlipPerShare
<1>3. PICK price \in Nat : price = FillPrice(side, reference)
  BY <1>1, <1>2 DEF Sides
<1>4. PICK gross \in Nat : gross = price * quantity
  OBVIOUS
<1>5. gross * FeeBps \in Nat /\ gross * SellTaxBps \in Nat
  BY ProductInNat
<1>6. CeilDiv(gross * FeeBps, 10000) \in Nat /\ CeilDiv(gross * SellTaxBps, 10000) \in Nat
  BY <1>5, CeilLemma
<1>7. Fee(gross) \in Nat /\ Tax(side, gross) \in Nat
  BY <1>6 DEF Fee, Tax
<1> QED BY <1>3, <1>4, <1>7

LEMMA MovedIsInt ==
    ASSUME NEW q, NEW closes, q.side \in Sides, q.quantity \in Nat, closes[q.symbol] \in Nat
    PROVE  /\ MovedBy(q, closes) \in Int
           /\ \A s : SharesBy(q, s) \in Int
<1>1. PICK price \in Nat : price = FillPrice(q.side, closes[q.symbol])
  BY RoundingType
<1>2. PICK fee \in Nat, tax \in Nat : fee = Fee(GrossBy(q, closes)) /\ tax = Tax(q.side, GrossBy(q, closes))
  BY RoundingType DEF GrossBy
<1>3. GrossBy(q, closes) \in Nat
  BY <1>1 DEF GrossBy
<1> QED BY <1>2, <1>3 DEF MovedBy, ChargeBy, SharesBy

(* An order is open exactly while its last event is its acceptance. *)
LEMMA OpenIsLast ==
    ASSUME BookSound
    PROVE  Still = Pending
<1> SUFFICES ASSUME NEW o \in DOMAIN orders
             PROVE  Open(o) <=> orderEvents[o][Len(orderEvents[o])].type = "ACCEPTED"
  BY DEF Still, OpenIn, Pending
<1>1. LifeOf(o) /\ orderEvents[o] \in Seq(Event)
  BY DEF BookSound, OrderLifecycle, TypeOK, IsTable
<1>2. PICK log \in Seq(Event) : log = orderEvents[o]
  BY <1>1
<1>3. /\ log # << >> /\ Len(log) <= 2
      /\ \A i \in 1 .. Len(log) : IF i = 1 THEN log[i].type = "ACCEPTED"
           ELSE log[i].type \in {"FILLED", "CANCELLED", "EXPIRED"}
  BY <1>1, <1>2 DEF LifeOf
<1>0. Len(log) \in {1, 2}
  <2>1. PICK n \in Nat : n = Len(log) /\ n <= 2 /\ n # 0
    BY <1>2, <1>3
  <2>2. n = 1 \/ n = 2
    BY <2>1
  <2> QED BY <2>1, <2>2
<1>4. CASE Len(log) = 1
  BY <1>2, <1>3, <1>4 DEF Open
<1>5. CASE Len(log) = 2
  BY <1>2, <1>3, <1>5 DEF Open
<1> QED BY <1>0, <1>4, <1>5

(* Orders of different names wait as different orders, finitely many. *)
LEMMA SessionOfCycle ==
    ASSUME NEW s \in Sessions
    PROVE  SessionOf(CycleAt(s)) = s
  BY Instants

LEMMA QueueOfOrders ==
    ASSUME NEW table, NEW ids \in SUBSET DOMAIN table, DOMAIN table \subseteq Sessions \X Symbols,
           \A o \in DOMAIN table : /\ table[o] \in Order
                                   /\ table[o].symbol = o[2] /\ table[o].created_at = CycleAt(o[1])
    PROVE  /\ \A o, p \in DOMAIN table : Waiting(table[o]) = Waiting(table[p]) => o = p
           /\ IsFiniteSet(Queued(table, ids))
           /\ \A q \in Queued(table, ids) :
                q.side \in Sides /\ q.quantity \in Nat /\ q.symbol \in Symbols
<1>1. ASSUME NEW o \in DOMAIN table
      PROVE  /\ Waiting(table[o]).session = o[1] /\ Waiting(table[o]).symbol = o[2]
             /\ o = <<o[1], o[2]>>
             /\ Waiting(table[o]).side \in Sides /\ Waiting(table[o]).quantity \in Nat
             /\ Waiting(table[o]).symbol \in Symbols
  <2>1. o \in Sessions \X Symbols
    OBVIOUS
  <2>2. /\ Waiting(table[o]).session = SessionOf(table[o].created_at)
        /\ Waiting(table[o]).symbol = table[o].symbol
        /\ Waiting(table[o]).side = table[o].side /\ Waiting(table[o]).quantity = table[o].quantity
    BY DEF Waiting
  <2>3. table[o].side \in Sides /\ table[o].quantity \in Nat /\ table[o].symbol \in Symbols
    BY DEF Order
  <2>4. SessionOf(table[o].created_at) = o[1]
    BY <2>1, SessionOfCycle
  <2> QED BY <2>1, <2>2, <2>3, <2>4
<1>2. \A o, p \in DOMAIN table : Waiting(table[o]) = Waiting(table[p]) => o = p
  <2> SUFFICES ASSUME NEW o \in DOMAIN table, NEW p \in DOMAIN table,
                      Waiting(table[o]) = Waiting(table[p])
               PROVE  o = p
    OBVIOUS
  <2>1. o[1] = p[1] /\ o[2] = p[2]
    BY <1>1
  <2> QED BY <1>1, <2>1
<1>3. IsFiniteSet(Queued(table, ids))
  <2>1. IsFiniteSet(ids)
    <3>1. ids \in SUBSET (Sessions \X Symbols)
      OBVIOUS
    <3> QED BY <3>1, FinitelyManyIds, FS_Subset
  <2>2. [o \in ids |-> Waiting(table[o])] \in Surjection(ids, Queued(table, ids))
    BY DEF Surjection, Queued
  <2> QED BY <2>1, <2>2, FS_Surjection
<1>4. \A q \in Queued(table, ids) : \E o \in DOMAIN table : q = Waiting(table[o])
  BY DEF Queued
<1> QED BY <1>1, <1>2, <1>3, <1>4

(* One more executed order adds what it moves. *)
LEMMA ExecutedOneMore ==
    ASSUME NEW Q, IsFiniteSet(Q), NEW q, q \notin Q, NEW closes,
           \A p \in Q \cup {q} : /\ p.side \in Sides /\ p.quantity \in Nat
                                 /\ p.symbol \in Symbols /\ closes[p.symbol] \in Nat
    PROVE  /\ SumFunctionOnSet(CashOf(Q \cup {q}, closes), Q \cup {q})
                = SumFunctionOnSet(CashOf(Q, closes), Q) + MovedBy(q, closes)
           /\ \A s : SumFunctionOnSet(StockOf(Q \cup {q}, s), Q \cup {q})
                       = SumFunctionOnSet(StockOf(Q, s), Q) + SharesBy(q, s)
           /\ SumFunctionOnSet(CashOf(Q, closes), Q) \in Int
           /\ \A s : SumFunctionOnSet(StockOf(Q, s), Q) \in Int
<1> DEFINE All == Q \cup {q}
<1>1. \A p \in All : MovedBy(p, closes) \in Int /\ \A s : SharesBy(p, s) \in Int
  BY MovedIsInt
<1>2. \A p \in All : CashOf(All, closes)[p] = MovedBy(p, closes)
  BY DEF CashOf
<1>3. \A p \in Q : CashOf(Q, closes)[p] = MovedBy(p, closes)
  BY DEF CashOf
<1>4. SumFunctionOnSet(CashOf(All, closes), Q) = SumFunctionOnSet(CashOf(Q, closes), Q)
  <2>1. \A p \in Q : CashOf(All, closes)[p] = CashOf(Q, closes)[p]
    BY <1>2, <1>3
  <2> QED BY <2>1, SumOfEqual
<1>5. SumFunctionOnSet(CashOf(All, closes), All)
        = SumFunctionOnSet(CashOf(All, closes), Q) + CashOf(All, closes)[q]
  <2>1. \A p \in Q \cup {q} : CashOf(All, closes)[p] \in Int
    BY <1>1, <1>2
  <2> QED BY <2>1, SumWith
<1>6. ASSUME NEW s
      PROVE  /\ SumFunctionOnSet(StockOf(All, s), All)
                  = SumFunctionOnSet(StockOf(Q, s), Q) + SharesBy(q, s)
             /\ SumFunctionOnSet(StockOf(Q, s), Q) \in Int
  <2>1. \A p \in All : StockOf(All, s)[p] = SharesBy(p, s)
    BY DEF StockOf
  <2>2. \A p \in Q : StockOf(Q, s)[p] = SharesBy(p, s)
    BY DEF StockOf
  <2>3. SumFunctionOnSet(StockOf(All, s), Q) = SumFunctionOnSet(StockOf(Q, s), Q)
    BY SMTT(40), <2>1, <2>2, SumOfEqual
  <2>4. \A p \in Q \cup {q} : StockOf(All, s)[p] \in Int
    BY <1>1, <2>1
  <2>5. SumFunctionOnSet(StockOf(All, s), All)
          = SumFunctionOnSet(StockOf(All, s), Q) + StockOf(All, s)[q]
    BY <2>4, SumWith
  <2>6. \A p \in Q : StockOf(Q, s)[p] \in Int
    BY <1>1, <2>2
  <2> QED BY <2>1, <2>3, <2>5, <2>6, SumIsInt
<1>7. SumFunctionOnSet(CashOf(Q, closes), Q) \in Int
  BY <1>1, <1>3, SumIsInt
<1> QED BY <1>2, <1>4, <1>5, <1>6, <1>7

LEMMA LongIsLongOnly == (Long(Tables) <=> LongOnly) /\ (Long(Tables)' <=> LongOnly')
  BY CycleAssumption DEF Long, Tables, LongOnly, CashBalance, Position

(* The queue that a running cycle found. *)
LEMMA FoundQueue ==
    ASSUME BookInv, InCycle
    PROVE  /\ BookSound /\ Still = Pending
           /\ DOMAIN saved.orders \subseteq DOMAIN orders /\ DOMAIN orders \subseteq Sessions \X Symbols
           /\ \A o \in DOMAIN saved.orders : /\ saved.orders[o] = orders[o] /\ saved.orders[o] \in Order
                                             /\ saved.orders[o].symbol = o[2]
                                             /\ saved.orders[o].created_at = CycleAt(o[1])
                                             /\ o[1] # run.session
           /\ \A o, p \in DOMAIN saved.orders :
                Waiting(saved.orders[o]) = Waiting(saved.orders[p]) => o = p
           /\ Backlog \subseteq DOMAIN saved.orders /\ IsFiniteSet(Executed)
           /\ \A o \in DOMAIN saved.orders :
                LET q == Waiting(saved.orders[o]) IN
                q.side \in Sides /\ q.quantity \in Nat /\ q.symbol \in Symbols
           /\ \A q \in Executed : q.side \in Sides /\ q.quantity \in Nat /\ q.symbol \in Symbols
<1>1. BookSound /\ LimitsInv /\ LedgerInv /\ Settlement /\ Named(saved) /\ SymbolsNamed(saved)
  BY DEF BookInv, LimitsInv, Limited, AtomicInv, LedgerInv
<1>2. Still = Pending
  BY <1>1, OpenIsLast
<1>3. DOMAIN saved.orders \subseteq DOMAIN orders /\ DOMAIN orders \subseteq Sessions \X Symbols
  BY <1>1 DEF Settlement, BookSound, OrdersOf
<1>4. commits[run.session] = "none" /\ run.session \in Sessions
  BY <1>1, InCycleMeans DEF LedgerInv, DigestInv
<1>5. Absent(saved, run.session)
  BY <1>1, <1>4 DEF LimitsInv, AtomicInv, Whole, Recorded
<1>6. ASSUME NEW o \in DOMAIN saved.orders
      PROVE  /\ saved.orders[o] = orders[o] /\ saved.orders[o] \in Order
             /\ saved.orders[o].symbol = o[2] /\ saved.orders[o].created_at = CycleAt(o[1])
             /\ o[1] # run.session
  <2>1. saved.orders[o] = orders[o] /\ o \in DOMAIN orders
    BY <1>1 DEF Settlement
  <2>2. orders[o] \in Order
    BY <1>1, <2>1 DEF BookSound, TypeOK, IsTable
  <2>3. o[1] # run.session
    BY <1>5 DEF Absent, OfSession
  <2> QED BY <1>1, <2>1, <2>2, <2>3 DEF Named, SymbolsNamed
<1>7. PICK table : table = saved.orders
  OBVIOUS
<1>8. Backlog \subseteq DOMAIN table
  BY <1>7 DEF Backlog, OpenIn
<1>9. PICK ids, all : ids = Backlog \ Still /\ all = DOMAIN table
  OBVIOUS
<1>10. /\ ids \in SUBSET DOMAIN table /\ all \in SUBSET DOMAIN table
       /\ DOMAIN table \subseteq Sessions \X Symbols
       /\ \A o \in DOMAIN table : /\ table[o] \in Order
                                  /\ table[o].symbol = o[2] /\ table[o].created_at = CycleAt(o[1])
  BY <1>3, <1>6, <1>7, <1>8, <1>9
<1>11. /\ \A o, p \in DOMAIN table : Waiting(table[o]) = Waiting(table[p]) => o = p
       /\ IsFiniteSet(Queued(table, ids))
       /\ \A q \in Queued(table, ids) :
            q.side \in Sides /\ q.quantity \in Nat /\ q.symbol \in Symbols
  BY <1>10, QueueOfOrders
<1>12. \A q \in Queued(table, all) :
            q.side \in Sides /\ q.quantity \in Nat /\ q.symbol \in Symbols
  BY <1>10, QueueOfOrders
<1>13. \A o \in DOMAIN table : Waiting(table[o]) \in Queued(table, all)
  BY <1>9 DEF Queued
<1>14. Executed = Queued(table, ids)
  BY <1>7, <1>9 DEF Executed
<1> QED BY <1>1, <1>2, <1>3, <1>6, <1>7, <1>8, <1>11, <1>12, <1>13, <1>14

LEMMA QuietSettlement ==
    ASSUME BookInv, InCycle, UNCHANGED <<orders, orderEvents, cashAsOf, positionAsOf, saved>>,
           run'.session = run.session, run'.mode = run.mode, run'.closes = run.closes,
           \/ run'.stage \in {"settle", "fill_nav"} \/ run.stage \notin {"settle", "fill_nav"}
           \/ run.mode = "fills" => Pending = {}
    PROVE  Settlement'
<1>1. Still' = Still /\ Backlog' = Backlog
  BY DEF Still, Backlog, OpenIn
<1>2. Executed' = Executed
  BY <1>1 DEF Executed, Queued
<1>3. Settlement /\ Still = Pending
  BY FoundQueue DEF BookInv
<1>4. /\ CashBalance(TheAccount)' = CashBalance(TheAccount)
      /\ \A s \in Symbols : Position(TheAccount, s)' = Position(TheAccount, s)
  BY DEF CashBalance, Position
<1>5. /\ CashOf(Executed, run.closes)' = CashOf(Executed, run.closes)
      /\ \A s \in Symbols : StockOf(Executed, s)' = StockOf(Executed, s)
  BY <1>2
<1>6. (run'.mode = "fills" /\ run'.stage \notin {"settle", "fill_nav"}) => Still' \cap Backlog' = {}
  BY <1>1, <1>3 DEF Settlement
<1>7. /\ \A o \in DOMAIN saved'.orders : o \in DOMAIN orders' /\ orders'[o] = saved'.orders[o]
      /\ \A o \in Still' : o \in Backlog' \/ o[1] = run'.session
      /\ run'.mode = "shadow" => orders' = saved'.orders /\ orderEvents' = saved'.orderEvents
  BY <1>1, <1>3 DEF Settlement
<1>8. /\ CashBalance(TheAccount)' = saved'.cash[TheAccount][MaxTime]
                                   + SumFunctionOnSet(CashOf(Executed, run.closes)', Executed')
      /\ \A s \in Symbols :
           Position(TheAccount, s)' = saved'.position[TheAccount][s][MaxTime]
                                     + SumFunctionOnSet(StockOf(Executed, s)', Executed')
  BY <1>2, <1>3, <1>4, <1>5 DEF Settlement
<1> QED BY <1>6, <1>7, <1>8 DEF Settlement

(***************************************************************************)
(* A share sold for 1 KRW brings less than the two charges that are rounded *)
(* up on it.  With the rates of the markets and no such price, a sale       *)
(* never costs cash.                                                       *)
(***************************************************************************)
ModestCharges ==
    FeeBps + SellTaxBps <= 5000 /\ \A price \in Closes : FillPrice("SELL", price) # 1

LEMMA FillMoves ==
    ASSUME TypeOK, NEW i \in FillIds, NEW o \in OrderIds, NEW price, NEW fee, NEW tax,
           NEW observed_at \in Times, NEW filled_at \in Times,
           AppendFill(i, o, price, fee, tax, observed_at, filled_at),
           NEW row, row = FillRow(o, price, fee, tax, observed_at, filled_at)
    PROVE  /\ CashBalance(TheAccount)' = CashBalance(TheAccount) + CashDelta(row)
           /\ \A s \in Symbols : Position(TheAccount, s)' =
                Position(TheAccount, s) + (IF row.symbol = s THEN PositionDelta(row) ELSE 0)
<1>1. price \in Nat /\ fee \in Nat /\ tax \in Nat /\ o \in DOMAIN orders
  BY SubmitInserted DEF AppendFill, FillOutcome
<1>2. row \in Fill /\ CashDelta(row) \in Int /\ PositionDelta(row) \in Int
  BY <1>1, FillRowType
<1>3. row.account = TheAccount /\ TheAccount \in Accounts /\ row.symbol \in Symbols
  BY <1>2, CycleAssumption DEF Fill
<1>4. /\ cashAsOf' = [cashAsOf EXCEPT ![TheAccount] =
                        Accrue(cashAsOf[TheAccount], filled_at, CashDelta(row))]
      /\ positionAsOf' = [positionAsOf EXCEPT ![TheAccount][row.symbol] =
           Accrue(positionAsOf[TheAccount][row.symbol], filled_at, PositionDelta(row))]
  BY <1>3 DEF AppendFill
<1>5. /\ cashAsOf[TheAccount] \in [Times -> Int]
      /\ \A s \in Symbols : positionAsOf[TheAccount][s] \in [Times -> Int]
  BY <1>3 DEF TypeOK
<1>6. CashBalance(TheAccount)' = CashBalance(TheAccount) + CashDelta(row)
  BY <1>2, <1>3, <1>4, <1>5, AccrueTotal DEF TypeOK, CashBalance
<1>7. ASSUME NEW s \in Symbols
      PROVE  Position(TheAccount, s)' =
               Position(TheAccount, s) + (IF row.symbol = s THEN PositionDelta(row) ELSE 0)
  <2>1. CASE row.symbol = s
    <3>1. Accrue(positionAsOf[TheAccount][s], filled_at, PositionDelta(row))[MaxTime]
            = positionAsOf[TheAccount][s][MaxTime] + PositionDelta(row)
      BY <1>2, <1>5, AccrueTotal
    <3>2. positionAsOf'[TheAccount][s]
            = Accrue(positionAsOf[TheAccount][s], filled_at, PositionDelta(row))
      BY <1>3, <1>4, <2>1 DEF TypeOK
    <3> QED BY <2>1, <3>1, <3>2 DEF Position
  <2>2. CASE row.symbol # s
    <3>1. Position(TheAccount, s)' = Position(TheAccount, s)
      BY <1>3, <1>4, <2>2 DEF TypeOK, Position
    <3>2. Position(TheAccount, s) \in Int
      BY <1>5, TimeAssumption DEF Position, Times
    <3> QED BY <2>2, <3>1, <3>2
  <2> QED BY <2>1, <2>2
<1> QED BY <1>6, <1>7

(* What a fill moves is what its order, waiting in the queue, promises. *)
LEMMA FillOfQueued ==
    ASSUME NEW o \in DOMAIN orders, orders[o] \in Order, NEW seen, NEW q, NEW row,
           q = Waiting(orders[o]), row = FillRow(o, PriceOf(o), FeeOf(o), TaxOf(o), seen, seen),
           Close(q.symbol) \in Nat
    PROVE  /\ CashDelta(row) = MovedBy(q, run.closes)
           /\ \A s : (IF row.symbol = s THEN PositionDelta(row) ELSE 0) = SharesBy(q, s)
<1>1. /\ q.side = orders[o].side /\ q.quantity = orders[o].quantity /\ q.symbol = orders[o].symbol
      /\ row.side = orders[o].side /\ row.quantity = orders[o].quantity
      /\ row.symbol = orders[o].symbol /\ row.price = PriceOf(o)
      /\ row.fee = FeeOf(o) /\ row.tax = TaxOf(o)
  BY DEF Waiting, FillRow
<1>2. q.side \in Sides /\ q.quantity \in Nat
  BY <1>1 DEF Order
<1>3. PriceOf(o) = FillPrice(q.side, run.closes[q.symbol])
  BY <1>1 DEF PriceOf, Close
<1>4. GrossBy(q, run.closes) = GrossOf(o) /\ Gross(row) = GrossOf(o)
  BY <1>1, <1>3 DEF GrossBy, GrossOf, Gross
<1>5. PICK gross, fee, tax : gross = GrossOf(o) /\ fee = FeeOf(o) /\ tax = TaxOf(o)
  OBVIOUS
<1>6. gross \in Nat /\ fee \in Nat /\ tax \in Nat
  <2>1. PICK side \in Sides, reference \in Nat, quantity \in Nat :
          /\ side = q.side /\ reference = run.closes[q.symbol] /\ quantity = q.quantity
    BY <1>2 DEF Close
  <2>2. gross = FillPrice(side, reference) * quantity
    BY <1>1, <1>3, <1>5, <2>1 DEF GrossOf
  <2>3. fee = Fee(gross) /\ tax = Tax(side, gross)
    BY <1>1, <1>5, <2>1 DEF FeeOf, TaxOf
  <2>4. /\ FillPrice(side, reference) \in Nat
        /\ Fee(FillPrice(side, reference) * quantity) \in Nat
        /\ Tax(side, FillPrice(side, reference) * quantity) \in Nat
    BY RoundingType
  <2> QED BY <2>2, <2>3, <2>4
<1>7. ChargeBy(q, run.closes) = fee + tax
  BY <1>1, <1>4, <1>5 DEF ChargeBy, FeeOf, TaxOf
<1>8. CashDelta(row) = (IF q.side = "BUY" THEN -gross ELSE gross) - fee - tax
  BY <1>1, <1>4, <1>5 DEF CashDelta
<1>9. MovedBy(q, run.closes) = IF q.side = "BUY" THEN -gross - (fee + tax) ELSE gross - (fee + tax)
  BY <1>4, <1>5, <1>7 DEF MovedBy
<1>10. \A s : (IF row.symbol = s THEN PositionDelta(row) ELSE 0) = SharesBy(q, s)
  BY <1>1 DEF PositionDelta, SharesBy
<1> QED BY <1>6, <1>8, <1>9, <1>10

LEMMA SettleMoves ==
    ASSUME BookInv, ModestCharges, At("settle"), NEW o \in Pending, SettleOrder(o)
    PROVE  Long(Tables)' /\ SymbolsNamed(Tables)' /\ Settlement'
<1>1. InCycle /\ LedgerInv /\ BookSound /\ Settling /\ IdsSound(Tables) /\ Settlement
      /\ SymbolsNamed(Tables) /\ LongOnly /\ RunTyped
  BY LongIsLongOnly DEF BookInv, LimitsInv, AtomicInv, LedgerInv, Apart, Progress, At, InCycle
<1>2. /\ Still = Pending /\ o \in DOMAIN orders /\ o[1] # run.session
      /\ o \in OrderIds /\ o \in FillIds /\ orders[o] \in Order
  <2>1. o \in DOMAIN orders /\ Still = Pending
    BY <1>1, FoundQueue DEF Pending
  <2>2. o[1] # run.session
    BY <1>1, <2>1 DEF Settling, IdsSound, Tables, OfSession
  <2>3. o \in OrderIds /\ o \in FillIds /\ orders[o] \in Order
    BY <1>1, <2>1, RowIds DEF BookSound, OrdersOf, TypeOK, IsTable
  <2> QED BY <2>1, <2>2, <2>3
<1>3. o \in Backlog /\ o \in Still
  BY <1>1, <1>2 DEF Settlement
<1>4. /\ orders' = orders /\ decisions' = decisions /\ saved' = saved /\ run.mode = "fills"
      /\ run'.stage = "fill_nav" /\ run'.session = run.session /\ run'.mode = run.mode
      /\ run'.closes = run.closes
      /\ AppendFill(o, o, PriceOf(o), FeeOf(o), TaxOf(o), SeenAt(o), SeenAt(o))
  BY DEF SettleOrder, AppendFill, chain, GoTo
<1>5. SeenAt(o) \in Times /\ Close(orders[o].symbol) \in Nat \ {0} /\ Close(orders[o].symbol) \in Closes
  BY <1>1, <1>2, CycleInstants DEF SeenAt, Order, RunTyped, Close
<1>6. Long(Tables)'
  <2>0. orders[o].quantity \in Nat \ {0}
    BY <1>1, <1>2 DEF BookSound, AuthorityChain, OrdersSound, ReviewsSound
  <2>1. PriceOf(o) \in Nat \ {0} /\ orders[o].quantity \in Nat \ {0}
    BY <1>4, <2>0, SubmitInserted DEF AppendFill, FillOutcome
  <2>2. ASSUME orders[o].side = "SELL"
        PROVE  FeeOf(o) + TaxOf(o) <= PriceOf(o) * orders[o].quantity
    <3>1. PriceOf(o) # 1
      BY <1>5, <2>2 DEF ModestCharges, PriceOf
    <3>2. PICK price \in Nat, quantity \in Nat :
            /\ price = PriceOf(o) /\ quantity = orders[o].quantity /\ price >= 2 /\ quantity >= 1
      BY <2>1, <3>1
    <3>3. price * quantity \in Nat /\ price * quantity >= 2
      BY <3>2
    <3>4. PICK gross \in Nat : gross = price * quantity /\ gross >= 2
      BY <3>3
    <3>5. Fee(gross) + Tax("SELL", gross) <= gross
      BY <3>4, ChargesWithinProceeds DEF ModestCharges
    <3>6. GrossOf(o) = gross
      BY <3>2, <3>4 DEF GrossOf
    <3> QED BY <2>2, <3>2, <3>4, <3>5, <3>6 DEF FeeOf, TaxOf
  <2>3. LongOnly'
    BY <1>1, <1>2, <1>4, <1>5, <2>2, FillLongOnly DEF BookSound
  <2> QED BY <2>3, LongIsLongOnly
<1>7. SymbolsNamed(Tables)'
  BY <1>1, <1>4 DEF SymbolsNamed, Tables
<1>8. Still' = Still \ {o} /\ Backlog' = Backlog
  <2>1. PICK entry : entry = Entry("emitted", "FILLED", SeenAt(o))
    OBVIOUS
  <2>2. orderEvents' = [orderEvents EXCEPT ![o] = Append(@, entry)] /\ entry.type = "FILLED"
    BY <1>4, <2>1 DEF AppendFill, Entry
  <2>3. orderEvents \in [OrderIds -> Seq(Event)] /\ DOMAIN orders \subseteq OrderIds
    BY <1>1 DEF BookSound, TypeOK, IsTable
  <2>4. PICK log \in Seq(Event) : log = orderEvents[o] /\ orderEvents'[o] = Append(log, entry)
    BY <1>2, <2>2, <2>3
  <2>5. Append(log, entry)[Len(Append(log, entry))] = entry
    OBVIOUS
  <2>6. orderEvents'[o][Len(orderEvents'[o])].type # "ACCEPTED"
    BY <2>2, <2>4, <2>5
  <2>7. \A p \in DOMAIN orders : p # o => orderEvents'[p] = orderEvents[p]
    BY <2>2, <2>3
  <2>8. Still' = Still \ {o}
    BY <1>4, <2>6, <2>7 DEF Still, OpenIn
  <2> QED BY <1>4, <2>8 DEF Backlog
<1>9. PICK q : q = Waiting(orders[o])
  OBVIOUS
<1>10. /\ q = Waiting(saved.orders[o]) /\ q \notin Executed
       /\ Executed' = Executed \cup {q} /\ IsFiniteSet(Executed)
       /\ \A p \in Executed \cup {q} : /\ p.side \in Sides /\ p.quantity \in Nat
                                       /\ p.symbol \in Symbols
  <2>1. o \in DOMAIN saved.orders /\ saved.orders[o] = orders[o] /\ Backlog \subseteq DOMAIN saved.orders
    BY <1>1, <1>3, FoundQueue
  <2>2. q = Waiting(saved.orders[o])
    BY <1>9, <2>1
  <2>3. \A p, r \in DOMAIN saved.orders :
          Waiting(saved.orders[p]) = Waiting(saved.orders[r]) => p = r
    BY <1>1, FoundQueue
  <2>4. q \notin Executed
    BY <1>3, <2>1, <2>2, <2>3 DEF Executed, Queued
  <2>5. Executed' = Executed \cup {q}
    BY <1>3, <1>4, <1>8, <2>2 DEF Executed, Queued
  <2>6. q.side \in Sides /\ q.quantity \in Nat /\ q.symbol \in Symbols
    BY <1>1, <2>1, <2>2, FoundQueue
  <2>7. IsFiniteSet(Executed)
        /\ \A p \in Executed : p.side \in Sides /\ p.quantity \in Nat /\ p.symbol \in Symbols
    BY <1>1, FoundQueue
  <2> QED BY <2>2, <2>4, <2>5, <2>6, <2>7
<1>11. PICK Q, closes : Q = Executed /\ closes = run.closes
  OBVIOUS
<1>12. /\ IsFiniteSet(Q) /\ q \notin Q
       /\ \A p \in Q \cup {q} : /\ p.side \in Sides /\ p.quantity \in Nat
                               /\ p.symbol \in Symbols /\ closes[p.symbol] \in Nat
  BY <1>1, <1>10, <1>11, CycleInstants DEF Close
<1>13. /\ SumFunctionOnSet(CashOf(Q \cup {q}, closes), Q \cup {q})
                = SumFunctionOnSet(CashOf(Q, closes), Q) + MovedBy(q, closes)
       /\ \A s : SumFunctionOnSet(StockOf(Q \cup {q}, s), Q \cup {q})
                       = SumFunctionOnSet(StockOf(Q, s), Q) + SharesBy(q, s)
       /\ SumFunctionOnSet(CashOf(Q, closes), Q) \in Int
       /\ \A s : SumFunctionOnSet(StockOf(Q, s), Q) \in Int
  BY <1>12, ExecutedOneMore
<1>14. PICK row : row = FillRow(o, PriceOf(o), FeeOf(o), TaxOf(o), SeenAt(o), SeenAt(o))
  OBVIOUS
<1>15. /\ CashBalance(TheAccount)' = CashBalance(TheAccount) + MovedBy(q, closes)
       /\ \A s \in Symbols :
            Position(TheAccount, s)' = Position(TheAccount, s) + SharesBy(q, s)
  <2>1. q.symbol = orders[o].symbol
    BY <1>9 DEF Waiting
  <2>2. /\ CashDelta(row) = MovedBy(q, run.closes)
        /\ \A s : (IF row.symbol = s THEN PositionDelta(row) ELSE 0) = SharesBy(q, s)
    BY <1>2, <1>5, <1>9, <1>14, <2>1, FillOfQueued
  <2> QED BY <1>1, <1>2, <1>4, <1>5, <1>11, <1>14, <2>2, FillMoves DEF BookSound
<1>16. Settlement'
  <2>1. /\ saved'.orders = saved.orders /\ saved'.cash = saved.cash /\ saved'.position = saved.position
        /\ Executed' = Q \cup {q} /\ run'.closes = closes
    BY <1>4, <1>10, <1>11
  <2>2. /\ \A p \in DOMAIN saved'.orders : p \in DOMAIN orders' /\ orders'[p] = saved'.orders[p]
        /\ \A p \in Still' : p \in Backlog' \/ p[1] = run'.session
    BY <1>1, <1>4, <1>8 DEF Settlement
  <2>3. PICK before, moved, all \in Int :
          /\ before = saved.cash[TheAccount][MaxTime]
          /\ moved = MovedBy(q, closes) /\ all = SumFunctionOnSet(CashOf(Q, closes), Q)
          /\ CashBalance(TheAccount) = before + all
          /\ before \in Int /\ moved \in Int
    <3>1. MovedBy(q, closes) \in Int
      BY <1>10, <1>12, MovedIsInt
    <3>2. saved.cash[TheAccount][MaxTime] \in Int
      BY <1>1, CycleAssumption, TimeAssumption DEF LedgerInv, PastSound, Past!TypeOK, Past!Times
    <3> QED BY <1>1, <1>11, <1>13, <3>1, <3>2 DEF Settlement
  <2>4. CashBalance(TheAccount)' = saved'.cash[TheAccount][MaxTime]
                     + SumFunctionOnSet(CashOf(Executed, run.closes)', Executed')
    <3>1. CashBalance(TheAccount)' = before + (all + moved)
      BY <1>15, <2>3
    <3>2. CashOf(Executed, run.closes)' = CashOf(Q \cup {q}, closes)
      BY <2>1 DEF CashOf
    <3> QED BY <1>13, <2>1, <2>3, <3>1, <3>2
  <2>5. ASSUME NEW s \in Symbols
        PROVE  Position(TheAccount, s)' = saved'.position[TheAccount][s][MaxTime]
                     + SumFunctionOnSet(StockOf(Executed, s)', Executed')
    <3>1. PICK held, moves, total \in Int :
            /\ held = saved.position[TheAccount][s][MaxTime]
            /\ moves = SharesBy(q, s) /\ total = SumFunctionOnSet(StockOf(Q, s), Q)
            /\ Position(TheAccount, s) = held + total
            /\ held \in Int /\ moves \in Int
      <4>1. SharesBy(q, s) \in Int
        BY <1>10, <1>12, MovedIsInt
      <4>2. saved.position[TheAccount][s][MaxTime] \in Int
        <5>1. TheAccount \in Accounts /\ MaxTime \in Past!Times
          BY CycleAssumption, TimeAssumption DEF Past!Times
        <5>2. saved.position \in [Accounts -> [Symbols -> [Past!Times -> Int]]]
          BY <1>1 DEF LedgerInv, PastSound, Past!TypeOK
        <5> QED BY <5>1, <5>2
      <4> QED BY <1>1, <1>11, <1>13, <4>1, <4>2 DEF Settlement
    <3>2. Position(TheAccount, s)' = held + (total + moves)
      BY <1>15, <3>1
    <3>3. StockOf(Executed, s)' = StockOf(Q \cup {q}, s)
      BY <2>1 DEF StockOf
    <3> QED BY <1>13, <2>1, <3>1, <3>2, <3>3
  <2> QED BY <1>4, <2>2, <2>4, <2>5 DEF Settlement
<1> QED BY <1>6, <1>7, <1>16

LEMMA GoesOnCloses == GoesOn => run'.closes = run.closes
<1>1. ASSUME NEW o, SettleOrder(o) PROVE run'.closes = run.closes
  BY <1>1 DEF SettleOrder, GoTo
<1>2. SnapshotFill \/ Marking \/ Propose \/ PlaceOrder => run'.closes = run.closes
  BY DEF SnapshotFill, Marking, Propose, PlaceOrder, Rest, GoTo, Running
<1>3. ASSUME NEW answer, Decide(answer) PROVE run'.closes = run.closes
  BY <1>3 DEF Decide, Rest, GoTo, Running
<1>4. ReviewProposal => run'.closes = run.closes
  BY DEF ReviewProposal, Rest, GoTo, Running
<1> QED BY <1>1, <1>2, <1>3, <1>4 DEF GoesOn, Settle

LEMMA NavMoves ==
    ASSUME BookInv, GoesOn, NEW n, NEW nav, AppendNavSnapshot(n, nav),
           \/ run'.stage = "settle"
           \/ run.mode = "fills" => Pending = {}
    PROVE  Long(Tables)' /\ SymbolsNamed(Tables)' /\ Settlement'
<1>1. /\ UNCHANGED <<decisions, orders, orderEvents, cashAsOf, positionAsOf, saved>>
      /\ InCycle /\ run'.session = run.session /\ run'.mode = run.mode /\ run'.closes = run.closes
  BY GoesOnInside, GoesOnCloses DEF Inside, AppendNavSnapshot, chain, balances
<1>2. Settlement'
  BY <1>1, QuietSettlement
<1> QED BY <1>1, <1>2 DEF BookInv, Long, SymbolsNamed, Tables

LEMMA DecideMoves ==
    ASSUME BookInv, GoesOn, NEW answer, Decide(answer)
    PROVE  Long(Tables)' /\ SymbolsNamed(Tables)' /\ Settlement'
<1>1. PICK row : /\ AppendAgentDecision(Id, row) /\ row.symbol = Sym
  BY DEF Decide, DecisionRow
<1>2. PICK id : id = Id /\ id[2] = Sym
  <2>1. Id[2] = Sym
    BY DEF Id
  <2> QED BY <2>1
<1>3. /\ UNCHANGED <<orders, orderEvents, cashAsOf, positionAsOf, saved>>
      /\ decisions' = Put(decisions, id, row)
      /\ InCycle /\ run'.session = run.session /\ run'.mode = run.mode /\ run'.closes = run.closes
      /\ run.stage = "decide"
  BY <1>1, <1>2, GoesOnInside, GoesOnCloses DEF Inside, AppendAgentDecision, balances, Decide, At
<1>4. Settlement'
  BY <1>3, QuietSettlement
<1>5. \A d \in DOMAIN decisions' : decisions'[d].symbol = d[2]
  BY <1>1, <1>2, <1>3 DEF Put, BookInv, SymbolsNamed, Tables
<1> QED BY <1>3, <1>4, <1>5 DEF BookInv, Long, SymbolsNamed, Tables

LEMMA ChainMoves ==
    ASSUME BookInv, Propose \/ ReviewProposal
    PROVE  Long(Tables)' /\ SymbolsNamed(Tables)' /\ Settlement'
<1>1. UNCHANGED <<decisions, orders, orderEvents, cashAsOf, positionAsOf>>
      /\ run.stage \in {"propose", "review"}
  <2>1. CASE Propose
    BY <2>1 DEF Propose, AppendOrderProposal, balances, At
  <2>2. CASE ReviewProposal
    BY <2>2 DEF ReviewProposal, AppendRiskReview, ledger, chain, balances, At
  <2> QED BY <2>1, <2>2
<1>2. /\ saved' = saved /\ InCycle
      /\ run'.session = run.session /\ run'.mode = run.mode /\ run'.closes = run.closes
  BY GoesOnInside, GoesOnCloses DEF Inside, GoesOn
<1>3. Settlement'
  BY <1>1, <1>2, QuietSettlement
<1> QED BY <1>1, <1>3 DEF BookInv, Long, SymbolsNamed, Tables

LEMMA OrderMoves ==
    ASSUME BookInv, PlaceOrder
    PROVE  Long(Tables)' /\ SymbolsNamed(Tables)' /\ Settlement'
<1>1. /\ InCycle /\ LedgerInv /\ BookSound /\ Deciding /\ Named(Tables) /\ Settlement
      /\ SymbolsNamed(Tables) /\ run.stage = "order" /\ run.left # << >>
  BY DEF BookInv, LimitsInv, Limited, AtomicInv, LedgerInv, RunTyped, Progress, PlaceOrder, At, InCycle
<1>2. PICK id, row, entry : /\ id = Id /\ row = OrderRow(Id, Id, Now)
                            /\ entry = Entry("emitted", "ACCEPTED", Now)
  OBVIOUS
<1>3. /\ orders' = Put(orders, id, row) /\ id \notin DOMAIN orders /\ id \in DOMAIN reviews
      /\ orderEvents' = [orderEvents EXCEPT ![id] = <<entry>>] /\ entry.type = "ACCEPTED"
      /\ UNCHANGED <<decisions, cashAsOf, positionAsOf, saved>>
      /\ run'.session = run.session /\ run'.mode = run.mode /\ run'.closes = run.closes
  <2>1. id \notin DOMAIN orders /\ id \in DOMAIN reviews
    BY <1>2, SubmitInserted DEF PlaceOrder, AppendOrder, OrderOutcome
  <2> QED BY <1>2, <2>1 DEF PlaceOrder, AppendOrder, balances, Rest, GoTo, Running, Entry
<1>4. id[1] = run.session /\ id \in OrderIds /\ run.mode = "fills"
  BY <1>1, <1>2, NextSymbol, RowIds DEF Deciding, At
<1>5. row.symbol = id[2]
  <2>1. row.symbol = proposals[reviews[id].proposal].symbol
    BY <1>2 DEF OrderRow
  <2>2. reviews[id].proposal = id /\ id \in DOMAIN proposals
    BY <1>1, <1>3 DEF Named, Tables, BookSound, AuthorityChain, ReviewsSound
  <2>3. proposals[id].decision = id
    BY <1>1, <2>2 DEF Named, Tables
  <2>4. id \in DOMAIN decisions /\ proposals[id].symbol = decisions[id].symbol
    BY <1>1, <2>2, <2>3 DEF BookSound, AuthorityChain, ProposalsSound
  <2> QED BY <1>1, <2>1, <2>2, <2>4 DEF SymbolsNamed, Tables
<1>6. SymbolsNamed(Tables)'
  BY <1>1, <1>3, <1>5 DEF SymbolsNamed, Tables, Put
<1>7. Long(Tables)'
  BY <1>3 DEF BookInv, Long, Tables
<1>8. Still' = Still \cup {id} /\ Backlog' = Backlog
  <2>1. orderEvents \in [OrderIds -> Seq(Event)] /\ DOMAIN orders \subseteq OrderIds
    BY <1>1 DEF BookSound, TypeOK, IsTable
  <2>2. /\ orderEvents'[id] = <<entry>>
        /\ \A o \in DOMAIN orders : orderEvents'[o] = orderEvents[o]
    BY <1>3, <1>4, <2>1
  <2>3. Len(<<entry>>) = 1 /\ <<entry>>[1] = entry
    OBVIOUS
  <2>4. orderEvents'[id][Len(orderEvents'[id])].type = "ACCEPTED"
    BY <1>3, <2>2, <2>3
  <2>5. DOMAIN orders' = DOMAIN orders \cup {id}
    BY <1>3 DEF Put
  <2>6. Still' = Still \cup {id}
    BY <2>2, <2>4, <2>5 DEF Still, OpenIn
  <2> QED BY <1>3, <2>6 DEF Backlog
<1>9. id \notin Backlog
  BY <1>1, <1>3, FoundQueue
<1>10. Executed' = Executed
  <2>1. Backlog' \ Still' = Backlog \ Still
    BY <1>8, <1>9
  <2> QED BY <1>3, <2>1 DEF Executed, Queued
<1>11. /\ \A o \in DOMAIN saved'.orders : o \in DOMAIN orders' /\ orders'[o] = saved'.orders[o]
       /\ \A o \in Still' : o \in Backlog' \/ o[1] = run'.session
       /\ Still' \cap Backlog' = {}
  BY <1>1, <1>3, <1>4, <1>8, <1>9 DEF Settlement, Put
<1>12. /\ CashBalance(TheAccount)' = CashBalance(TheAccount)
       /\ \A s \in Symbols : Position(TheAccount, s)' = Position(TheAccount, s)
  BY <1>3 DEF CashBalance, Position
<1>13. /\ CashOf(Executed, run.closes)' = CashOf(Executed, run.closes)
       /\ \A s \in Symbols : StockOf(Executed, s)' = StockOf(Executed, s)
  BY <1>3, <1>10
<1>14. /\ CashBalance(TheAccount)' = saved'.cash[TheAccount][MaxTime]
                                   + SumFunctionOnSet(CashOf(Executed, run.closes)', Executed')
       /\ \A s \in Symbols :
            Position(TheAccount, s)' = saved'.position[TheAccount][s][MaxTime]
                                     + SumFunctionOnSet(StockOf(Executed, s)', Executed')
  BY <1>1, <1>3, <1>10, <1>12, <1>13 DEF Settlement
<1>15. run'.mode # "shadow"
  BY <1>3, <1>4
<1>16. Settlement'
  BY <1>11, <1>14, <1>15 DEF Settlement
<1> QED BY <1>6, <1>7, <1>16

LEMMA GoesOnMoves ==
    ASSUME BookInv, ModestCharges, GoesOn
    PROVE  Long(Tables)' /\ SymbolsNamed(Tables)' /\ Settlement'
<1>1. SnapshotFill => Long(Tables)' /\ SymbolsNamed(Tables)' /\ Settlement'
  <2> SUFFICES ASSUME SnapshotFill PROVE Long(Tables)' /\ SymbolsNamed(Tables)' /\ Settlement'
    OBVIOUS
  <2>1. PICK n, nav : AppendNavSnapshot(n, nav)
    BY DEF SnapshotFill
  <2>2. run'.stage = "settle"
    BY DEF SnapshotFill, GoTo, Running
  <2> QED BY <2>1, <2>2, NavMoves
<1>2. Marking => Long(Tables)' /\ SymbolsNamed(Tables)' /\ Settlement'
  <2> SUFFICES ASSUME Marking PROVE Long(Tables)' /\ SymbolsNamed(Tables)' /\ Settlement'
    OBVIOUS
  <2>1. PICK n, nav : AppendNavSnapshot(n, nav)
    BY DEF Marking
  <2>2. run.mode = "fills" => Pending = {}
    BY DEF Marking, SettlementOver
  <2> QED BY <2>1, <2>2, NavMoves
<1> QED BY <1>1, <1>2, SettleMoves, DecideMoves, ChainMoves, OrderMoves DEF GoesOn, Settle

LEMMA SameBook ==
    ASSUME NEW t, NEW u, Long(t), SymbolsNamed(t),
           u.decisions = t.decisions, u.orders = t.orders, u.cash = t.cash, u.position = t.position
    PROVE  Long(u) /\ SymbolsNamed(u)
  BY DEF Long, SymbolsNamed

LEMMA BeginBook ==
    ASSUME BookInv, NEW s \in Sessions, NEW mode, NEW closes, NEW offsets,
           Begin(s, mode, closes, offsets)
    PROVE  Settlement'
<1>1. /\ orders' = orders /\ orderEvents' = orderEvents /\ cashAsOf' = cashAsOf
      /\ positionAsOf' = positionAsOf
      /\ saved'.orders = orders /\ saved'.orderEvents = orderEvents /\ saved'.cash = cashAsOf
      /\ saved'.position = positionAsOf /\ run'.stage = "settle"
  BY DEF Begin, ledger, chain, balances, Tables, GoTo
<1>2. Still' = Backlog'
  BY <1>1 DEF Still, Backlog
<1>3. Executed' = {}
  BY <1>2 DEF Executed, Queued
<1>4. CashBalance(TheAccount) \in Int /\ \A x \in Symbols : Position(TheAccount, x) \in Int
  <2>1. TheAccount \in Accounts /\ MaxTime \in Times
    BY CycleAssumption, TimeAssumption DEF Times
  <2>2. cashAsOf \in [Accounts -> [Times -> Int]]
        /\ positionAsOf \in [Accounts -> [Symbols -> [Times -> Int]]]
    BY DEF BookInv, LimitsInv, AtomicInv, LedgerInv, BookSound, TypeOK
  <2> QED BY <2>1, <2>2 DEF CashBalance, Position
<1>5. PICK cash \in Int : cash = CashBalance(TheAccount)
  BY <1>4
<1>6. CashBalance(TheAccount)' = saved'.cash[TheAccount][MaxTime]
                        + SumFunctionOnSet(CashOf(Executed, run.closes)', Executed')
  <2>1. CashBalance(TheAccount)' = cash /\ saved'.cash[TheAccount][MaxTime] = cash
    BY <1>1, <1>5 DEF CashBalance
  <2> QED BY <1>3, <1>5, <2>1, SumOfNothing
<1>7. ASSUME NEW x \in Symbols
      PROVE  Position(TheAccount, x)' = saved'.position[TheAccount][x][MaxTime]
                        + SumFunctionOnSet(StockOf(Executed, x)', Executed')
  <2>1. PICK held \in Int : held = Position(TheAccount, x)
    BY <1>4
  <2>2. Position(TheAccount, x)' = held /\ saved'.position[TheAccount][x][MaxTime] = held
    BY <1>1, <2>1 DEF Position
  <2> QED BY <1>3, <2>1, <2>2, SumOfNothing
<1> QED BY <1>1, <1>2, <1>6, <1>7 DEF Settlement

LEMMA BookStep ==
    ASSUME BookInv, ModestCharges, [CycleNext]_vars
    PROVE  BookInv'
<1>1. LimitsInv' /\ Long(Tables) /\ SymbolsNamed(Tables)
  BY LimitsStep DEF BookInv
<1>2. PICK t, u, past, later : t = Tables /\ u = Tables' /\ past = saved /\ later = saved'
  OBVIOUS
<1>3. /\ t.decisions = decisions /\ t.orders = orders /\ t.cash = cashAsOf /\ t.position = positionAsOf
      /\ u.decisions = decisions' /\ u.orders = orders' /\ u.cash = cashAsOf'
      /\ u.position = positionAsOf'
  BY <1>2 DEF Tables
<1>4. Long(t) /\ SymbolsNamed(t) /\ (InCycle => Long(past) /\ SymbolsNamed(past))
  BY <1>1, <1>2 DEF BookInv
<1>5. /\ Long(u) /\ SymbolsNamed(u) => Long(Tables)' /\ SymbolsNamed(Tables)'
      /\ Long(later) /\ SymbolsNamed(later) => Long(saved)' /\ SymbolsNamed(saved)'
  BY <1>2
<1>6. ASSUME UNCHANGED <<decisions, orders, cashAsOf, positionAsOf>>
      PROVE  Long(Tables)' /\ SymbolsNamed(Tables)'
  BY <1>3, <1>4, <1>5, <1>6, SameBook
<1>7. ASSUME NEW s \in Sessions, NEW mode, NEW closes, NEW offsets,
             Begin(s, mode, closes, offsets)
      PROVE  BookInv'
  <2>1. Settlement' /\ saved' = Tables /\ UNCHANGED ledger
    BY <1>7, BeginBook DEF Begin
  <2>2. Long(Tables)' /\ SymbolsNamed(Tables)'
    BY <1>6, <2>1 DEF ledger, chain, balances
  <2>3. Long(saved)' /\ SymbolsNamed(saved)'
    BY <1>2, <1>4, <1>5, <2>1
  <2> QED BY <1>1, <2>1, <2>2, <2>3 DEF BookInv
<1>8. ASSUME GoesOn PROVE BookInv'
  <2>1. InCycle /\ saved' = saved
    BY <1>8, GoesOnInside DEF Inside
  <2>2. Long(saved)' /\ SymbolsNamed(saved)'
    BY <1>2, <1>4, <1>5, <2>1
  <2> QED BY <1>1, <1>8, <2>2, GoesOnMoves DEF BookInv
<1>9. ASSUME RollsBack PROVE BookInv'
  <2>1. InCycle /\ Rollback /\ ~InCycle'
    BY <1>9, RollsBackRestores DEF InCycle, Idle
  <2>2. /\ u.decisions = past.decisions /\ u.orders = past.orders /\ u.cash = past.cash
        /\ u.position = past.position
    BY <1>2, <1>3, <2>1 DEF Rollback
  <2>3. Long(Tables)' /\ SymbolsNamed(Tables)'
    BY <1>4, <1>5, <2>1, <2>2, SameBook
  <2> QED BY <1>1, <2>1, <2>3 DEF BookInv
<1>10. ASSUME ~InCycle', UNCHANGED <<chain, balances>> PROVE BookInv'
  BY <1>1, <1>6, <1>10 DEF BookInv, chain, balances
<1>11. Commit \/ Alert => ~InCycle' /\ UNCHANGED <<chain, balances>>
  BY DEF Commit, Alert, GoTo, InCycle, Idle, ledger
<1>12. Operator => ~InCycle' /\ UNCHANGED <<chain, balances>>
  BY DEF Operator, cycle, InCycle, AppendKillSwitchEvent, AppendAccountEvent
<1>13. run' = Idle => ~InCycle'
  BY DEF InCycle, Idle
<1>14. ASSUME UNCHANGED <<ledger, run, saved, commits, alerts>>, InCycle PROVE BookInv'
  <2>1. Long(Tables)' /\ SymbolsNamed(Tables)'
    BY <1>6, <1>14 DEF ledger, chain, balances
  <2>2. Long(saved)' /\ SymbolsNamed(saved)'
    BY <1>2, <1>4, <1>5, <1>14
  <2>3. Settlement'
    BY <1>14, QuietSettlement, InCycleMeans DEF ledger, chain, balances
  <2> QED BY <1>1, <2>1, <2>2, <2>3 DEF BookInv
<1>15. UNCHANGED ledger => UNCHANGED <<chain, balances>>
  BY DEF ledger
<1>16. UNCHANGED run => (InCycle' <=> InCycle)
  BY DEF InCycle
<1> QED BY CycleSteps, <1>7, <1>8, <1>9, <1>10, <1>11, <1>12, <1>13, <1>14, <1>15, <1>16

LEMMA BookStarts == CycleInit => BookInv
<1> SUFFICES ASSUME CycleInit PROVE BookInv
  OBVIOUS
<1>1. LimitsInv /\ ~InCycle
  BY LimitsStart DEF CycleInit, Idle, InCycle
<1>2. MaxTime \in Times /\ TheAccount \in Accounts
  BY TimeAssumption, CycleAssumption DEF Times
<1>3. PICK deposit \in Deposits : cashAsOf = [a \in Accounts |-> [t \in Times |-> deposit]]
  BY DEF CycleInit
<1>4. deposit \in Nat
  BY ValueAssumption
<1>5. cashAsOf[TheAccount][MaxTime] >= 0
  BY <1>2, <1>3, <1>4
<1>6. \A s \in Symbols : positionAsOf[TheAccount][s][MaxTime] >= 0
  BY <1>2 DEF CycleInit
<1>7. DOMAIN decisions = {} /\ DOMAIN orders = {}
  BY DEF CycleInit
<1> QED BY <1>1, <1>5, <1>6, <1>7 DEF BookInv, Long, SymbolsNamed, Tables

LEMMA BookInvariance == ASSUME ModestCharges PROVE CycleSpec => []BookInv
BY BookStarts, BookStep, PTL DEF CycleSpec

(* The paper account of the cycle never borrows and is never short: not    *)
(* between cycles, not inside one, not after a failure or a crash.         *)
THEOREM CycleNeverShort == ASSUME ModestCharges PROVE CycleSpec => []LongOnly
<1>1. BookInv => LongOnly
  BY LongIsLongOnly DEF BookInv
<1> QED BY <1>1, BookInvariance, PTL

-----------------------------------------------------------------------------
(* What PaperBook adds up is one of SumProofs' sums. *)
LEMMA QueueMoves ==
    ASSUME NEW q, NEW closes
    PROVE  /\ Book!Moved(q, closes) = MovedBy(q, closes)
           /\ \A s : Book!Shares(q, s) = SharesBy(q, s)
  BY DEF Book!Moved, Book!Gross, Book!Charge, Book!Shares, Book!FillPrice, Book!SlipPerShare,
     Book!CeilDiv, Book!Fee, Book!Tax, MovedBy, GrossBy, ChargeBy, SharesBy, FillPrice,
     SlipPerShare, CeilDiv, Fee, Tax

LEMMA CashIsSum ==
    ASSUME NEW Q, NEW closes
    PROVE  Book!MapThenSumSet(LAMBDA o : Book!Moved(o, closes), Q)
             = SumFunctionOnSet(CashOf(Q, closes), Q)
<1> DEFINE Solved(g) == g = [T \in SUBSET Q |->
             IF T = {} THEN 0 ELSE Book!Moved(Pick(T), closes) + g[T \ {Pick(T)}]]
<1>1. Book!MapThenSumSet(LAMBDA o : Book!Moved(o, closes), Q) = (CHOOSE g : Solved(g))[Q]
  BY DEF Book!MapThenSumSet, Book!MapThenFoldSet, Pick
<1>2. \A g : Solved(g) <=> Solves(CashOf(Q, closes), SUBSET Q, g)
  <2>1. \A T \in SUBSET Q : T # {} => CashOf(Q, closes)[Pick(T)] = Book!Moved(Pick(T), closes)
    BY PickIn, QueueMoves DEF CashOf
  <2> QED BY <2>1 DEF Solves
<1> HIDE DEF Solved
<1>3. (CHOOSE g : Solved(g)) = (CHOOSE g : Solves(CashOf(Q, closes), SUBSET Q, g))
  BY <1>2
<1> QED BY <1>1, <1>3, SumIsSolution

LEMMA StockIsSum ==
    ASSUME NEW Q, NEW s
    PROVE  Book!MapThenSumSet(LAMBDA o : Book!Shares(o, s), Q)
             = SumFunctionOnSet(StockOf(Q, s), Q)
<1> DEFINE Solved(g) == g = [T \in SUBSET Q |->
             IF T = {} THEN 0 ELSE Book!Shares(Pick(T), s) + g[T \ {Pick(T)}]]
<1>1. Book!MapThenSumSet(LAMBDA o : Book!Shares(o, s), Q) = (CHOOSE g : Solved(g))[Q]
  BY DEF Book!MapThenSumSet, Book!MapThenFoldSet, Pick
<1>2. \A g : Solved(g) <=> Solves(StockOf(Q, s), SUBSET Q, g)
  <2>1. \A T \in SUBSET Q : T # {} => StockOf(Q, s)[Pick(T)] = Book!Shares(Pick(T), s)
    BY PickIn, QueueMoves DEF StockOf
  <2> QED BY <2>1 DEF Solves
<1> HIDE DEF Solved
<1>3. (CHOOSE g : Solved(g)) = (CHOOSE g : Solves(StockOf(Q, s), SUBSET Q, g))
  BY <1>2
<1> QED BY <1>1, <1>3, SumIsSolution

(***************************************************************************)
(* The steps of the account, as the other connections read it.             *)
(***************************************************************************)
LEMMA SeenInCycle ==
    ASSUME InCycle, InCycle', saved' = saved, commits' = commits
    PROVE  UNCHANGED Book!book
  BY DEF Book!book, Read, Latest, QueueOf

LEMMA SeenQuiet ==
    ASSUME UNCHANGED <<orders, orderEvents, balances, saved, commits>>, InCycle' <=> InCycle
    PROVE  UNCHANGED Book!book
  BY DEF Book!book, Read, Latest, QueueOf, balances

LEMMA SeenBegin ==
    ASSUME ~InCycle, InCycle', saved' = Tables, commits' = commits
    PROVE  UNCHANGED Book!book
<1>1. /\ saved'["orders"] = orders /\ saved'["orderEvents"] = orderEvents
      /\ saved'["cash"] = cashAsOf /\ saved'["position"] = positionAsOf
  BY DEF Tables
<1> QED BY <1>1 DEF Book!book, Read, Latest, QueueOf

LEMMA SeenRollback ==
    ASSUME InCycle, ~InCycle', Rollback
    PROVE  UNCHANGED Book!book
<1>1. /\ orders' = saved["orders"] /\ orderEvents' = saved["orderEvents"]
      /\ cashAsOf' = saved["cash"] /\ positionAsOf' = saved["position"] /\ commits' = commits
  BY DEF Rollback
<1> QED BY <1>1 DEF Book!book, Read, Latest, QueueOf

LEMMA QueueSeen ==
    /\ QueueOf(orders, orderEvents) = Queued(orders, Still)
    /\ QueueOf(saved["orders"], saved["orderEvents"]) = Queued(saved.orders, Backlog)
  BY DEF QueueOf, Queued, Waiting, Still, Backlog, OpenIn

LEMMA SeenCommit ==
    ASSUME BookInv, Commit
    PROVE  Book!Session(run.session)
<1>1. /\ InCycle /\ ~InCycle' /\ run.stage = "decide"
      /\ commits' = [commits EXCEPT ![run.session] = run.mode]
      /\ UNCHANGED <<decisions, proposals, reviews, orders, orderEvents, cashAsOf, positionAsOf>>
  BY DEF Commit, At, InCycle, GoTo, ledger, chain, balances
<1>2. /\ Settlement /\ LongOnly /\ BookSound /\ SymbolsNamed(Tables) /\ Named(Tables) /\ RunTyped
      /\ run.session \in Sessions /\ run.mode \in Modes /\ commits[run.session] = "none"
  BY <1>1, LongIsLongOnly, InCycleMeans DEF BookInv, LimitsInv, Limited, AtomicInv, LedgerInv, DigestInv
<1>3. PICK found, closes, waits : /\ found = Queued(saved.orders, Backlog) /\ closes = run.closes
                                  /\ waits = Queued(orders, Still)
  OBVIOUS
<1>4. /\ Read("orders", orders) = saved["orders"] /\ Read("orderEvents", orderEvents) = saved["orderEvents"]
      /\ Read("cash", cashAsOf) = saved["cash"] /\ Read("position", positionAsOf) = saved["position"]
      /\ Read("orders", orders)' = orders /\ Read("orderEvents", orderEvents)' = orderEvents
      /\ Read("cash", cashAsOf)' = cashAsOf /\ Read("position", positionAsOf)' = positionAsOf
  BY <1>1 DEF Read
<1>5. /\ QueueOf(Read("orders", orders), Read("orderEvents", orderEvents)) = found
      /\ QueueOf(Read("orders", orders), Read("orderEvents", orderEvents))' = waits
  BY <1>3, <1>4, QueueSeen
<1>6. CASE run.mode = "fills"
  <2>1. Still \cap Backlog = {} /\ Executed = found
    <3>1. Still \cap Backlog = {}
      BY <1>1, <1>2, <1>6 DEF Settlement
    <3>2. Backlog \ Still = Backlog
      BY <3>1
    <3> QED BY <1>3, <3>1, <3>2 DEF Executed
  <2>2. cashAsOf[TheAccount][MaxTime] = saved["cash"][TheAccount][MaxTime]
          + Book!MapThenSumSet(LAMBDA o : Book!Moved(o, closes), found)
    <3>1. cashAsOf[TheAccount][MaxTime] = saved["cash"][TheAccount][MaxTime]
            + SumFunctionOnSet(CashOf(found, closes), found)
      BY <1>2, <1>3, <2>1 DEF Settlement, CashBalance
    <3>2. Book!MapThenSumSet(LAMBDA o : Book!Moved(o, closes), found)
            = SumFunctionOnSet(CashOf(found, closes), found)
      BY CashIsSum
    <3> QED BY <3>1, <3>2
  <2>3. \A s \in Symbols :
          positionAsOf[TheAccount][s][MaxTime] = saved["position"][TheAccount][s][MaxTime]
            + Book!MapThenSumSet(LAMBDA o : Book!Shares(o, s), found)
    BY <1>2, <1>3, <2>1, StockIsSum DEF Settlement, Position
  <2>4. /\ cashAsOf[TheAccount][MaxTime] >= 0
        /\ \A s \in Symbols : positionAsOf[TheAccount][s][MaxTime] >= 0
    BY <1>2, CycleAssumption DEF LongOnly, CashBalance, Position
  <2>5. \A o \in waits : o.session = run.session /\ o.quantity >= 1
    <3> SUFFICES ASSUME NEW o \in Still
                 PROVE  Waiting(orders[o]).session = run.session /\ Waiting(orders[o]).quantity >= 1
      BY <1>3 DEF Queued
    <3>1. o \in DOMAIN orders /\ o[1] = run.session
      BY <1>2, <2>1 DEF Settlement, Still, OpenIn
    <3>2. orders[o].created_at = CycleAt(run.session)
      BY <1>2, <3>1 DEF Named, Tables
    <3>3. orders[o].quantity \in Nat \ {0}
      BY <1>2, <3>1 DEF BookSound, AuthorityChain, OrdersSound, ReviewsSound
    <3> QED BY <1>2, <3>2, <3>3, SessionOfCycle DEF Waiting
  <2>6. closes \in [Symbols -> Closes]
    BY <1>1, <1>2, <1>3 DEF RunTyped
  <2>7. Book!ExecuteQueue
    BY <1>4, <1>5, <2>2, <2>3, <2>4, <2>6 DEF Book!ExecuteQueue, Latest
  <2> QED BY <1>1, <1>2, <1>5, <1>6, <2>5, <2>7 DEF Book!Session
<1>7. CASE run.mode # "fills"
  <2>1. run.mode = "shadow" /\ orders = saved["orders"] /\ orderEvents = saved["orderEvents"]
    BY <1>2, <1>7, CycleAssumption DEF Settlement
  <2>2. waits = found /\ Executed = {}
    BY <1>3, <2>1 DEF Still, Backlog, Executed, Queued
  <2>3. /\ saved["cash"][TheAccount][MaxTime] \in Int
        /\ \A s \in Symbols : saved["position"][TheAccount][s][MaxTime] \in Int
    <3>1. TheAccount \in Accounts /\ MaxTime \in Past!Times
      BY CycleAssumption, TimeAssumption DEF Past!Times
    <3>2. /\ saved.cash \in [Accounts -> [Past!Times -> Int]]
          /\ saved.position \in [Accounts -> [Symbols -> [Past!Times -> Int]]]
      BY <1>1 DEF BookInv, LimitsInv, AtomicInv, LedgerInv, PastSound, Past!TypeOK
    <3> QED BY <3>1, <3>2
  <2>4. cashAsOf[TheAccount][MaxTime] = saved["cash"][TheAccount][MaxTime]
    <3>1. SumFunctionOnSet(CashOf(Executed, run.closes), Executed) = 0
      BY <2>2, SumOfNothing
    <3> QED BY <1>2, <2>3, <3>1 DEF Settlement, CashBalance
  <2>5. \A s \in Symbols :
          positionAsOf[TheAccount][s][MaxTime] = saved["position"][TheAccount][s][MaxTime]
    <3>1. \A s : SumFunctionOnSet(StockOf(Executed, s), Executed) = 0
      BY <2>2, SumOfNothing
    <3> QED BY <1>2, <2>3, <3>1 DEF Settlement, Position
  <2> QED BY <1>1, <1>2, <1>4, <1>5, <1>7, <2>2, <2>4, <2>5 DEF Book!Session, Latest
<1> QED BY <1>6, <1>7

LEMMA BookSteps ==
    ASSUME BookInv, [CycleNext]_vars
    PROVE  [Book!Next]_(Book!book)
<1>1. ASSUME NEW s \in Sessions, NEW mode, NEW closes, NEW offsets,
             Begin(s, mode, closes, offsets)
      PROVE  UNCHANGED Book!book
  <2>1. ~InCycle /\ InCycle' /\ saved' = Tables /\ commits' = commits
    BY <1>1 DEF Begin, GoTo, At, InCycle
  <2> QED BY <2>1, SeenBegin
<1>2. GoesOn => UNCHANGED Book!book
  <2>1. GoesOn => InCycle /\ InCycle' /\ saved' = saved /\ commits' = commits
    BY GoesOnInside DEF Inside, InCycle, WorkStages
  <2> QED BY <2>1, SeenInCycle
<1>3. RollsBack => UNCHANGED Book!book
  <2>1. RollsBack => InCycle /\ Rollback /\ ~InCycle'
    BY RollsBackRestores DEF InCycle, Idle
  <2> QED BY <2>1, SeenRollback
<1>4. Commit => Book!Next
  <2>1. Commit => run.session \in Sessions
    BY InCycleMeans DEF Commit, At, InCycle, BookInv, LimitsInv, AtomicInv, LedgerInv, DigestInv
  <2> QED BY <2>1, SeenCommit DEF Book!Next
<1>5. Alert => UNCHANGED Book!book
  <2>1. Alert => UNCHANGED <<orders, orderEvents, balances, saved, commits>> /\ (InCycle' <=> InCycle)
    BY DEF Alert, ledger, chain, GoTo, InCycle, At, Idle
  <2> QED BY <2>1, SeenQuiet
<1>6. Operator => UNCHANGED Book!book
  <2>1. Operator => UNCHANGED <<orders, orderEvents, balances, saved, commits>> /\ (InCycle' <=> InCycle)
    BY DEF Operator, cycle, InCycle, AppendKillSwitchEvent, AppendAccountEvent, chain
  <2> QED BY <2>1, SeenQuiet
<1>7. At("alert") /\ run' = Idle /\ UNCHANGED <<ledger, saved, commits, alerts>> => UNCHANGED Book!book
  <2>1. At("alert") /\ run' = Idle /\ UNCHANGED <<ledger, saved, commits, alerts>>
          => UNCHANGED <<orders, orderEvents, balances, saved, commits>> /\ (InCycle' <=> InCycle)
    BY DEF ledger, chain, InCycle, At, Idle
  <2> QED BY <2>1, SeenQuiet
<1>8. UNCHANGED <<ledger, run, saved, commits, alerts>> => UNCHANGED Book!book
  <2>1. UNCHANGED <<ledger, run, saved, commits, alerts>>
          => UNCHANGED <<orders, orderEvents, balances, saved, commits>> /\ (InCycle' <=> InCycle)
    BY DEF ledger, chain, InCycle
  <2> QED BY <2>1, SeenQuiet
<1> QED BY CycleSteps, <1>1, <1>2, <1>3, <1>4, <1>5, <1>6, <1>7, <1>8

(* To anyone who reads the ledger, a session is one step of the account:   *)
(* it settles every queued order, each exactly once at the prices of that  *)
(* session, and queues what it approved, or moves nothing at all; whatever *)
(* fails, dies or is refused in between is not to be seen.                 *)
THEOREM CycleImplementsBook == ASSUME ModestCharges PROVE CycleSpec => SessionsAreAtomic
<1>1. CycleInit => Book!Init
  <2> SUFFICES ASSUME CycleInit PROVE Book!Init
    OBVIOUS
  <2>1. ~InCycle /\ MaxTime \in Times /\ TheAccount \in Accounts
    BY TimeAssumption, CycleAssumption DEF CycleInit, InCycle, Idle, Times
  <2>2. PICK deposit \in Deposits : cashAsOf = [a \in Accounts |-> [t \in Times |-> deposit]]
    BY DEF CycleInit
  <2>3. Latest(Read("cash", cashAsOf)[TheAccount]) = deposit
    BY <2>1, <2>2 DEF Read, Latest
  <2>4. [s \in Symbols |-> Latest(Read("position", positionAsOf)[TheAccount][s])]
          = [s \in Symbols |-> 0]
    BY <2>1 DEF CycleInit, Read, Latest
  <2>5. QueueOf(Read("orders", orders), Read("orderEvents", orderEvents)) = {}
    BY <2>1 DEF CycleInit, Read, QueueOf
  <2> QED BY <2>3, <2>4, <2>5 DEF Book!Init, CycleInit
<1>2. CycleSpec => [][Book!Next]_(Book!book)
  BY BookInvariance, BookSteps, PTL DEF CycleSpec
<1> QED BY <1>1, <1>2, PTL DEF CycleSpec, SessionsAreAtomic, Book!Spec

-----------------------------------------------------------------------------
(***************************************************************************)
(* The sales that wait in the queue.  While every session runs in fills    *)
(* mode, no approval is left without its order and every cycle starts its  *)
(* reviews with an empty queue, so that what a review finds reserved is of *)
(* its own session and of other symbols: a sale is sized by the shares     *)
(* held, and nothing sells them before it is executed.                     *)
(***************************************************************************)
Labelled(t) == \A d \in DOMAIN t.decisions : t.decisions[d].symbol = d[2]
Covered(t) ==
    \A o \in OpenIn(t.orders, t.orderEvents) :
        t.orders[o].side = "SELL" =>
            t.orders[o].quantity <= t.position[TheAccount][t.orders[o].symbol][MaxTime]

QueueIsNew == \A o \in Still : o[1] = run.session
SaleIsHeld == (At("order") /\ proposals[Id].side = "SELL") =>
                  reviews[Id].quantity <= Position(TheAccount, Sym)

SalesInv ==
    /\ LimitsInv
    /\ Labelled(Tables)
    /\ ~InCycle => Covered(Tables)
    /\ InCycle => /\ Labelled(saved) /\ Covered(saved)
                  /\ run.stage \notin {"settle", "fill_nav"} => Covered(Tables) /\ QueueIsNew
                  /\ SaleIsHeld

LEMMA CoveredIsHeld ==
    ASSUME BookSound
    PROVE  Covered(Tables) <=>
             \A o \in DOMAIN orders : (Open(o) /\ orders[o].side = "SELL") =>
                 orders[o].quantity <= Position(TheAccount, orders[o].symbol)
<1>1. OpenIn(Tables.orders, Tables.orderEvents) = Pending
  BY OpenIsLast DEF Still, Tables
<1> QED BY <1>1 DEF Covered, Pending, Tables, Position

LEMMA SymbolOfProposal ==
    ASSUME SalesInv, NEW p \in DOMAIN proposals
    PROVE  proposals[p].symbol = p[2]
<1>1. ProposalsSound /\ proposals[p].decision = p
  BY DEF SalesInv, LimitsInv, Limited, Named, AtomicInv, LedgerInv, BookSound, AuthorityChain, Tables
<1>2. p \in DOMAIN decisions /\ proposals[p].symbol = decisions[p].symbol
  BY <1>1 DEF ProposalsSound
<1> QED BY <1>2 DEF SalesInv, Labelled, Tables

(* What else is reserved when a proposal is reviewed is of other symbols.  *)
LEMMA OthersReserved ==
    ASSUME SalesInv, Modes = {"fills"}, At("review"), NEW r \in Reserved
    PROVE  SharesOf(Sym)[r] = 0
<1>1. /\ InCycle /\ LedgerInv /\ BookSound /\ IdsSound(Tables) /\ Named(Tables) /\ QueueIsNew
      /\ run.left # << >> /\ \A s \in Sessions \ {run.session} : Recorded(Tables, s)
  BY DEF SalesInv, LimitsInv, Limited, AtomicInv, LedgerInv, RunTyped, Apart, At, InCycle
<1>2. /\ r \in DOMAIN reviews /\ reviews[r].verdict # "REJECT" /\ r # Id
      /\ r \in DOMAIN orders => Open(r)
  BY DEF Reserved, AcceptedReviews, Ordered
<1>3. /\ r \in DOMAIN proposals /\ r \in Sessions \X Symbols /\ reviews[r].proposal = r
  BY <1>1, <1>2, RowsAreFew DEF Named, Tables
<1>4. r[1] = run.session
  <2> SUFFICES ASSUME r[1] # run.session PROVE FALSE
    OBVIOUS
  <2>1. PICK s \in Sessions : s = r[1] /\ s # run.session
    BY <1>3
  <2>2. Recorded(Tables, s) /\ r \in OfSession(DOMAIN reviews, s)
    BY <1>1, <1>2, <2>1 DEF OfSession
  <2>3. commits[s] # "none"
    BY <2>2 DEF Recorded, Absent, Tables
  <2>4. commits[s] = "fills"
    BY <1>1, <2>3 DEF LedgerInv, DigestInv
  <2>5. r \in DOMAIN orders
    BY <1>2, <2>2, <2>4 DEF Recorded, Present, Tables
  <2>6. r \in Still
    BY <1>1, <1>2, <2>5, OpenIsLast DEF Pending
  <2> QED BY <1>1, <2>1, <2>6 DEF QueueIsNew
<1>5. r[2] # Sym
  <2>1. PICK x, y : r = <<x, y>>
    BY <1>3
  <2> QED BY <1>2, <1>4, <2>1 DEF Id
<1>6. proposals[r].symbol = r[2]
  BY <1>3, SymbolOfProposal
<1> QED BY <1>2, <1>3, <1>5, <1>6 DEF SharesOf

(* A review in fills mode sees the shares that are held.                   *)
LEMMA HoldingsReviewed ==
    ASSUME SalesInv, Modes = {"fills"}, At("review"), NEW request, request = RiskRequest
    PROVE  request.holdings = Position(TheAccount, Sym) /\ Position(TheAccount, Sym) \in Int
<1>1. /\ InCycle /\ LedgerInv /\ BookSound /\ IdsSound(Tables) /\ Named(Tables) /\ run.left # << >>
  BY DEF SalesInv, LimitsInv, Limited, AtomicInv, LedgerInv, RunTyped, Apart, At, InCycle
<1>2. IsFiniteSet(DOMAIN reviews)
  BY <1>1, RowsAreFew
<1>3. ASSUME NEW side PROVE ReservedShares(side, Sym) = 0
  <2>1. ReservedFor(side) \in SUBSET DOMAIN reviews /\ ReservedFor(side) \subseteq Reserved
    BY DEF ReservedFor, Reserved, AcceptedReviews
  <2>2. IsFiniteSet(ReservedFor(side))
    BY <1>2, <2>1, FS_Subset
  <2>3. \A r \in ReservedFor(side) : SharesOf(Sym)[r] = 0
    BY <2>1, OthersReserved
  <2> QED BY <2>2, <2>3, SumOfZeros, SharesAreSum
<1>4. Position(TheAccount, Sym) \in Int
  <2>1. Sym \in Symbols /\ TheAccount \in Accounts /\ MaxTime \in Times
    BY <1>1, NextSymbol, CycleAssumption, TimeAssumption DEF Times
  <2> QED BY <1>1, <2>1 DEF BookSound, TypeOK, Position
<1>5. request.holdings = Position(TheAccount, Sym) + ReservedShares("BUY", Sym)
                           - ReservedShares("SELL", Sym)
  BY DEF RiskRequest
<1> QED BY <1>3, <1>4, <1>5

(* So what it accepts of a sale is held.                                   *)
LEMMA SaleReviewed ==
    ASSUME SalesInv, Modes = {"fills"}, ReviewProposal
    PROVE  SaleIsHeld'
<1> SUFFICES ASSUME At("order")', (proposals[Id].side = "SELL")'
             PROVE  (reviews[Id].quantity <= Position(TheAccount, Sym))'
  BY DEF SaleIsHeld
<1>1. PICK request : request = RiskRequest /\ RequestValid(request)
  BY DEF ReviewProposal, Reviewable
<1>2. PICK result : result = EvaluateRisk(request)
  OBVIOUS
<1>3. PICK id : id = Id
  OBVIOUS
<1>4. /\ At("review") /\ result.verdict # "NO_OP" /\ Accepted(result)
      /\ AppendRiskReview(Id, ReviewRow(result)) /\ GoTo(Running("order", run.left))
  BY <1>1, <1>2 DEF ReviewProposal, GoTo, Rest, Running, At, OrdersWanted
<1>5. /\ LedgerInv /\ BookSound /\ Named(Tables)
  BY DEF SalesInv, LimitsInv, Limited, AtomicInv, LedgerInv
<1>6. /\ Id \notin DOMAIN reviews /\ Id \in DOMAIN proposals
      /\ reviews' = Put(reviews, id, ReviewRow(result)) /\ UNCHANGED <<proposals, positionAsOf>>
  BY <1>3, <1>4, SubmitInserted DEF AppendRiskReview, ReviewOutcome, ReviewRow, balances
<1>7. Id' = id /\ Sym' = Sym
  BY <1>3, <1>4 DEF GoTo, Running, Id, Sym
<1>8. Position(TheAccount, Sym)' = Position(TheAccount, Sym)
  BY <1>6, <1>7 DEF Position
<1>9. reviews'[id].quantity = result.quantity
  BY <1>6 DEF Put, ReviewRow
<1>10. /\ Measured(request) /\ request.action = decisions[Id].action
  BY <1>1, <1>4, <1>6, RequestOfReview DEF SalesInv
<1>11. request.action \in {"REDUCE", "EXIT"}
  <2>1. proposals[id].side = "SELL"
    BY <1>6, <1>7
  <2>2. proposals[id].decision = id /\ Authorises(decisions[id].action, "SELL", proposals[id].target)
    BY <1>3, <1>5, <1>6, <2>1 DEF BookSound, AuthorityChain, ProposalsSound, Named, Tables
  <2> QED BY <1>3, <1>10, <2>2 DEF Authorises
<1>12. /\ Wanted(request) \in Int /\ Wanted(request) >= 0
       /\ result.quantity = request.holdings - Wanted(request)
  BY <1>1, <1>2, <1>4, <1>10, <1>11, SaleOfMeasured
<1>13. request.holdings = Position(TheAccount, Sym) /\ Position(TheAccount, Sym) \in Int
  BY <1>1, <1>4, HoldingsReviewed
<1>14. result.quantity <= Position(TheAccount, Sym)
  BY <1>12, <1>13
<1> QED BY <1>7, <1>8, <1>9, <1>14

(* A step keeps what it does not touch.                                    *)
LEMMA SameSales ==
    ASSUME NEW t, NEW u
    PROVE  /\ u.decisions = t.decisions /\ Labelled(t) => Labelled(u)
           /\ u.orders = t.orders /\ u.orderEvents = t.orderEvents /\ u.position = t.position
                /\ Covered(t) => Covered(u)
  BY DEF Labelled, Covered

LEMMA QuietSales ==
    /\ decisions' = decisions /\ Labelled(Tables) => Labelled(Tables)'
    /\ UNCHANGED <<orders, orderEvents, positionAsOf>> /\ Covered(Tables) => Covered(Tables)'
    /\ UNCHANGED <<orders, orderEvents>> /\ run'.session = run.session /\ QueueIsNew => QueueIsNew'
<1>1. PICK t, u : t = Tables /\ u = Tables'
  OBVIOUS
<1>2. /\ t.decisions = decisions /\ t.orders = orders /\ t.orderEvents = orderEvents
      /\ t.position = positionAsOf
      /\ u.decisions = decisions' /\ u.orders = orders' /\ u.orderEvents = orderEvents'
      /\ u.position = positionAsOf'
  BY <1>1 DEF Tables
<1>3. /\ Labelled(t) <=> Labelled(Tables)
      /\ Labelled(u) <=> Labelled(Tables)'
      /\ Covered(t) <=> Covered(Tables)
      /\ Covered(u) <=> Covered(Tables)'
  BY <1>1
<1>4. decisions' = decisions /\ Labelled(Tables) => Labelled(Tables)'
  BY <1>2, <1>3, SameSales
<1>5. UNCHANGED <<orders, orderEvents, positionAsOf>> /\ Covered(Tables) => Covered(Tables)'
  BY <1>2, <1>3, SameSales
<1>6. UNCHANGED <<orders, orderEvents>> /\ run'.session = run.session /\ QueueIsNew => QueueIsNew'
  BY DEF QueueIsNew, Still
<1> QED BY <1>4, <1>5, <1>6

(* What the steps of a transaction leave behind.                           *)
SalesGoOn ==
    /\ Labelled(Tables)
    /\ run.stage \notin {"settle", "fill_nav"} => Covered(Tables) /\ QueueIsNew
    /\ SaleIsHeld

LEMMA SettleSales ==
    ASSUME SalesInv, Settle
    PROVE  SalesGoOn'
<1>1. decisions' = decisions /\ run'.stage \in {"settle", "fill_nav"}
  <2>1. ASSUME NEW o, SettleOrder(o) PROVE decisions' = decisions /\ run'.stage = "fill_nav"
    BY <2>1 DEF SettleOrder, AppendFill, chain, GoTo
  <2>2. SnapshotFill => decisions' = decisions /\ run'.stage = "settle"
    BY DEF SnapshotFill, AppendNavSnapshot, chain, GoTo, Running
  <2> QED BY <2>1, <2>2 DEF Settle
<1> QED BY <1>1, QuietSales DEF SalesInv, SalesGoOn, SaleIsHeld, At

LEMMA MarkingSales ==
    ASSUME SalesInv, Modes = {"fills"}, Marking
    PROVE  SalesGoOn'
<1>1. /\ UNCHANGED <<decisions, orders, orderEvents, positionAsOf>> /\ run'.stage = "decide"
      /\ InCycle
  BY DEF Marking, AppendNavSnapshot, chain, balances, GoTo, Running, At, InCycle
<1>2. run.mode = "fills" /\ BookSound
  BY <1>1, InCycleMeans DEF SalesInv, LimitsInv, AtomicInv, LedgerInv, DigestInv
<1>3. Still = {}
  BY <1>2, OpenIsLast DEF Marking, SettlementOver
<1>4. Covered(Tables)
  BY <1>3 DEF Covered, Still, Tables
<1>5. QueueIsNew'
  BY <1>1, <1>3 DEF QueueIsNew, Still
<1> QED BY <1>1, <1>4, <1>5, QuietSales DEF SalesInv, SalesGoOn, SaleIsHeld, At

LEMMA DecideSales ==
    ASSUME SalesInv, NEW answer, Decide(answer)
    PROVE  SalesGoOn'
<1>1. PICK row : AppendAgentDecision(Id, row) /\ row.symbol = Sym
  BY DEF Decide, DecisionRow
<1>2. PICK id : id = Id /\ id[2] = Sym
  <2>1. Id[2] = Sym
    BY DEF Id
  <2> QED BY <2>1
<1>3. /\ UNCHANGED <<orders, orderEvents, positionAsOf>> /\ decisions' = Put(decisions, id, row)
      /\ run'.session = run.session /\ run.stage = "decide" /\ run'.stage # "order"
  BY <1>1, <1>2 DEF AppendAgentDecision, balances, Decide, At, GoTo, Rest, Running
<1>4. Labelled(Tables)'
  BY <1>1, <1>2, <1>3 DEF Put, SalesInv, Labelled, Tables
<1>5. Covered(Tables) /\ QueueIsNew
  BY <1>3 DEF SalesInv, InCycle
<1> QED BY <1>3, <1>4, <1>5, QuietSales DEF SalesGoOn, SaleIsHeld, At

LEMMA ReviewSales ==
    ASSUME SalesInv, Modes = {"fills"}, Propose \/ ReviewProposal
    PROVE  SalesGoOn'
<1>1. /\ UNCHANGED <<decisions, orders, orderEvents, positionAsOf>>
      /\ run.stage \in {"propose", "review"} /\ run'.session = run.session
  <2>1. CASE Propose
    BY <2>1 DEF Propose, AppendOrderProposal, balances, At, GoTo, Running
  <2>2. CASE ReviewProposal
    BY <2>2 DEF ReviewProposal, AppendRiskReview, ledger, chain, balances, At, GoTo, Rest, Running
  <2> QED BY <2>1, <2>2
<1>2. SaleIsHeld'
  <2>1. Propose => run'.stage = "review"
    BY DEF Propose, GoTo, Running
  <2> QED BY <2>1, SaleReviewed DEF SaleIsHeld, At
<1>3. Labelled(Tables) /\ Covered(Tables) /\ QueueIsNew
  BY <1>1 DEF SalesInv, InCycle
<1> QED BY <1>1, <1>2, <1>3, QuietSales DEF SalesGoOn

LEMMA OrderSales ==
    ASSUME SalesInv, PlaceOrder
    PROVE  SalesGoOn'
<1>1. /\ InCycle /\ LedgerInv /\ BookSound /\ Named(Tables) /\ run.left # << >> /\ At("order")
      /\ Covered(Tables) /\ QueueIsNew /\ SaleIsHeld /\ Labelled(Tables)
  BY DEF SalesInv, LimitsInv, Limited, AtomicInv, LedgerInv, RunTyped, PlaceOrder, At, InCycle
<1>2. PICK id, row, entry : /\ id = Id /\ row = OrderRow(Id, Id, Now)
                            /\ entry = Entry("emitted", "ACCEPTED", Now)
  OBVIOUS
<1>3. /\ orders' = Put(orders, id, row) /\ id \notin DOMAIN orders /\ id \in DOMAIN reviews
      /\ orderEvents' = [orderEvents EXCEPT ![id] = <<entry>>]
      /\ UNCHANGED <<decisions, positionAsOf>>
      /\ run'.session = run.session /\ run'.stage = "decide"
  <2>1. id \notin DOMAIN orders /\ id \in DOMAIN reviews
    BY <1>2, SubmitInserted DEF PlaceOrder, AppendOrder, OrderOutcome
  <2> QED BY <1>2, <2>1 DEF PlaceOrder, AppendOrder, balances, Rest, GoTo, Running
<1>4. id[1] = run.session /\ id[2] = Sym /\ id \in OrderIds
  BY <1>1, <1>2, NextSymbol, RowIds
<1>5. reviews[id].proposal = id /\ id \in DOMAIN proposals
  BY <1>1, <1>3 DEF Named, Tables, BookSound, AuthorityChain, ReviewsSound
<1>6. proposals[id].symbol = Sym
  BY <1>4, <1>5, SymbolOfProposal
<1>7. row.side = "SELL" => row.quantity <= positionAsOf[TheAccount][row.symbol][MaxTime]
  <2>1. /\ row.side = proposals[id].side /\ row.quantity = reviews[id].quantity
        /\ row.symbol = Sym
    BY <1>2, <1>5, <1>6 DEF OrderRow
  <2> QED BY <1>1, <1>2, <2>1 DEF SaleIsHeld, Position
<1>8. Still' \subseteq Still \cup {id} /\ \A o \in DOMAIN orders : orders'[o] = orders[o]
  <2>1. orderEvents \in [OrderIds -> Seq(Event)] /\ DOMAIN orders \subseteq OrderIds
    BY <1>1 DEF BookSound, TypeOK, IsTable
  <2>2. \A o \in DOMAIN orders : orderEvents'[o] = orderEvents[o]
    BY <1>3, <1>4, <2>1
  <2> QED BY <1>3, <2>2 DEF Put, Still, OpenIn
<1>9. QueueIsNew'
  BY <1>1, <1>3, <1>4, <1>8 DEF QueueIsNew
<1>10. Covered(Tables)'
  <2> SUFFICES ASSUME NEW o \in Still', orders'[o].side = "SELL"
               PROVE  orders'[o].quantity <= positionAsOf[TheAccount][orders'[o].symbol][MaxTime]
    BY <1>3 DEF Covered, Still, Tables
  <2>1. CASE o = id
    BY <1>3, <1>7, <2>1 DEF Put
  <2>2. CASE o # id
    <3>1. o \in Still /\ o \in DOMAIN orders /\ orders'[o] = orders[o]
      BY <1>8, <2>2 DEF Still, OpenIn
    <3> QED BY <1>1, <3>1 DEF Covered, Still, Tables
  <2> QED BY <2>1, <2>2
<1> QED BY <1>1, <1>3, <1>9, <1>10, QuietSales DEF SalesGoOn, SaleIsHeld, At

LEMMA SalesStep ==
    ASSUME SalesInv, Modes = {"fills"}, [CycleNext]_vars
    PROVE  SalesInv'
<1>1. LimitsInv' /\ Labelled(Tables)
  BY LimitsStep DEF SalesInv
<1>2. PICK t, u, past, later : t = Tables /\ u = Tables' /\ past = saved /\ later = saved'
  OBVIOUS
<1>3. /\ Labelled(past) <=> Labelled(saved)
      /\ Covered(past) <=> Covered(saved)
      /\ Labelled(later) <=> Labelled(saved)'
      /\ Covered(later) <=> Covered(saved)'
      /\ Labelled(t) <=> Labelled(Tables)
      /\ Covered(t) <=> Covered(Tables)
      /\ Labelled(u) <=> Labelled(Tables)'
      /\ Covered(u) <=> Covered(Tables)'
  BY <1>2
<1>4. ASSUME NEW s \in Sessions, NEW mode, NEW closes, NEW offsets,
             Begin(s, mode, closes, offsets)
      PROVE  SalesInv'
  <2>1. /\ ~InCycle /\ saved' = Tables /\ UNCHANGED ledger
        /\ run'.stage = "settle"
    BY <1>4 DEF Begin, GoTo, At, InCycle
  <2>2. Labelled(saved)' /\ Covered(saved)'
    BY <1>1, <1>2, <1>3, <2>1 DEF SalesInv
  <2>3. Labelled(Tables)'
    BY <1>1, <2>1, QuietSales DEF ledger, chain
  <2> QED BY <1>1, <2>1, <2>2, <2>3 DEF SalesInv, InCycle, SaleIsHeld, At
<1>5. ASSUME GoesOn PROVE SalesInv'
  <2>1. InCycle /\ saved' = saved /\ InCycle'
    BY <1>5, GoesOnInside DEF Inside, InCycle, WorkStages
  <2>2. Labelled(saved)' /\ Covered(saved)'
    BY <1>2, <1>3, <2>1 DEF SalesInv
  <2>3. SalesGoOn'
    BY <1>5, SettleSales, MarkingSales, DecideSales, ReviewSales, OrderSales DEF GoesOn
  <2> QED BY <1>1, <2>1, <2>2, <2>3 DEF SalesInv, SalesGoOn
<1>6. ASSUME RollsBack PROVE SalesInv'
  <2>1. InCycle /\ Rollback /\ ~InCycle'
    BY <1>6, RollsBackRestores DEF InCycle, Idle
  <2>2. /\ u.decisions = past.decisions /\ u.orders = past.orders
        /\ u.orderEvents = past.orderEvents /\ u.position = past.position
    BY <1>2, <2>1 DEF Rollback, Tables
  <2>3. Labelled(past) /\ Covered(past)
    BY <1>3, <2>1 DEF SalesInv
  <2>4. Labelled(Tables)' /\ Covered(Tables)'
    BY <1>3, <2>2, <2>3, SameSales
  <2> QED BY <1>1, <2>1, <2>4 DEF SalesInv
<1>7. ASSUME ~InCycle', ~InCycle \/ At("decide"), UNCHANGED <<chain, orderEvents, balances>>
      PROVE  SalesInv'
  <2>1. Covered(Tables)
    BY <1>7 DEF SalesInv, At
  <2>2. Labelled(Tables)' /\ Covered(Tables)'
    BY <1>1, <1>7, <2>1, QuietSales DEF chain, balances
  <2> QED BY <1>1, <1>7, <2>2 DEF SalesInv
<1>8. ASSUME Commit \/ Alert
      PROVE  /\ ~InCycle' /\ (~InCycle \/ At("decide"))
             /\ UNCHANGED <<chain, orderEvents, balances>>
  BY <1>8 DEF Commit, Alert, GoTo, InCycle, Idle, ledger, At
<1>9. ASSUME Operator
      PROVE  ~InCycle' /\ ~InCycle /\ UNCHANGED <<chain, orderEvents, balances>>
  BY <1>9 DEF Operator, cycle, InCycle, AppendKillSwitchEvent, AppendAccountEvent
<1>10. ASSUME At("alert"), run' = Idle, UNCHANGED ledger
       PROVE  ~InCycle' /\ ~InCycle /\ UNCHANGED <<chain, orderEvents, balances>>
  BY <1>10 DEF InCycle, Idle, At, ledger
<1>11. ASSUME UNCHANGED <<ledger, run, saved, commits, alerts>>, InCycle PROVE SalesInv'
  <2>1. UNCHANGED <<decisions, proposals, reviews, orders, orderEvents, positionAsOf>>
    BY <1>11 DEF ledger, chain, balances
  <2>2. /\ Labelled(Tables)'
        /\ run.stage \notin {"settle", "fill_nav"} => Covered(Tables)' /\ QueueIsNew'
    BY <1>1, <1>11, <2>1, QuietSales DEF SalesInv
  <2>3. SaleIsHeld'
    BY <1>11, <2>1 DEF SalesInv, SaleIsHeld, At, Id, Sym, Position
  <2>4. Labelled(saved)' /\ Covered(saved)'
    BY <1>2, <1>3, <1>11 DEF SalesInv
  <2> QED BY <1>1, <1>11, <2>2, <2>3, <2>4 DEF SalesInv, InCycle
<1>12. ASSUME UNCHANGED <<ledger, run, saved, commits, alerts>>, ~InCycle PROVE SalesInv'
  <2>1. ~InCycle' /\ UNCHANGED <<chain, orderEvents, balances>>
    BY <1>12 DEF InCycle, ledger
  <2> QED BY <1>7, <1>12, <2>1
<1> QED BY CycleSteps, <1>4, <1>5, <1>6, <1>7, <1>8, <1>9, <1>10, <1>11, <1>12

LEMMA SalesStart == CycleInit => SalesInv
<1> SUFFICES ASSUME CycleInit PROVE SalesInv
  OBVIOUS
<1>1. LimitsInv /\ ~InCycle
  BY LimitsStart DEF CycleInit, Idle, InCycle
<1>2. DOMAIN decisions = {} /\ DOMAIN orders = {}
  BY DEF CycleInit
<1> QED BY <1>1, <1>2 DEF SalesInv, Labelled, Covered, OpenIn, Tables

(* Without a shadow session no approved sale exceeds the shares held when  *)
(* its cycle is over: what review_and_persist asserts of its own ledger,   *)
(* and what the run cycle_oversold refutes, is lost to shadow approvals    *)
(* alone.                                                                  *)
THEOREM FillsOnlySalesHeld ==
    ASSUME Modes = {"fills"}
    PROVE  CycleSpec => []AcceptedSalesHeld
<1>1. SalesInv => AcceptedSalesHeld
  BY CoveredIsHeld DEF SalesInv, LimitsInv, AtomicInv, LedgerInv, AcceptedSalesHeld
<1> QED BY <1>1, SalesStart, SalesStep, PTL DEF CycleSpec
=============================================================================

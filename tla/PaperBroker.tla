---------------------------- MODULE PaperBroker ----------------------------
(***************************************************************************)
(* The arithmetic of strategy/paper_broker.py: what a simulated execution  *)
(* costs.  Rates are whole basis points, and every charge is rounded up to *)
(* a whole KRW, against the account.                                       *)
(***************************************************************************)
EXTENDS Integers

CONSTANTS FeeBps, SellTaxBps, SlippageBps    \* the ExecutionPolicy

ASSUME ExecutionAssumption ==
    FeeBps \in 0 .. 10000 /\ SellTaxBps \in 0 .. 10000 /\ SlippageBps \in 0 .. 10000

CeilDiv(value, divisor) == (value + divisor - 1) \div divisor

SlipPerShare(reference) == CeilDiv(reference * SlippageBps, 10000)

FillPrice(side, reference) ==
    IF side = "BUY" THEN reference + SlipPerShare(reference)
                    ELSE reference - SlipPerShare(reference)

Fee(gross)       == CeilDiv(gross * FeeBps, 10000)
Tax(side, gross) == IF side = "SELL" THEN CeilDiv(gross * SellTaxBps, 10000) ELSE 0
=============================================================================

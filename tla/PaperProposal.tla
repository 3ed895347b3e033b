--------------------------- MODULE PaperProposal ---------------------------
(***************************************************************************)
(* From the engine's rows to the review: propose (strategy/paper_agent.py),*)
(* the conversion of its proposal into an order proposal in run_cycle      *)
(* (strategy/paper_cycle.py), and the reviews and executions of            *)
(* PaperRiskGate.  Besides, every request of PaperRiskGate is reviewed.    *)
(*                                                                         *)
(* The snapshot may be the engine's, or one with anything put into it: the *)
(* boundary does not rely on who made it.  What the model answers is the   *)
(* choice of an answer of the set Answers.                                 *)
(***************************************************************************)
EXTENDS PaperAgent, PaperRiskGate

CONSTANTS
    Inputs,       \* [selected, snapshot, cutoff, hash], see below
    Books,        \* requests without an action, to propose for
    Answers(_)    \* what a model may answer to a request

(* The schema of the feature snapshots checks the status of a row. *)
ASSUME InputsAssumption ==
    \A i \in Inputs : \A n \in DOMAIN i.selected : i.selected[n].status \in Statuses

ASSUME BooksAssumption == Books \subseteq {r \in Request : RequestValid(r) /\ r.action = "ABSTAIN"}

VARIABLES
    stage,          \* "build", "ask", "proposed", "review", "raised" or "done"
    input,          \* what propose is called with, << >> for a bare review
    model_request,  \* << >> before it is built
    called,         \* whether the transport was called
    proposal        \* << >> before there is one

boundary == <<input, model_request, called, proposal>>
everything == <<gate, stage, boundary>>

ProposalInit ==
    /\ result = NotReviewed
    /\ model_request = << >> /\ called = FALSE /\ proposal = << >>
    /\ \/ request \in Requests /\ stage = "review" /\ input = << >>
       \/ request \in Books /\ stage = "build" /\ input \in Inputs

-----------------------------------------------------------------------------
(***************************************************************************)
(* FeatureEngine.build_symbol on the rows selected for a cutoff: the lists *)
(* are made of all of them, the groups of those that have one.             *)
(***************************************************************************)
EngineLists(selected) ==
    LET Has(n, statuses) == n \in DOMAIN selected /\ selected[n].status \in statuses
        Null(n)  == n \in DOMAIN selected /\ selected[n].value = NoValue
        missing  == (Required \ DOMAIN selected)
                      \cup {n \in Required : Null(n) \/ Has(n, {"MISSING_REQUIRED", "MISSING_OPTIONAL",
                                                                "LICENSE_BLOCKED"})}
        stale    == {n \in Required : Has(n, {"STALE"})}
        optional == {n \in Optional : \/ n \notin DOMAIN selected
                                      \/ Has(n, {"MISSING_OPTIONAL", "MISSING_REQUIRED"})
                                      \/ Null(n) /\ ~Has(n, {"LICENSE_BLOCKED"})}
        state    == IF missing # {} THEN "MISSING_REQUIRED_DATA" ELSE IF stale # {} THEN "STALE_DATA"
                    ELSE IF optional # {} THEN "PARTIAL_DATA" ELSE "READY"
    IN  [missing_required |-> missing, stale_required |-> stale, missing_optional |-> optional,
         license_blocked |-> {n \in DOMAIN selected : Has(n, {"LICENSE_BLOCKED"})},
         state |-> state, scoring_allowed |-> state \in {"READY", "PARTIAL_DATA"}]

WithId(s) == [s EXCEPT !.output_id = Payload(s)]

EngineOutput(selected, cutoff) ==
    LET lists  == EngineLists(selected)
        routed == [n \in {m \in DOMAIN selected : GroupOf[m] # Unrouted} |-> selected[n]]
    IN  WithId([missing_required |-> lists.missing_required, stale_required |-> lists.stale_required,
                missing_optional |-> lists.missing_optional, license_blocked |-> lists.license_blocked,
                state |-> lists.state, scoring_allowed |-> lists.scoring_allowed,
                rows |-> routed, cutoff |-> cutoff, as_of |-> cutoff, caps |-> CapOf,
                contributions |-> [g \in Groups |-> ContributionBps(routed, g, CapOf[g])],
                exact |-> TRUE, output_id |-> << >>])

-----------------------------------------------------------------------------
(***************************************************************************)
(* propose                                                                 *)
(***************************************************************************)
BuildProposalRequest ==
    /\ stage = "build"
    /\ IF LineageForged(input.snapshot, input.cutoff, input.hash)
       THEN stage' = "raised" /\ UNCHANGED model_request
       ELSE /\ stage' = "ask"
            /\ model_request' = ModelRequest(input.snapshot, input.cutoff, request, MaxPositionBps)
    /\ UNCHANGED <<gate, input, called, proposal>>

AbstainOnData ==
    /\ stage = "ask" /\ model_request.reason # "none"
    /\ proposal' = Abstain(model_request, model_request.reason)
    /\ stage' = "proposed"
    /\ UNCHANGED <<gate, input, model_request, called>>

(* A time limit, an exception, the sentinel of the offline bundle, or an   *)
(* answer to validate.                                                     *)
AskModel ==
    /\ stage = "ask" /\ model_request.reason = "none"
    /\ called' = TRUE
    /\ \/ \E reason \in {"MODEL_TIMEOUT", "MODEL_PROVIDER_ERROR", "OFFLINE_SHADOW_MODE"} :
            proposal' = Abstain(model_request, reason)
       \/ \E answer \in Answers(model_request) : proposal' = Validated(answer, model_request)
    /\ stage' = "proposed"
    /\ UNCHANGED <<gate, input, model_request>>

(* A target that is an integer too large for a float raises in isfinite,   *)
(* and what it raises is none of the errors propose turns into an ABSTAIN: *)
(* the cycle has no proposal and is rolled back (Crash of PaperCycle).     *)
AnswerOverflows ==
    /\ stage = "ask" /\ model_request.reason = "none"
    /\ called' = TRUE
    /\ stage' = "raised"
    /\ UNCHANGED <<gate, input, model_request, proposal>>

-----------------------------------------------------------------------------
(***************************************************************************)
(* run_cycle: int(round(target * 100)) of the target in percent.  The      *)
(* product is a binary fraction, so a half goes to either side.            *)
(***************************************************************************)
TruncatedBps(target) == {target \div 10}              \* mutant: int() without round()
StartedBps(target)   == {(target + 9) \div 10}        \* mutant: a started basis point counts
NearestBps(target) ==
    {b \in {target \div 10, target \div 10 + 1} : Clamped(10 * b - target, 5) = 10 * b - target}

Decide ==
    /\ stage = "proposed"
    /\ IF proposal.action \notin {"ENTER", "REDUCE", "EXIT"}
       THEN stage' = "done" /\ UNCHANGED gate
       ELSE \E bps \in NearestBps(proposal.target) :
              (* append_order_proposal, and the review again *)
              IF (proposal.action \in {"ENTER", "REDUCE"}) # (bps > 0)
              THEN stage' = "raised" /\ UNCHANGED gate
              ELSE /\ stage' = "review"
                   /\ request' = [request EXCEPT !.action = proposal.action, !.target = bps]
                   /\ UNCHANGED result
    /\ UNCHANGED boundary

ReviewOrExecute == stage = "review" /\ Next /\ UNCHANGED <<stage, boundary>>

ProposalNext ==
    \/ BuildProposalRequest \/ AbstainOnData \/ AskModel \/ AnswerOverflows
    \/ Decide \/ ReviewOrExecute

ProposalSpec == ProposalInit /\ [][ProposalNext]_everything

-----------------------------------------------------------------------------
(***************************************************************************)
(* Properties                                                              *)
(***************************************************************************)
Proposed == proposal # << >>

(* The model is asked only about data that is there, current and not newer *)
(* than the cutoff, whatever the lists of the snapshot say of it.          *)
TransportOnlyOnGoodData ==
    called => \A n \in Required :
        /\ n \in DOMAIN input.snapshot.rows
        /\ input.snapshot.rows[n].status = "READY" /\ input.snapshot.rows[n].value # NoValue
        /\ input.snapshot.rows[n].at <= input.cutoff

(* The boundary repeats the engine's derivations instead of calling them.  *)
(* The two agree: no snapshot the engine makes is called invalid, but for  *)
(* a blocked row that has no group and a row that should have a value, has *)
(* none, and is neither required nor optional.                             *)
EngineSnapshotsPass ==
    (model_request # << >> /\ input.snapshot = EngineOutput(input.selected, input.cutoff)) =>
        \/ model_request.reason # "DATA_SNAPSHOT_INVALID"
        \/ \E n \in DOMAIN input.selected :
             LET row == input.selected[n] IN
             \/ GroupOf[n] = Unrouted /\ row.status = "LICENSE_BLOCKED"
             \/ n \notin Required \cup Optional /\ row.value = NoValue
                  /\ row.status \in {"READY", "STALE"}

(* A proposal blames the data exactly when the model was not asked: no     *)
(* answer can pass itself off as a data problem.                           *)
ReasonTruthful ==
    (Proposed /\ proposal.action = "ABSTAIN") => (proposal.reason \in DataReasons <=> ~called)

(* A validated proposal is always recorded, with one exception: a target   *)
(* above 0 of at most half a basis point becomes 0, contradicts its        *)
(* action, and the cycle raises.                                           *)
OnlyTinyTargetsRaise ==
    (stage = "raised" /\ Proposed) =>
        proposal.action \in {"ENTER", "REDUCE"} /\ proposal.target \in 1 .. 5

(* What an accepted review leaves is the exposure the model asked for, to  *)
(* half a basis point: a purchase does not exceed it, a sale does not stay *)
(* above it nor sell a whole share more than it asks for.                  *)
ApprovedNearTarget ==
    (Proposed /\ Accepted(result)) =>
        LET after    == request.holdings + Signed(request, result.quantity)
            Value(q) == q * request.price * 100000
        IN  /\ Value(after) <= request.nav * (proposal.target + 5)
            /\ ~Buying(request) => Value(after + 1) > request.nav * (proposal.target - 5)
=============================================================================

----------------------------- MODULE PaperAgent -----------------------------
(***************************************************************************)
(* The single-symbol proposal boundary of strategy/paper_agent.py as       *)
(* operators: is a feature snapshot good enough to ask the model at all,   *)
(* what evidence may be cited, and is an answer a valid proposal.          *)
(*                                                                         *)
(* The two symbols never meet here, so there is one.  A digest is its      *)
(* preimage; an identifier of evidence is the item with what it is bound   *)
(* to.  Exposures are in thousandths of a percent (a tenth of a basis      *)
(* point), so that a target the ledger's basis points cannot express       *)
(* exists; the tolerance of a billionth of a percent is 0.  The canonical  *)
(* copy a text must equal is one Boolean of a proposal, its closed schema, *)
(* types and identity fields another.                                      *)
(***************************************************************************)
EXTENDS Integers, FiniteSetsExt

CONSTANTS
    Required, Optional,   \* feature names
    GroupOf,              \* [name -> group, or Unrouted]
    Unrouted,
    Returns, Flows,       \* the names that vote
    CapOf                 \* [group -> basis points], the default caps

Groups == DOMAIN CapOf

(* Every required and every optional feature has a group by its name alone. *)
ASSUME AgentAssumption ==
    /\ Required \cup Optional \cup Returns \cup Flows \subseteq DOMAIN GroupOf
    /\ \A n \in DOMAIN GroupOf : GroupOf[n] \in Groups \cup {Unrouted}
    /\ Unrouted \notin Groups /\ CapOf \in [Groups -> Nat]
    /\ \A n \in Required \cup Optional : GroupOf[n] # Unrouted

Statuses == {"READY", "STALE", "MISSING_REQUIRED", "MISSING_OPTIONAL", "LICENSE_BLOCKED"}

NoValue == << >>   \* a value is << >> or <<number>>

-----------------------------------------------------------------------------
(***************************************************************************)
(* A snapshot: rows is a partial function from names to rows [status,      *)
(* value, at, kst], kst being whether source_as_of is a time with the      *)
(* +09:00 offset (a date alone is not).  exact: every object has exactly   *)
(* the type the engine emits.                                              *)
(***************************************************************************)
Votes(rows, g) == {n \in DOMAIN rows : GroupOf[n] = g /\ n \in Returns \cup Flows
                                        /\ rows[n].status = "READY" /\ rows[n].value # NoValue}

Clamped(x, bound) == IF x > bound THEN bound ELSE IF x < -bound THEN -bound ELSE x

(* Net quantities vote a basis point per thousand shares, within 1000. *)
SignalBps(row, n) == IF n \in Flows THEN Clamped(row.value[1], 1000) ELSE row.value[1]

(* round() of a quotient: to the even neighbour when halfway *)
Rounded(a, b) ==
    LET q == a \div b
        twice == 2 * (a % b)
    IN  IF twice < b \/ (twice = b /\ q % 2 = 0) THEN q ELSE q + 1

ContributionBps(rows, g, cap) ==
    LET votes == Votes(rows, g)
        Vote(n) == SignalBps(rows[n], n)
    IN  IF votes = {} THEN 0
        ELSE Clamped(Rounded(MapThenSumSet(Vote, votes), Cardinality(votes)), cap)

Lists(s) == [missing_required |-> s.missing_required, stale_required |-> s.stale_required,
             missing_optional |-> s.missing_optional, license_blocked |-> s.license_blocked,
             state |-> s.state, scoring_allowed |-> s.scoring_allowed]

(* What the lists, the state and the flag must be, from the rows alone. *)
Is(s, n, statuses) == n \in DOMAIN s.rows /\ s.rows[n].status \in statuses
Valued(s, n)       == n \in DOMAIN s.rows /\ s.rows[n].value # NoValue

DerivedMissingRequired(s) ==
    {n \in Required : Is(s, n, {"MISSING_REQUIRED", "MISSING_OPTIONAL", "LICENSE_BLOCKED"})
                      \/ ~Valued(s, n)}
DerivedStaleRequired(s)   == {n \in Required : Is(s, n, {"STALE"})}
DerivedMissingOptionalStrict(s) ==  \* mutant: a blocked feature counts as missing
    {n \in Optional : Is(s, n, {"MISSING_OPTIONAL", "MISSING_REQUIRED"}) \/ ~Valued(s, n)}
DerivedMissingOptional(s) ==
    {n \in Optional : \/ n \notin DOMAIN s.rows
                      \/ Is(s, n, {"MISSING_OPTIONAL", "MISSING_REQUIRED"})
                      \/ ~Valued(s, n) /\ ~Is(s, n, {"LICENSE_BLOCKED"})}
DerivedLicenseBlocked(s)  == {n \in DOMAIN s.rows : Is(s, n, {"LICENSE_BLOCKED"})}
DerivedState(s) ==
    IF DerivedMissingRequired(s) # {} THEN "MISSING_REQUIRED_DATA"
    ELSE IF DerivedStaleRequired(s) # {} THEN "STALE_DATA"
    ELSE IF DerivedMissingOptional(s) # {} THEN "PARTIAL_DATA" ELSE "READY"

DerivedLists(s) ==
    [missing_required |-> DerivedMissingRequired(s), stale_required |-> DerivedStaleRequired(s),
     missing_optional |-> DerivedMissingOptional(s), license_blocked |-> DerivedLicenseBlocked(s),
     state |-> DerivedState(s), scoring_allowed |-> DerivedState(s) \in {"READY", "PARTIAL_DATA"}]

NamedUnavailable(s) == s.missing_required \cup s.missing_optional \cup s.license_blocked

StructureTrusted(s) ==  \* mutant: the lists are not derived again
    \A n \in DOMAIN s.rows : GroupOf[n] # Unrouted
StructureCanonical(s) ==
    /\ \A n \in DOMAIN s.rows : GroupOf[n] # Unrouted /\ Is(s, n, Statuses)
    /\ \A g \in Groups : /\ s.caps[g] = CapOf[g]
                         /\ s.contributions[g] = ContributionBps(s.rows, g, CapOf[g])
    /\ Lists(s) = DerivedLists(s)
    /\ \A n \in DOMAIN s.rows : Is(s, n, {"READY", "STALE"}) /\ ~Valued(s, n)
                                  => n \in NamedUnavailable(s)

(* One consistent view of time: nothing was observed after the cutoff. *)
TimesConsistent(s, cutoff) ==
    /\ s.cutoff = cutoff /\ s.cutoff <= s.as_of
    /\ \A n \in DOMAIN s.rows : s.rows[n].kst /\ s.rows[n].at <= s.cutoff

(* What the copy of exact values refuses. *)
Normalized(s) == s.exact

Payload(s)  == <<Lists(s), s.cutoff, s.as_of, s.rows, s.caps, s.contributions>>

(* Why the model must not be asked, "none" if it may be. *)
PreModelAbstainReason(s, cutoff) ==
    IF ~Normalized(s) \/ ~StructureCanonical(s) THEN "DATA_SNAPSHOT_INVALID"
    ELSE IF ~TimesConsistent(s, cutoff) THEN "DATA_CUTOFF_INCONSISTENT"
    ELSE IF s.license_blocked \cap Required # {} THEN "DATA_RESTRICTED_REQUIRED"
    ELSE IF s.missing_required \ s.license_blocked # {} THEN "DATA_MISSING_REQUIRED"
    ELSE IF s.stale_required # {} THEN "DATA_STALE_REQUIRED"
    ELSE IF ~s.scoring_allowed THEN "SCORING_NOT_ALLOWED"
    ELSE IF s.output_id # Payload(s) THEN "DATA_SNAPSHOT_INVALID"
    ELSE "none"

DataReasons == {"DATA_MISSING_REQUIRED", "DATA_STALE_REQUIRED", "DATA_RESTRICTED_REQUIRED",
                "DATA_CUTOFF_INCONSISTENT", "DATA_SNAPSHOT_INVALID", "SCORING_NOT_ALLOWED"}
FailureReasons == {"MODEL_TIMEOUT", "MODEL_PROVIDER_ERROR", "MODEL_OUTPUT_INVALID"}
ModelReasons   == {"NO_EDGE"}
AbstainReasons == DataReasons \cup FailureReasons \cup ModelReasons \cup {"OFFLINE_SHADOW_MODE"}

-----------------------------------------------------------------------------
(***************************************************************************)
(* Evidence: the request itself, every row, every group, and every name    *)
(* the lists call unavailable that has no row; each bound to the whole     *)
(* context of the request (holdings, policy, lineage)                      *)
(***************************************************************************)
Evidence(kind, name, status, context) ==
    [kind |-> kind, name |-> name, status |-> status, context |-> context]

Anchor(context) == Evidence("request_lineage", "request", "LINEAGE", context)

SnapshotEvidence(s, context) ==
    {Evidence("feature", n, s.rows[n].status, context) : n \in DOMAIN s.rows}
      \cup {Evidence("group_contribution", g, "AGGREGATED", context) : g \in Groups}
      \cup {Evidence("data_gap", n, "MISSING", context) :
              n \in (NamedUnavailable(s) \cup s.stale_required) \ DOMAIN s.rows}

Catalog(s, reason, context) ==
    {Anchor(context)} \cup IF reason = "DATA_SNAPSHOT_INVALID" THEN {} ELSE SnapshotEvidence(s, context)

Unavailable(catalog) ==
    {e \in catalog : \/ e.kind = "data_gap"
                     \/ e.kind = "feature" /\ e.status # "READY"}

(***************************************************************************)
(* A request to the model.  Its holdings are those of book, a RiskInput:   *)
(* the equalities the closed schema demands are RequestValid's.            *)
(***************************************************************************)
Holdings(book) ==
    [cash |-> book.cash, quantity |-> book.holdings, value |-> book.holdings * book.price,
     other |-> book.position_value - book.holdings * book.price, total |-> book.nav]

ModelRequest(s, cutoff, book, cap) ==
    LET reason  == PreModelAbstainReason(s, cutoff)
        context == [holdings |-> Holdings(book), cap |-> cap, cutoff |-> cutoff]
    IN  [reason |-> reason, catalog |-> Catalog(s, reason, context), context |-> context,
         holdings |-> Holdings(book), cap |-> cap]

(* A hash that is not the snapshot's raises, unless it is invalid anyway. *)
SnapshotHash(s) == <<Payload(s), s.output_id>>
LineageForged(s, cutoff, hash) ==
    PreModelAbstainReason(s, cutoff) # "DATA_SNAPSHOT_INVALID" /\ hash # SnapshotHash(s)

-----------------------------------------------------------------------------
(***************************************************************************)
(* Proposals: [action, target, confidence, cites, gaps, reason, copy,      *)
(* schema]                                                                 *)
(***************************************************************************)
Abstain(r, reason) ==
    [action |-> "ABSTAIN", target |-> 0, confidence |-> 0, reason |-> reason,
     cites |-> {e \in r.catalog : e.kind = "request_lineage"}, gaps |-> Unavailable(r.catalog),
     copy |-> TRUE, schema |-> TRUE]

CitesEvidence(p, r) == p.cites # {} /\ p.cites \subseteq r.catalog
GapsCited(p, r)     == p.gaps \subseteq Unavailable(r.catalog)

AbstainValid(p, mode) ==
    /\ p.reason \in (IF mode = "model" THEN ModelReasons ELSE AbstainReasons)
    /\ p.target = 0 /\ p.confidence = 0

ActionValid(p, r) ==
    LET wanted  == p.target * r.holdings.total       \* both sides times the NAV
        current == r.holdings.value * 100000
    IN  /\ p.reason = "none"
        /\ \E e \in p.cites : e.kind \in {"feature", "group_contribution"}
        /\ p.target <= r.cap * 10
        /\ p.action = "HOLD" => wanted = current
        /\ p.action = "ENTER" => wanted > current
        /\ p.action \in {"REDUCE", "EXIT"} => r.holdings.quantity > 0
        /\ p.action = "REDUCE" => 0 < p.target /\ wanted < current
        /\ p.action = "EXIT" => p.target = 0

ValidProposalAnyMode(p, r, mode) ==  \* mutant: internal reasons are accepted from a model
    p.schema /\ p.copy /\ CitesEvidence(p, r) /\ GapsCited(p, r)
      /\ IF p.action = "ABSTAIN" THEN AbstainValid(p, "final") ELSE ActionValid(p, r)
ValidProposal(p, r, mode) ==
    /\ p.schema /\ p.copy
    /\ p.target \in Nat /\ p.target <= 100000
    /\ p.confidence \in Nat /\ p.confidence <= 10000
    /\ CitesEvidence(p, r) /\ GapsCited(p, r)
    /\ IF p.action = "ABSTAIN" THEN AbstainValid(p, mode) ELSE ActionValid(p, r)

(* What propose makes of an answer: the gaps it left out are added.  (A    *)
(* holding that has grown beyond the cap can not be held: the policy limit *)
(* is tested before the action.)  One invalid answer is no ABSTAIN, see    *)
(* AnswerOverflows of PaperProposal.                                       *)
Validated(p, r) ==
    IF ValidProposal(p, r, "model")
    THEN [action |-> p.action, target |-> p.target, confidence |-> p.confidence,
          reason |-> p.reason, cites |-> p.cites, gaps |-> Unavailable(r.catalog),
          copy |-> p.copy, schema |-> p.schema]
    ELSE Abstain(r, "MODEL_OUTPUT_INVALID")
=============================================================================

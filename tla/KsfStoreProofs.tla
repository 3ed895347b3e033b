--------------------------- MODULE KsfStoreProofs ---------------------------
(***************************************************************************)
(* For any number of production runs, collections, symbols and days, with  *)
(* kills, failures and timeouts anywhere: whoever works on the KSF ledger  *)
(* under the writer's lock is alone; what the files contain can always be  *)
(* recovered; and those who read them without the lock are not misled.     *)
(*                                                                         *)
(* LedgerExclusive is inductive but for the shape of the processes'        *)
(* records: nobody enters without taking the free lock, and nobody but its *)
(* holder gives it back.  On it rests StoreInv: what the lock's holder saw *)
(* of the files stays so.  Of everybody's steps a reader needs to know     *)
(* only StoreGrows, and with that PaperInv and BundlesInv are kept.        *)
(***************************************************************************)
EXTENDS KsfStore, TLAPS

RunnerRecord(x) == x = [at |-> x.at, run |-> x.run, then |-> x.then, pending |-> x.pending]
CopierRecord(x) == x = [at |-> x.at, seen |-> x.seen, copied |-> x.copied]

Shaped ==
    /\ DOMAIN runner = Runners /\ runner = [r \in Runners |-> runner[r]]
    /\ \A r \in Runners : RunnerRecord(runner[r])
    /\ CopierRecord(copier)

WorkingRunner(r) == runner[r].at # "off" /\ runner[r].at # "wait"
WorkingCopier    == copier.at # "off" /\ copier.at # "wait"

(* LedgerExclusive without the set of the busy ones. *)
Holding ==
    /\ \A r \in Runners : WorkingRunner(r) => lock = r
    /\ WorkingCopier => lock = "snapshot"

ExclusionInv == Shaped /\ Holding

LEMMA HoldingMeansExclusive == Holding <=> LedgerExclusive
BY DEF Holding, LedgerExclusive, Busy, WorkingRunner, WorkingCopier, RunnerAt, CopierAt

(* What a runner's step may do: change its own record, keep the copier's,  *)
(* and the lock as its stage allows.                                       *)
LEMMA RunnerStep ==
    ASSUME ExclusionInv, NEW r \in Runners, NEW x,
           RunnerRecord(x), runner' = [runner EXCEPT ![r] = x],
           UNCHANGED copier,
           \/ /\ UNCHANGED lock
              /\ WorkingRunner(r) \/ x.at \in {"off", "wait"}
           \/ lock = "free" /\ lock' = r
           \/ WorkingRunner(r) /\ Release(r) /\ x.at = "off"
    PROVE  ExclusionInv'
<1>1. Shaped'
  BY DEF ExclusionInv, Shaped, RunnerRecord, CopierRecord
<1>2. /\ runner'[r] = x
      /\ \A q \in Runners \ {r} : runner'[q] = runner[q]
  BY DEF ExclusionInv, Shaped
<1>3. "snapshot" \notin Runners /\ "free" \notin Runners /\ "snapshot" # "free"
  BY StoreAssumption
<1>4. Holding'
  BY <1>2, <1>3 DEF ExclusionInv, Holding, WorkingRunner, WorkingCopier, Release
<1> QED BY <1>1, <1>4 DEF ExclusionInv

LEMMA RunnersKeepExclusion ==
    ASSUME ExclusionInv, NEW r \in Runners, RunnerNext(r)
    PROVE  ExclusionInv'
<1> DEFINE old == runner[r]
<1>0. /\ RunnerRecord(old)
      /\ \A stage : [runner EXCEPT ![r].at = stage] = [runner EXCEPT ![r] = [old EXCEPT !.at = stage]]
      /\ \A stage : RunnerRecord([old EXCEPT !.at = stage]) /\ [old EXCEPT !.at = stage].at = stage
  BY DEF ExclusionInv, Shaped, RunnerRecord
<1> USE DEF RunnerAt, RunnerTo, WorkingRunner, copies, locks, others, papers, clock, files
<1>1. CASE BeginRun(r)
  BY <1>0, <1>1, RunnerStep DEF BeginRun
<1>2. CASE RunnerLocked(r)
  BY <1>0, <1>2, RunnerStep DEF RunnerLocked, Acquire
<1>3. CASE RunnerTimesOut(r)
  BY <1>0, <1>3, RunnerStep DEF RunnerTimesOut
<1>4. ASSUME NEW n, NEW scored, NEW next, WorkingRunner(r), UNCHANGED <<lock, copier>>,
             Committed(r, n, scored, next)
      PROVE  ExclusionInv'
  <2>1. PICK at \in {next, "checkpoint"} :
          runner' = [runner EXCEPT ![r] = [at |-> at, run |-> n, then |-> next, pending |-> {}]]
    BY <1>4 DEF Committed
  <2>2. RunnerRecord([at |-> at, run |-> n, then |-> next, pending |-> {}])
    BY DEF RunnerRecord
  <2> QED BY <1>4, <2>1, <2>2, RunnerStep
<1>5. CASE OpenLedger(r)
  BY <1>4, <1>5 DEF OpenLedger
<1>6. CASE OpenFails(r)
  BY <1>0, <1>6, RunnerStep DEF OpenFails
<1>7. CASE CommitScores(r)
  BY <1>4, <1>7 DEF CommitScores
<1>8. CASE Collect(r)
  <2>1. PICK i \in 1 .. Len(Collections) :
          /\ RunnerAt(r, Collections[i])
          /\ Committed(r, runner[r].run, {},
                       IF i = Len(Collections) THEN "score" ELSE Collections[i + 1])
    BY <1>8 DEF Collect
  <2>2. WorkingRunner(r)
    BY <2>1, StoreAssumption
  <2> QED BY <1>4, <1>8, <2>1, <2>2 DEF Collect
<1>9. CASE FinishCheckpoint(r)
  BY <1>0, <1>9, RunnerStep DEF FinishCheckpoint
<1>10. CASE ScoreSymbol(r)
  <2>1. PICK done : runner' = [runner EXCEPT ![r] = [old EXCEPT !.pending = done]]
    BY <1>10 DEF ScoreSymbol, ExclusionInv, Shaped
  <2>2. RunnerRecord([old EXCEPT !.pending = done])
    BY <1>0 DEF RunnerRecord
  <2> QED BY <1>10, <2>1, <2>2, RunnerStep DEF ScoreSymbol
<1>11. CASE StageFails(r)
  <2> DEFINE x == [[old EXCEPT !.at = "close"] EXCEPT !.pending = {}]
  <2>1. runner' = [runner EXCEPT ![r] = x]
    <3>1. runner' = [[runner EXCEPT ![r].at = "close"] EXCEPT ![r].pending = {}]
      BY <1>11, Zenon DEF StageFails
    <3>2. [runner EXCEPT ![r].at = "close"] = [runner EXCEPT ![r] = [old EXCEPT !.at = "close"]]
      BY <1>0
    <3>3. DOMAIN runner = Runners
      BY DEF ExclusionInv, Shaped
    <3> QED BY <3>1, <3>2, <3>3
  <2>2. WorkingRunner(r)
    BY <1>11, StoreAssumption DEF StageFails, CollectStages
  <2>3. RunnerRecord(x)
    <3>1. \A y : RunnerRecord(y) => RunnerRecord([y EXCEPT !.pending = {}])
      BY DEF RunnerRecord
    <3> QED BY <1>0, <3>1
  <2> HIDE DEF x
  <2> QED BY <1>11, <2>1, <2>2, <2>3, RunnerStep DEF StageFails
<1>12. CASE CloseLedger(r)
  <2>1. CASE main = Len(log)
    BY <1>0, <1>12, <2>1, RunnerStep DEF CloseLedger
  <2>2. CASE main # Len(log)
    <3>1. runner' = [runner EXCEPT ![r] = [at |-> "checkpoint", run |-> old.run,
                                           then |-> "unlink", pending |-> {}]]
      BY <1>12, <2>2 DEF CloseLedger, ExclusionInv, Shaped
    <3>2. RunnerRecord([at |-> "checkpoint", run |-> old.run, then |-> "unlink", pending |-> {}])
      BY DEF RunnerRecord
    <3> QED BY <1>12, <2>2, <3>1, <3>2, RunnerStep DEF CloseLedger
  <2> QED BY <2>1, <2>2
<1>13. CASE RemoveSidecar(r)
  BY <1>13 DEF RemoveSidecar, ExclusionInv, Shaped, Holding, RunnerRecord, CopierRecord, WorkingCopier
<1>14. RunnerRecord(Off)
  BY DEF RunnerRecord, Off
<1>15. CASE EndRun(r) \/ RunnerDies(r)
  BY <1>14, <1>15, RunnerStep DEF EndRun, RunnerDies, Off
<1> QED BY <1>1, <1>2, <1>3, <1>5, <1>6, <1>7, <1>8, <1>9, <1>10, <1>11, <1>12, <1>13, <1>15
        DEF RunnerNext

LEMMA CopierStep ==
    ASSUME ExclusionInv, NEW x, CopierRecord(x), copier' = x, UNCHANGED runner,
           \/ /\ UNCHANGED lock
              /\ WorkingCopier \/ x.at \in {"off", "wait"}
           \/ lock = "free" /\ lock' = "snapshot"
           \/ Release("snapshot") /\ x.at = "off"
    PROVE  ExclusionInv'
<1>1. Shaped'
  BY DEF ExclusionInv, Shaped, RunnerRecord, CopierRecord
<1>2. "snapshot" \notin Runners /\ "free" \notin Runners
  BY StoreAssumption
<1>3. Holding'
  BY <1>2 DEF ExclusionInv, Holding, WorkingRunner, WorkingCopier, Release
<1> QED BY <1>1, <1>3 DEF ExclusionInv

LEMMA CopierKeepsExclusion ==
    ASSUME ExclusionInv, CopierNext
    PROVE  ExclusionInv'
<1>1. \A at, seen, copied : CopierRecord([at |-> at, seen |-> seen, copied |-> copied])
  BY DEF CopierRecord
<1>2. copier = [at |-> copier.at, seen |-> copier.seen, copied |-> copier.copied]
  BY DEF ExclusionInv, Shaped, CopierRecord
<1> USE DEF CopierAt, CopierTo, WorkingCopier, CopyEnds, CopyOff, locks, clock, files, papers
<1>3. CASE BeginCopy
  BY <1>1, <1>2, <1>3, CopierStep DEF BeginCopy
<1>4. CASE CopierLocked
  BY <1>1, <1>2, <1>4, CopierStep DEF CopierLocked, Acquire
<1>5. CASE CopierTimesOut
  BY <1>1, <1>2, <1>5, CopierStep DEF CopierTimesOut
<1>6. CASE LookAtSidecars
  BY <1>1, <1>2, <1>6, CopierStep DEF LookAtSidecars
<1>7. CASE CopyThroughWal \/ CopyMainFile
  BY <1>1, <1>2, <1>7, CopierStep DEF CopyThroughWal, CopyMainFile
<1>8. CASE PublishCopy \/ CopyFails
  BY <1>1, <1>2, <1>8, CopierStep DEF PublishCopy, CopyFails
<1> QED BY <1>3, <1>4, <1>5, <1>6, <1>7, <1>8 DEF CopierNext

LEMMA OthersKeepExclusion ==
    ASSUME ExclusionInv, UNCHANGED <<lock, runner, copier>>
    PROVE  ExclusionInv'
BY DEF ExclusionInv, Shaped, Holding, RunnerRecord, CopierRecord, WorkingRunner, WorkingCopier

LEMMA PaperTouchesNoLock ==
    ASSUME PaperNext \/ Tick \/ UNCHANGED vars
    PROVE  UNCHANGED <<lock, runner, copier>>
BY DEF PaperNext, Tick, HashSource, LoadSymbol, NameCycle, CheckSource, PublishBundle, HandOver,
       TakeHandoff, RunCycle, PaperFails, vars, others, clock, files, locks, copies

LEMMA ExclusionInvariance == Spec => []ExclusionInv
<1>1. Init => ExclusionInv
  BY DEF Init, ExclusionInv, Shaped, Holding, RunnerRecord, CopierRecord, WorkingRunner,
         WorkingCopier, Off, CopyOff
<1>2. ExclusionInv /\ [Next]_vars => ExclusionInv'
  BY RunnersKeepExclusion, CopierKeepsExclusion, PaperTouchesNoLock, OthersKeepExclusion DEF Next
<1> QED BY <1>1, <1>2, PTL DEF Spec

(* The production runs and the dashboard's snapshot exclude each other     *)
(* from the first look at the ledger to the last, however many there are   *)
(* and wherever they are killed.                                           *)
THEOREM LedgerAlwaysExclusive == Spec => []LedgerExclusive
BY ExclusionInvariance, HoldingMeansExclusive, PTL DEF ExclusionInv

-----------------------------------------------------------------------------
(***************************************************************************)
(* What the files hold.  Four more invariants, by whom they speak of: the  *)
(* files, the production runs, the dashboard's copy, the paper unit.       *)
(***************************************************************************)
(* What the main file lacks is in the WAL.                                 *)
FilesInv ==
    /\ now \in 2 .. MaxNow /\ lock \in Runners \cup {"free", "snapshot"}
    /\ runs \in Seq(Nat) /\ log \in Seq([run : Nat, scored : SUBSET Symbols])
    /\ \A i \in 1 .. Len(log) : log[i].run \in 1 .. Len(runs)
    /\ main \in 0 .. Len(log) /\ torn \in BOOLEAN /\ sidecars \subseteq {"wal", "shm"}
    /\ "wal" \notin sidecars => main = Len(log)
    /\ torn => main < Len(log)
    /\ published \in 0 .. Len(log)

(* A run that may still commit has the WAL beside the main file; one that  *)
(* removes it has copied all of it.                                        *)
Committing == CollectStages \cup {"score", "close", "checkpoint"}
RunnerOK(x) ==
    /\ x.at \in Committing \cup {"off", "wait", "open", "unlink"}
    /\ x.at \in Committing => "wal" \in sidecars /\ x.run \in 1 .. Len(runs)
    /\ x.at = "checkpoint" => torn /\ x.then \in CollectStages \cup {"score", "close", "unlink"}
    /\ x.at = "unlink" => main = Len(log)
RunnersInv == \A r \in Runners : RunnerOK(runner[r])

(* What the copier saw is still so: it holds the lock.                     *)
CopierInv ==
    /\ copier.at = "copy" => copier.seen = sidecars
    /\ copier.at = "publish" => copier.copied = Len(log)

StoreInv == FilesInv /\ RunnersInv /\ CopierInv

KnownCycle(c) == c.session \in Sessions /\ c.runs \in 0 .. Len(runs)

(* A bundle whose source was whole names the runs that source has.         *)
MatchesHash(b) ==
    /\ KnownCycle(b.cycle)
    /\ b.hash[1] = "whole" =>
         /\ b.hash[2] \in 0 .. Len(log)
         /\ \A symbol \in Symbols : b.lineage[symbol] = Lineage(b.cycle, symbol, b.hash[2])

PaperRecord(x) == x = [at |-> x.at, role |-> x.role, cycle |-> x.cycle, hash |-> x.hash,
                       lineage |-> x.lineage, bundle |-> x.bundle]

Begun(p) ==
    /\ PaperRecord(p) /\ p.at \in {"hash", "read", "publish", "handover"}
    /\ KnownCycle(p.cycle) /\ p.role \in {"producer", "agent"}
    /\ p.role = "producer" => p.cycle.number = productions
    /\ p.role = "agent" => /\ bundles[p.cycle.session] # None
                           /\ p.bundle = bundles[p.cycle.session]

(* While the main file still has the hash the paper unit took of it, what  *)
(* it has read so far is what that file says.                              *)
ReadSoFar(p) ==
    /\ p.hash[2] \in 0 .. main
    /\ p.hash = <<"whole", main>> /\ ~torn =>
         \A s \in DOMAIN p.lineage : p.lineage[s] = Lineage(p.cycle, s, main)

PaperInv ==
    paper.at # "off" =>
        /\ Begun(paper)
        /\ paper.at = "hash" => paper.lineage = << >>
        /\ paper.at = "read" => ReadSoFar(paper)
        /\ paper.at \in {"publish", "handover"} => paper.role = "producer"
        /\ paper.at = "publish" => MatchesHash(paper)
        /\ paper.at = "handover" => /\ bundles[paper.cycle.session] # None
                                    /\ bundles[paper.cycle.session].cycle = paper.cycle

BundlesInv ==
    /\ DOMAIN bundles = Sessions /\ DOMAIN cycles = Sessions
    /\ productions \in 0 .. MaxProductions
    /\ \A s \in Sessions : bundles[s] # None => MatchesHash(bundles[s])
    /\ handoff # None => KnownCycle(handoff)
    /\ HandoffCurrent /\ CycleOfItsBundle

LineageInv == StoreInv /\ PaperInv /\ BundlesInv

(* What no step of anybody does: take back a run or a commit, shorten the  *)
(* main file, or mend a torn one without lengthening it.  So a hash that   *)
(* is still true of the file has been true all the time.                   *)
StoreGrows ==
    /\ runs' \in Seq(Nat) /\ Len(runs) <= Len(runs') /\ \A n \in 1 .. Len(runs) : runs'[n] = runs[n]
    /\ Len(log) <= Len(log') /\ \A i \in 1 .. Len(log) : log'[i] = log[i]
    /\ main <= main' /\ (main' = main /\ ~torn' => ~torn)

LEMMA StageNames ==
    /\ CollectStages \cap {"off", "wait", "open", "checkpoint", "score", "close", "unlink"} = {}
    /\ 1 \in 1 .. Len(Collections) /\ Len(Collections) \in Nat
    /\ \A i \in 1 .. Len(Collections) : Collections[i] \in CollectStages
BY StoreAssumption DEF CollectStages

LEMMA RunnerMoves ==
    ASSUME ExclusionInv, RunnersInv, CopierInv, NEW r \in Runners, NEW x,
           runner' = [runner EXCEPT ![r] = x], UNCHANGED copier,
           WorkingRunner(r) \/ UNCHANGED files, RunnerOK(x)',
           WorkingRunner(r) \/ UNCHANGED runs
    PROVE  RunnersInv' /\ CopierInv'
<1>1. /\ runner'[r] = x
      /\ \A q \in Runners \ {r} : runner'[q] = runner[q]
  BY DEF ExclusionInv, Shaped
<1>2. "snapshot" \notin Runners
  BY StoreAssumption
<1>3. CASE WorkingRunner(r)
  <2>1. ~WorkingCopier /\ \A q \in Runners \ {r} : ~WorkingRunner(q)
    BY <1>2, <1>3 DEF ExclusionInv, Holding
  <2>2. CopierInv'
    BY <2>1 DEF CopierInv, WorkingCopier
  <2>3. ASSUME NEW q \in Runners \ {r} PROVE RunnerOK(runner[q])'
    BY <1>1, <2>1, <2>3, StageNames DEF WorkingRunner, RunnerOK, Committing
  <2> QED BY <1>1, <2>2, <2>3 DEF RunnersInv
<1>4. CASE UNCHANGED files /\ UNCHANGED runs
  BY <1>1, <1>4 DEF RunnersInv, RunnerOK, CopierInv, files
<1> QED BY <1>3, <1>4

LEMMA ElementOfSeq ==
    ASSUME NEW S, NEW s \in Seq(S), NEW i \in 1 .. Len(s)
    PROVE  s[i] \in S
OBVIOUS

LEMMA AppendFacts ==
    ASSUME NEW S, NEW s \in Seq(S), NEW e \in S
    PROVE  /\ Append(s, e) \in Seq(S) /\ Len(s) \in Nat /\ Len(Append(s, e)) = Len(s) + 1
           /\ \A i \in 1 .. Len(s) : Append(s, e)[i] = s[i]
           /\ \A i \in 1 .. Len(Append(s, e)) : \/ i \in 1 .. Len(s) /\ Append(s, e)[i] = s[i]
                                                \/ Append(s, e)[i] = e
OBVIOUS

(* A commit, in a run that is under way or has just begun.                 *)
LEMMA CommitKeepsStore ==
    ASSUME ExclusionInv, StoreInv, NEW r \in Runners, WorkingRunner(r),
           NEW n, NEW scored \in SUBSET Symbols, NEW next \in CollectStages \cup {"score", "close"},
           Committed(r, n, scored, next), "wal" \in sidecars', sidecars' \subseteq {"wal", "shm"},
           n \in 1 .. Len(runs'),
           runs' \in Seq(Nat), Len(runs) <= Len(runs'), \A i \in 1 .. Len(runs) : runs'[i] = runs[i],
           UNCHANGED <<now, lock, copier, published>>
    PROVE  StoreInv' /\ StoreGrows
<1> DEFINE commit == [run |-> n, scored |-> scored]
<1>1. PICK at \in {next, "checkpoint"} :
        /\ runner' = [runner EXCEPT ![r] = [at |-> at, run |-> n, then |-> next, pending |-> {}]]
        /\ torn' = (torn \/ at = "checkpoint")
  BY DEF Committed
<1>2. /\ log' = Append(log, commit) /\ main' = main
      /\ runs \in Seq(Nat) /\ log \in Seq([run : Nat, scored : SUBSET Symbols])
      /\ main \in 0 .. Len(log) /\ published \in 0 .. Len(log) /\ torn \in BOOLEAN
      /\ \A i \in 1 .. Len(log) : log[i].run \in 1 .. Len(runs)
  BY DEF Committed, StoreInv, FilesInv
<1>3. commit \in [run : Nat, scored : SUBSET Symbols] /\ commit.run = n
  BY <1>2
<1> HIDE DEF commit
<1>4. /\ log' \in Seq([run : Nat, scored : SUBSET Symbols])
      /\ Len(log) \in Nat /\ Len(log') = Len(log) + 1
      /\ \A i \in 1 .. Len(log) : log'[i] = log[i]
      /\ \A i \in 1 .. Len(log') : (i \in 1 .. Len(log) /\ log'[i] = log[i]) \/ log'[i] = commit
  BY <1>2, <1>3, AppendFacts
<1>5. Len(runs) \in Nat /\ Len(runs') \in Nat
  BY <1>2
<1>6. \A i \in 1 .. Len(log') : log'[i].run \in 1 .. Len(runs')
  <2>1. \A i \in 1 .. Len(log) : log[i].run \in 1 .. Len(runs)
    BY <1>2
  <2>2. ASSUME NEW i \in 1 .. Len(log') PROVE log'[i].run = n \/ log'[i].run \in 1 .. Len(runs)
    BY <1>3, <1>4, <2>1, Zenon
  <2> QED BY <1>5, <2>2
<1>7. FilesInv'
  <2>1. now \in 2 .. MaxNow /\ lock \in Runners \cup {"free", "snapshot"} /\ main < Len(log')
    BY <1>2, <1>4 DEF StoreInv, FilesInv
  <2>2. main' \in 0 .. Len(log') /\ published' \in 0 .. Len(log')
    BY <1>2, <1>4
  <2> QED BY <1>1, <1>2, <1>4, <1>6, <2>1, <2>2 DEF FilesInv
<1> DEFINE x == [at |-> at, run |-> n, then |-> next, pending |-> {}]
<1>8. RunnerOK(x)'
  BY <1>1, StageNames DEF RunnerOK, Committing
<1>9. RunnersInv' /\ CopierInv'
  <2> HIDE DEF x
  <2> QED BY <1>1, <1>8, RunnerMoves DEF StoreInv, x
<1>10. StoreGrows
  BY <1>1, <1>2, <1>4 DEF StoreGrows
<1> QED BY <1>7, <1>9, <1>10 DEF StoreInv

LEMMA FilesUnchanged ==
    ASSUME StoreInv, UNCHANGED <<now, runs, files, published>>,
           lock' \in Runners \cup {"free", "snapshot"}
    PROVE  FilesInv' /\ StoreGrows
BY DEF StoreInv, FilesInv, StoreGrows, files

LEMMA ReleasedLock ==
    ASSUME FilesInv, NEW p, Release(p)
    PROVE  lock' \in Runners \cup {"free", "snapshot"}
BY DEF FilesInv, Release

LEMMA RunnerKeepsStore ==
    ASSUME ExclusionInv, StoreInv, NEW r \in Runners, RunnerNext(r)
    PROVE  StoreInv' /\ StoreGrows
<1> DEFINE old == runner[r]
<1>0. /\ RunnerRecord(old)
      /\ \A stage : [runner EXCEPT ![r].at = stage] = [runner EXCEPT ![r] = [old EXCEPT !.at = stage]]
      /\ \A stage : /\ [old EXCEPT !.at = stage].at = stage
                    /\ [old EXCEPT !.at = stage].run = old.run
                    /\ [old EXCEPT !.at = stage].then = old.then
  BY DEF ExclusionInv, Shaped, RunnerRecord
<1>1. FilesInv /\ RunnersInv /\ CopierInv /\ RunnerOK(old)
  BY DEF StoreInv, RunnersInv
<1> USE DEF RunnerAt, RunnerTo, WorkingRunner, copies, locks, papers, clock
<1>2. ASSUME NEW x, runner' = [runner EXCEPT ![r] = x], UNCHANGED <<now, runs, files, copier, published>>,
             lock' \in Runners \cup {"free", "snapshot"}, RunnerOK(x)
      PROVE  StoreInv' /\ StoreGrows
  <2>1. FilesInv' /\ StoreGrows
    BY <1>2, FilesUnchanged DEF files
  <2>2. RunnerOK(x)'
    BY <1>2 DEF RunnerOK, files
  <2>3. RunnersInv' /\ CopierInv'
    BY <1>1, <1>2, <2>2, RunnerMoves DEF files
  <2> QED BY <2>1, <2>3 DEF StoreInv
<1>3. ASSUME NEW stage \in {"off", "wait", "open"}, RunnerTo(r, stage),
             UNCHANGED <<now, runs, files, copier, published>>,
             lock' \in Runners \cup {"free", "snapshot"}
      PROVE  StoreInv' /\ StoreGrows
  <2> DEFINE x == [old EXCEPT !.at = stage]
  <2>1. x.at = stage /\ runner' = [runner EXCEPT ![r] = x]
    BY <1>0, <1>3
  <2>2. RunnerOK(x)
    BY <2>1, StageNames DEF RunnerOK, Committing
  <2> HIDE DEF x
  <2> QED BY <1>2, <1>3, <2>1, <2>2
<1>4. lock \in Runners \cup {"free", "snapshot"}
  BY <1>1 DEF FilesInv
<1>5. CASE BeginRun(r)
  BY <1>3, <1>4, <1>5 DEF BeginRun, files
<1>6. CASE RunnerLocked(r)
  BY <1>3, <1>6 DEF RunnerLocked, Acquire, files
<1>7. CASE RunnerTimesOut(r)
  BY <1>3, <1>4, <1>7 DEF RunnerTimesOut, files
<1>8. CASE OpenFails(r)
  BY <1>1, <1>3, <1>8, ReleasedLock DEF OpenFails, files
<1>9. CASE OpenLedger(r)
  <2>1. LatestSession(now) \in Nat /\ runs \in Seq(Nat)
    BY <1>1, StoreAssumption DEF FilesInv, LatestSession
  <2>2. /\ runs' \in Seq(Nat) /\ Len(runs) \in Nat /\ Len(runs') = Len(runs) + 1
        /\ \A i \in 1 .. Len(runs) : runs'[i] = runs[i]
    BY <1>9, <2>1, AppendFacts DEF OpenLedger
  <2>3. Len(runs') \in 1 .. Len(runs') /\ Len(runs) <= Len(runs')
    BY <2>2
  <2>4. /\ sidecars' = {"wal", "shm"} /\ Committed(r, Len(runs'), {}, Collections[1])
        /\ UNCHANGED <<now, lock, copier, published>> /\ WorkingRunner(r)
    BY <1>9 DEF OpenLedger
  <2> QED BY <2>2, <2>3, <2>4, CommitKeepsStore, StageNames
<1>10. ASSUME NEW scored \in SUBSET Symbols, NEW next \in CollectStages \cup {"score", "close"},
              old.at \in Committing, Committed(r, old.run, scored, next),
              UNCHANGED <<now, runs, sidecars, lock, copier, published>>
       PROVE  StoreInv' /\ StoreGrows
  <2>1. /\ "wal" \in sidecars' /\ sidecars' \subseteq {"wal", "shm"}
        /\ runs' \in Seq(Nat) /\ Len(runs) \in Nat /\ Len(runs) <= Len(runs')
        /\ old.run \in 1 .. Len(runs') /\ \A i \in 1 .. Len(runs) : runs'[i] = runs[i]
    BY <1>1, <1>10 DEF FilesInv, RunnerOK
  <2>2. WorkingRunner(r)
    BY <1>10, StageNames DEF Committing
  <2> QED BY <1>10, <2>1, <2>2, CommitKeepsStore
<1>11. CASE Collect(r)
  <2>1. PICK i \in 1 .. Len(Collections) :
          /\ RunnerAt(r, Collections[i])
          /\ Committed(r, runner[r].run, {},
                       IF i = Len(Collections) THEN "score" ELSE Collections[i + 1])
    BY <1>11 DEF Collect
  <2>2. /\ old.at \in Committing
        /\ (IF i = Len(Collections) THEN "score" ELSE Collections[i + 1]) \in CollectStages \cup {"score", "close"}
    BY <2>1, StageNames DEF Committing
  <2> QED BY <1>10, <1>11, <2>1, <2>2 DEF Collect
<1>12. CASE CommitScores(r)
  BY <1>10, <1>12 DEF CommitScores, Committing
<1>13. CASE FinishCheckpoint(r)
  <2>0. PICK x : x = [old EXCEPT !.at = old.then]
    OBVIOUS
  <2>1. /\ torn' = FALSE /\ main' = Len(log) /\ runner' = [runner EXCEPT ![r] = x] /\ x.at = old.then
        /\ x.run = old.run /\ WorkingRunner(r) /\ UNCHANGED <<now, runs, log, sidecars, lock, copier, published>>
    BY <1>0, <1>13, <2>0 DEF FinishCheckpoint
  <2>2. torn /\ old.then \in CollectStages \cup {"score", "close", "unlink"}
        /\ "wal" \in sidecars /\ old.run \in 1 .. Len(runs)
    BY <1>1, <1>13 DEF FinishCheckpoint, RunnerOK, Committing
  <2>3. Len(log) \in Nat /\ main < Len(log) /\ main \in Nat
    BY <1>1, <2>2 DEF FilesInv
  <2>4. FilesInv'
    <3>1. UNCHANGED <<now, lock, runs, log, sidecars, published>> /\ main' = Len(log') /\ main' \in 0 .. Len(log')
          /\ torn' = FALSE
      BY <2>1, <2>3
    <3> QED BY <1>1, <3>1 DEF FilesInv
  <2>5. StoreGrows
    BY <1>1, <2>1, <2>3 DEF FilesInv, StoreGrows
  <2>6. RunnerOK(x)'
    BY <2>1, <2>2, StageNames DEF RunnerOK, Committing
  <2>7. RunnersInv' /\ CopierInv'
    BY <1>1, <2>1, <2>6, RunnerMoves
  <2> QED BY <2>4, <2>5, <2>7 DEF StoreInv
<1>14. CASE ScoreSymbol(r)
  <2>1. PICK done : runner' = [runner EXCEPT ![r] = [old EXCEPT !.pending = done]]
    BY <1>14 DEF ScoreSymbol, ExclusionInv, Shaped
  <2> DEFINE x == [old EXCEPT !.pending = done]
  <2>2. x.at = old.at /\ x.run = old.run /\ x.then = old.then
    BY <1>0 DEF RunnerRecord
  <2>3. RunnerOK(x)
    BY <1>1, <2>2 DEF RunnerOK
  <2> HIDE DEF x
  <2> QED BY <1>2, <1>4, <1>14, <2>1, <2>3 DEF ScoreSymbol, files, x
<1>15. CASE StageFails(r)
  <2> DEFINE x == [[old EXCEPT !.at = "close"] EXCEPT !.pending = {}]
  <2>1. runner' = [runner EXCEPT ![r] = x]
    <3>1. runner' = [[runner EXCEPT ![r].at = "close"] EXCEPT ![r].pending = {}]
      BY <1>15, Zenon DEF StageFails
    <3>2. DOMAIN runner = Runners
      BY DEF ExclusionInv, Shaped
    <3> QED BY <1>0, <3>1, <3>2
  <2>2. x.at = "close" /\ x.run = old.run
    <3>1. \A y : RunnerRecord(y) => /\ [y EXCEPT !.pending = {}].at = y.at
                                    /\ [y EXCEPT !.pending = {}].run = y.run
                                    /\ RunnerRecord([y EXCEPT !.at = "close"])
      BY DEF RunnerRecord
    <3> QED BY <1>0, <3>1
  <2> HIDE DEF x
  <2>3. RunnerOK(x)
    BY <1>1, <1>15, <2>2, StageNames DEF RunnerOK, Committing, StageFails
  <2> QED BY <1>2, <1>4, <1>15, <2>1, <2>3 DEF StageFails, files
<1>16. CASE CloseLedger(r)
  <2>1. CASE main = Len(log)
    <3> DEFINE x == [old EXCEPT !.at = "unlink"]
    <3>1. /\ x.at = "unlink" /\ runner' = [runner EXCEPT ![r] = x]
          /\ UNCHANGED <<now, runs, files, lock, copier, published>>
      BY <1>0, <1>16, <2>1 DEF CloseLedger, files
    <3>2. RunnerOK(x)
      BY <2>1, <3>1, StageNames DEF RunnerOK, Committing
    <3> HIDE DEF x
    <3> QED BY <1>2, <1>4, <3>1, <3>2
  <2>2. CASE main # Len(log)
    <3>0. PICK x : x = [at |-> "checkpoint", run |-> old.run, then |-> "unlink", pending |-> {}]
      OBVIOUS
    <3>1. /\ runner' = [runner EXCEPT ![r] = x] /\ torn' = TRUE
          /\ UNCHANGED <<now, runs, log, main, sidecars, lock, copier, published>>
          /\ WorkingRunner(r)
      BY <1>16, <2>2, <3>0 DEF CloseLedger, ExclusionInv, Shaped
    <3>2. "wal" \in sidecars /\ old.run \in 1 .. Len(runs)
      BY <1>1, <1>16 DEF CloseLedger, RunnerOK, Committing
    <3>3. FilesInv' /\ StoreGrows
      <4>1. main < Len(log) /\ main \in Nat
        BY <1>1, <2>2 DEF FilesInv
      <4> QED BY <1>1, <3>1, <4>1 DEF FilesInv, StoreGrows
    <3>4. RunnerOK(x)'
      BY <3>0, <3>1, <3>2, StageNames DEF RunnerOK, Committing
    <3>5. RunnersInv' /\ CopierInv'
      BY <1>1, <3>1, <3>4, RunnerMoves
    <3> QED BY <3>3, <3>5 DEF StoreInv
  <2> QED BY <2>1, <2>2
<1>17. CASE RemoveSidecar(r)
  <2>0. PICK x : x = old
    OBVIOUS
  <2>1. /\ x.at = "unlink" /\ main = Len(log) /\ sidecars' \subseteq {"wal", "shm"}
        /\ UNCHANGED <<now, runs, log, main, torn, lock, runner, copier, published>>
        /\ WorkingRunner(r)
    BY <1>1, <1>17, <2>0 DEF RemoveSidecar, FilesInv, RunnerOK
  <2>2. FilesInv' /\ StoreGrows
    BY <1>1, <2>1 DEF FilesInv, StoreGrows
  <2>3. RunnerOK(x)'
    BY <2>1, StageNames DEF RunnerOK, Committing
  <2>4. runner' = [runner EXCEPT ![r] = x]
    BY <2>0, <2>1 DEF ExclusionInv, Shaped
  <2>5. RunnersInv' /\ CopierInv'
    BY <1>1, <2>1, <2>3, <2>4, RunnerMoves
  <2> QED BY <2>2, <2>5 DEF StoreInv
<1>18. RunnerOK(Off)
  BY StageNames DEF RunnerOK, Off, Committing
<1>19. CASE EndRun(r) \/ RunnerDies(r)
  BY <1>1, <1>2, <1>18, <1>19, ReleasedLock DEF EndRun, RunnerDies, files
<1> QED BY <1>5, <1>6, <1>7, <1>8, <1>9, <1>11, <1>12, <1>13, <1>14, <1>15, <1>16, <1>17, <1>19
        DEF RunnerNext

LEMMA CopierKeepsStore ==
    ASSUME ExclusionInv, StoreInv, CopierNext
    PROVE  StoreInv' /\ StoreGrows
<1>1. FilesInv /\ RunnersInv /\ CopierInv
  BY DEF StoreInv
<1>2. UNCHANGED <<now, runs, files, runner>>
  BY DEF CopierNext, BeginCopy, CopierLocked, CopierTimesOut, LookAtSidecars, CopyThroughWal,
         CopyMainFile, PublishCopy, CopyFails, clock
<1>3. copier = [at |-> copier.at, seen |-> copier.seen, copied |-> copier.copied]
  BY DEF ExclusionInv, Shaped, CopierRecord
<1>4. Len(log) \in Nat
  BY <1>1 DEF FilesInv
<1> USE DEF CopierAt, CopierTo, CopyEnds, CopyOff, locks
<1>5. CopierInv'
  <2>1. CASE LookAtSidecars
    BY <1>2, <1>3, <2>1 DEF LookAtSidecars, CopierInv, files
  <2>2. CASE CopyThroughWal \/ CopyMainFile
    BY <1>1, <1>2, <1>3, <2>2 DEF CopyThroughWal, CopyMainFile, CopierInv, FilesInv, files
  <2>3. CASE BeginCopy \/ CopierLocked \/ CopierTimesOut
    BY <1>3, <2>3 DEF BeginCopy, CopierLocked, CopierTimesOut, CopierInv
  <2>4. CASE PublishCopy \/ CopyFails
    BY <2>4 DEF PublishCopy, CopyFails, CopierInv
  <2> QED BY <2>1, <2>2, <2>3, <2>4 DEF CopierNext
<1>6. lock' \in Runners \cup {"free", "snapshot"}
  <2>1. lock' \in {lock, "snapshot"} \/ Release("snapshot")
    BY DEF CopierNext, BeginCopy, CopierLocked, CopierTimesOut, LookAtSidecars, CopyThroughWal,
           CopyMainFile, PublishCopy, CopyFails, Acquire
  <2> QED BY <1>1, <2>1, ReleasedLock DEF FilesInv
<1>7. published' \in 0 .. Len(log)
  <2>1. CASE PublishCopy
    BY <1>1, <1>4, <2>1 DEF PublishCopy, CopierInv
  <2>2. CASE UNCHANGED published
    BY <1>1, <2>2 DEF FilesInv
  <2> QED BY <2>1, <2>2 DEF CopierNext, BeginCopy, CopierLocked, CopierTimesOut, LookAtSidecars,
                            CopyThroughWal, CopyMainFile, CopyFails
<1>8. FilesInv'
  BY <1>1, <1>2, <1>6, <1>7 DEF FilesInv, files
<1>9. RunnersInv' /\ StoreGrows
  BY <1>1, <1>2 DEF RunnersInv, RunnerOK, StoreGrows, FilesInv, files
<1> QED BY <1>5, <1>8, <1>9 DEF StoreInv

LEMMA OthersKeepStore ==
    ASSUME StoreInv, PaperNext \/ Tick \/ UNCHANGED vars
    PROVE  StoreInv' /\ StoreGrows
<1>1. FilesInv /\ RunnersInv /\ CopierInv
  BY DEF StoreInv
<1>2. UNCHANGED <<runs, files, lock, runner, copier, published>>
  BY DEF PaperNext, Tick, HashSource, LoadSymbol, NameCycle, CheckSource, PublishBundle, HandOver,
         TakeHandoff, RunCycle, PaperFails, vars, others, clock, files, locks, copies
<1>3. now' \in 2 .. MaxNow
  <2>1. CASE Tick
    BY <1>1, <2>1, StoreAssumption DEF Tick, FilesInv
  <2>2. CASE PaperNext \/ UNCHANGED vars
    BY <1>1, <2>2 DEF PaperNext, HashSource, LoadSymbol, NameCycle, CheckSource, PublishBundle, HandOver,
         TakeHandoff, RunCycle, PaperFails, vars, others, clock, FilesInv
  <2> QED BY <2>1, <2>2
<1>4. FilesInv'
  BY <1>1, <1>2, <1>3 DEF FilesInv, files
<1> QED BY <1>1, <1>2, <1>4 DEF StoreInv, RunnersInv, RunnerOK, CopierInv, StoreGrows, FilesInv, files

LEMMA StoreInvariance == Spec => [](ExclusionInv /\ StoreInv)
<1>1. ASSUME Init PROVE StoreInv
  <2>1. FilesInv
    <3>1. now \in 2 .. MaxNow
      BY <1>1, StoreAssumption DEF Init
    <3>2. runs \in Seq(Nat) /\ log \in Seq([run : Nat, scored : SUBSET Symbols]) /\ Len(log) = 0
      BY <1>1 DEF Init
    <3>3. \A i \in 1 .. Len(log) : log[i].run \in 1 .. Len(runs)
      BY <3>2
    <3>4. main = 0 /\ published = 0 /\ torn = FALSE /\ sidecars = {} /\ lock = "free"
      BY <1>1 DEF Init
    <3>5. main \in 0 .. Len(log) /\ published \in 0 .. Len(log) /\ main = Len(log)
      BY <3>2, <3>4
    <3>6. sidecars \subseteq {"wal", "shm"} /\ lock \in Runners \cup {"free", "snapshot"}
      BY <3>4
    <3> QED BY <3>1, <3>2, <3>3, <3>4, <3>5, <3>6, Zenon DEF FilesInv
  <2>2. RunnersInv /\ CopierInv
    BY <1>1, StageNames DEF Init, RunnersInv, RunnerOK, CopierInv, Committing, Off, CopyOff
  <2> QED BY <2>1, <2>2 DEF StoreInv
<1>2. ExclusionInv /\ StoreInv /\ [Next]_vars => StoreInv'
  BY RunnerKeepsStore, CopierKeepsStore, OthersKeepStore DEF Next
<1> QED BY <1>1, <1>2, ExclusionInvariance, PTL DEF Spec

(* No step takes back a run or a commit, shortens the main file or mends a *)
(* torn one without lengthening it: a hash still true of the file has been *)
(* true all the time, which is what readers without the lock rely on.      *)
THEOREM StoreOnlyGrows == Spec => [][StoreGrows]_vars
<1>1. ExclusionInv /\ StoreInv /\ [Next]_vars => [StoreGrows]_vars
  BY RunnerKeepsStore, CopierKeepsStore, OthersKeepStore DEF Next
<1> QED BY <1>1, StoreInvariance, PTL DEF Spec

(* The copy that is about to be published contains every commit made so    *)
(* far, whoever made it and wherever he was killed.                        *)
THEOREM SnapshotAlwaysComplete == Spec => []SnapshotComplete
<1>1. StoreInv => SnapshotComplete
  BY DEF StoreInv, CopierInv, SnapshotComplete, CopierAt
<1> QED BY <1>1, StoreInvariance, PTL

-----------------------------------------------------------------------------
(***************************************************************************)
(* What the paper unit has read.  A run a reader could take stays the one  *)
(* to take: the cycle names how many runs there were, the hash how much of *)
(* the log.                                                                *)
(***************************************************************************)
LEMMA MinOfTwo ==
    ASSUME NEW a \in Nat, NEW b \in Nat, a <= b
    PROVE  Min({a, b}) = a
<1>1. \E m \in {a, b} : \A y \in {a, b} : m <= y
  OBVIOUS
<1>2. Min({a, b}) \in {a, b} /\ \A y \in {a, b} : Min({a, b}) <= y
  BY <1>1, Zenon DEF Min
<1> QED BY <1>2

LEMMA LineageStable ==
    ASSUME FilesInv, StoreGrows, NEW c, KnownCycle(c), NEW symbol, NEW upto \in 0 .. Len(log)
    PROVE  (Lineage(c, symbol, upto))' = Lineage(c, symbol, upto)
<1>1. /\ c.runs \in Nat /\ c.runs <= Len(runs) /\ Len(runs) \in Nat /\ Len(runs') \in Nat
      /\ Len(runs) <= Len(runs') /\ \A n \in 1 .. Len(runs) : runs'[n] = runs[n]
      /\ Len(log) \in Nat /\ \A i \in 1 .. Len(log) : log'[i] = log[i]
  BY DEF FilesInv, StoreGrows, KnownCycle
<1>2. Min({c.runs, Len(runs)}) = c.runs /\ Min({c.runs, Len(runs')}) = c.runs
  <2>1. c.runs <= Len(runs')
    BY <1>1
  <2> QED BY <1>1, <2>1, MinOfTwo
<1>3. /\ \A n \in 1 .. c.runs : runs'[n] = runs[n]
      /\ \A i \in 1 .. upto : log'[i] = log[i]
  BY <1>1
<1>4. Eligible(c, symbol, upto)' = Eligible(c, symbol, upto)
  BY <1>2, <1>3 DEF Eligible
<1> QED BY <1>4 DEF Lineage

LEMMA KnownCycleStable ==
    ASSUME FilesInv, StoreGrows, NEW c, KnownCycle(c)
    PROVE  KnownCycle(c)'
<1>1. Len(runs) \in Nat /\ Len(runs') \in Nat /\ Len(runs) <= Len(runs')
  BY DEF FilesInv, StoreGrows
<1> QED BY <1>1 DEF KnownCycle

LEMMA MatchesHashStable ==
    ASSUME FilesInv, FilesInv', StoreGrows, NEW b, MatchesHash(b)
    PROVE  MatchesHash(b)'
<1>1. KnownCycle(b.cycle)'
  BY KnownCycleStable DEF MatchesHash
<1>2. ASSUME b.hash[1] = "whole"
      PROVE  /\ b.hash[2] \in 0 .. Len(log')
             /\ \A symbol \in Symbols : b.lineage[symbol] = Lineage(b.cycle, symbol, b.hash[2])'
  <2>1. /\ b.hash[2] \in 0 .. Len(log) /\ KnownCycle(b.cycle)
        /\ \A symbol \in Symbols : b.lineage[symbol] = Lineage(b.cycle, symbol, b.hash[2])
    BY <1>2 DEF MatchesHash
  <2>2. Len(log) \in Nat /\ Len(log') \in Nat /\ Len(log) <= Len(log')
    BY DEF FilesInv, StoreGrows
  <2>3. b.hash[2] \in 0 .. Len(log')
    BY <2>1, <2>2
  <2>4. \A symbol \in Symbols : Lineage(b.cycle, symbol, b.hash[2])' = Lineage(b.cycle, symbol, b.hash[2])
    BY <2>1, LineageStable
  <2> QED BY <2>1, <2>3, <2>4
<1> QED BY <1>1, <1>2 DEF MatchesHash

LEMMA RecordsAreNotNone ==
    \A c, h, l : [cycle |-> c, hash |-> h, lineage |-> l] # None
BY DEF None

(* Whatever somebody else does, what the paper unit has read, published    *)
(* and committed stays as good as it was.                                  *)
LEMMA OthersKeepPaper ==
    ASSUME FilesInv, FilesInv', StoreGrows, PaperInv, BundlesInv, UNCHANGED papers
    PROVE  PaperInv' /\ BundlesInv'
<1> USE DEF papers
<1>1. ASSUME NEW c, KnownCycle(c) PROVE KnownCycle(c)'
  BY <1>1, KnownCycleStable
<1>2. ASSUME NEW b, MatchesHash(b) PROVE MatchesHash(b)'
  BY <1>2, MatchesHashStable
<1>3. BundlesInv'
  <2>1. \A s \in Sessions : bundles[s] # None => MatchesHash(bundles[s])'
    BY <1>2 DEF BundlesInv
  <2>2. handoff # None => KnownCycle(handoff)'
    BY <1>1 DEF BundlesInv
  <2> QED BY <2>1, <2>2 DEF BundlesInv, HandoffCurrent, CycleOfItsBundle
<1>4. ASSUME NEW p, KnownCycle(p.cycle), ReadSoFar(p)
      PROVE  ReadSoFar(p)'
  <2>1. /\ main \in 0 .. Len(log) /\ main \in Nat /\ main' \in Nat /\ main <= main'
        /\ main' = main /\ ~torn' => ~torn
    BY DEF FilesInv, StoreGrows
  <2>2. p.hash[2] \in 0 .. main'
    BY <1>4, <2>1 DEF ReadSoFar
  <2>3. ASSUME p.hash = <<"whole", main'>>, ~torn', NEW s \in DOMAIN p.lineage
        PROVE  p.lineage[s] = Lineage(p.cycle, s, main)'
    <3>1. main' = main
      BY <1>4, <2>1, <2>3 DEF ReadSoFar
    <3>2. p.lineage[s] = Lineage(p.cycle, s, main)
      BY <1>4, <2>1, <2>3, <3>1 DEF ReadSoFar
    <3>3. Lineage(p.cycle, s, main)' = Lineage(p.cycle, s, main)
      BY <1>4, <2>1, <3>1, LineageStable
    <3> QED BY <3>2, <3>3
  <2> QED BY <2>2, <2>3 DEF ReadSoFar
<1>5. PaperInv'
  <2>1. paper.at # "off" => KnownCycle(paper.cycle)'
    BY <1>1 DEF PaperInv, Begun
  <2>2. paper.at = "publish" => MatchesHash(paper)'
    BY <1>2 DEF PaperInv
  <2>3. paper.at = "read" => ReadSoFar(paper)'
    BY <1>4 DEF PaperInv, Begun
  <2>4. paper.at # "off" => Begun(paper)'
    BY <2>1 DEF PaperInv, Begun, PaperRecord
  <2> QED BY <2>2, <2>3, <2>4 DEF PaperInv
<1> QED BY <1>3, <1>5

(* A step of the paper unit itself.                                        *)
LEMMA UnitKeepsPaper ==
    ASSUME FilesInv, PaperInv, BundlesInv, PaperNext
    PROVE  PaperInv' /\ BundlesInv'
<1>0. UNCHANGED <<now, runs, log, main, torn>>
  BY DEF PaperNext, HashSource, LoadSymbol, NameCycle, CheckSource, PublishBundle, HandOver,
         TakeHandoff, RunCycle, PaperFails, others, clock, files
<1>1. \A c, symbol, upto : Lineage(c, symbol, upto)' = Lineage(c, symbol, upto)
  BY <1>0 DEF Lineage, Eligible
<1>2. /\ \A c : KnownCycle(c)' <=> KnownCycle(c)
      /\ \A b : MatchesHash(b)' <=> MatchesHash(b)
  BY <1>0, <1>1 DEF KnownCycle, MatchesHash
<1>3. ASSUME UNCHANGED <<productions, bundles, handoff, cycles>> PROVE BundlesInv'
  BY <1>2, <1>3 DEF BundlesInv, HandoffCurrent, CycleOfItsBundle
<1>4. paper.at # "off" =>
        /\ paper = [at |-> paper.at, role |-> paper.role, cycle |-> paper.cycle, hash |-> paper.hash,
                    lineage |-> paper.lineage, bundle |-> paper.bundle]
        /\ Begun(paper)
  BY DEF PaperInv, Begun, PaperRecord
<1>5. ASSUME paper' = Unit PROVE PaperInv'
  BY <1>5 DEF PaperInv, Unit

(* The unit keeps its role, its cycle and its bundle. *)
<1>6. ASSUME NEW at \in {"read", "publish", "handover"}, NEW hash, NEW lineage, paper.at # "off",
             paper' = [at |-> at, role |-> paper.role, cycle |-> paper.cycle, hash |-> hash,
                       lineage |-> lineage, bundle |-> paper.bundle],
             UNCHANGED productions, bundles[paper.cycle.session] = None \/ UNCHANGED bundles,
             bundles[paper.cycle.session] = None => paper.role = "producer"
      PROVE  Begun(paper)' /\ Begun(paper)
  <2>1. PICK y : y = paper'
    OBVIOUS
  <2>2. /\ y.at = at /\ y.role = paper.role /\ y.cycle = paper.cycle /\ y.bundle = paper.bundle
        /\ PaperRecord(y)
    BY <1>6, <2>1 DEF PaperRecord
  <2>3. Begun(y)'
    BY <1>2, <1>4, <1>6, <2>2 DEF Begun
  <2> QED BY <1>4, <1>6, <2>1, <2>3
<1>7. main \in Nat /\ Len(runs) \in Nat /\ now \in 2 .. MaxNow
  BY DEF FilesInv
<1> USE DEF PaperAt, PaperTo
<1>8. CASE HashSource
  <2>1. FileHash[2] = main
    BY DEF FileHash
  <2>2. PICK hash, lineage : hash = FileHash /\ lineage = paper.lineage
    OBVIOUS
  <2>3. paper' = [at |-> "read", role |-> paper.role, cycle |-> paper.cycle, hash |-> hash,
                  lineage |-> lineage, bundle |-> paper.bundle]
    BY <1>4, <1>8, <2>2 DEF HashSource
  <2>4. Begun(paper)'
    BY <1>4, <1>6, <1>8, <2>3 DEF HashSource, Begun
  <2>5. ReadSoFar(paper)'
    BY <1>0, <1>7, <1>8, <2>1, <2>2, <2>3 DEF ReadSoFar, PaperInv, HashSource
  <2>6. PaperInv'
    BY <2>3, <2>4, <2>5 DEF PaperInv
  <2> QED BY <1>3, <1>8, <2>6 DEF HashSource
<1>9. CASE LoadSymbol
  <2>1. PICK upto, s :
          upto \in Visible /\ paper' = [paper EXCEPT !.lineage = Extended(@, s, Lineage(paper.cycle, s, upto))]
    BY <1>9 DEF LoadSymbol
  <2>2. PICK hash, read : hash = paper.hash /\ read = Extended(paper.lineage, s, Lineage(paper.cycle, s, upto))
    OBVIOUS
  <2>3. paper' = [at |-> "read", role |-> paper.role, cycle |-> paper.cycle, hash |-> hash,
                  lineage |-> read, bundle |-> paper.bundle]
    BY <1>4, <1>9, <2>1, <2>2 DEF LoadSymbol
  <2>4. \A x \in DOMAIN read : \/ read[x] = Lineage(paper.cycle, s, upto) /\ x = s
                               \/ read[x] = paper.lineage[x] /\ x \in DOMAIN paper.lineage
    BY <2>2 DEF Extended
  <2>5. ~torn => upto = main
    BY <2>1 DEF Visible
  <2>6. Begun(paper)'
    BY <1>4, <1>6, <1>9, <2>3 DEF LoadSymbol, Begun
  <2>7. ReadSoFar(paper)
    BY <1>9 DEF PaperInv, LoadSymbol
  <2>8. ReadSoFar(paper)'
    <3>1. paper'.hash = paper.hash /\ paper'.cycle = paper.cycle /\ paper'.lineage = read
      BY <2>2, <2>3
    <3>2. ASSUME paper.hash = <<"whole", main>>, ~torn, NEW x \in DOMAIN read
          PROVE  read[x] = Lineage(paper.cycle, x, main)'
      BY <1>0, <1>1, <2>4, <2>5, <2>7, <3>1, <3>2 DEF ReadSoFar
    <3> QED BY <1>0, <2>7, <3>1, <3>2 DEF ReadSoFar
  <2>9. PaperInv'
    BY <2>3, <2>6, <2>8 DEF PaperInv
  <2> QED BY <1>3, <1>9, <2>9 DEF LoadSymbol
<1>10. CASE CheckSource
  <2>1. /\ paper.at = "read" /\ paper.role = "producer" /\ DOMAIN paper.lineage = Symbols
        /\ paper.hash = FileHash
    BY <1>10 DEF CheckSource, Loaded
  <2>2. PICK hash, lineage : hash = paper.hash /\ lineage = paper.lineage
    OBVIOUS
  <2>3. paper' = [at |-> "publish", role |-> paper.role, cycle |-> paper.cycle, hash |-> hash,
                  lineage |-> lineage, bundle |-> paper.bundle]
    BY <1>4, <1>10, <2>1, <2>2 DEF CheckSource
  <2>4. Begun(paper)'
    BY <1>4, <1>6, <1>10, <2>1, <2>3 DEF CheckSource
  <2>5. ReadSoFar(paper) /\ main \in 0 .. Len(log)
    BY <2>1 DEF PaperInv, FilesInv
  <2>6. paper.hash[1] = "whole" => ~torn /\ paper.hash = <<"whole", main>> /\ paper.hash[2] = main
    BY <2>1 DEF FileHash
  <2>7. MatchesHash(paper)
    BY <1>4, <2>1, <2>5, <2>6 DEF MatchesHash, ReadSoFar, Begun
  <2>8. MatchesHash(paper)'
    BY <1>0, <1>1, <1>2, <2>2, <2>3, <2>7 DEF MatchesHash, KnownCycle
  <2>9. PaperInv'
    BY <2>1, <2>3, <2>4, <2>8 DEF PaperInv
  <2> QED BY <1>3, <1>10, <2>9 DEF CheckSource
<1>11. CASE PublishBundle
  <2>1. PICK bundle, session, hash, lineage :
          /\ bundle = [cycle |-> paper.cycle, hash |-> paper.hash, lineage |-> paper.lineage]
          /\ session = paper.cycle.session /\ hash = paper.hash /\ lineage = paper.lineage
    OBVIOUS
  <2>2. /\ paper.at = "publish" /\ paper.role = "producer" /\ MatchesHash(paper)
        /\ bundles[session] = None /\ session \in Sessions
        /\ UNCHANGED <<productions, handoff, cycles>>
        /\ bundles' = [bundles EXCEPT ![session] = bundle]
        /\ paper' = [at |-> "handover", role |-> paper.role, cycle |-> paper.cycle, hash |-> hash,
                     lineage |-> lineage, bundle |-> paper.bundle]
    BY <1>4, <1>11, <2>1 DEF PublishBundle, PaperInv, Begun, KnownCycle
  <2>3. /\ bundle # None /\ bundle.cycle = paper.cycle /\ MatchesHash(bundle)
    BY <2>1, <2>2, RecordsAreNotNone DEF MatchesHash
  <2>4. /\ bundles'[session] = bundle /\ DOMAIN bundles' = Sessions
        /\ \A s \in Sessions \ {session} : bundles'[s] = bundles[s]
    BY <2>2 DEF BundlesInv
  <2>5. BundlesInv'
    <3>1. \A s \in Sessions : bundles'[s] # None => MatchesHash(bundles[s])'
      BY <1>2, <2>3, <2>4 DEF BundlesInv
    <3>2. HandoffCurrent'
      <4>1. handoff # None => handoff.session \in Sessions /\ handoff.session # session
        BY <2>2 DEF BundlesInv, HandoffCurrent, KnownCycle
      <4> QED BY <2>2, <2>4, <4>1 DEF BundlesInv, HandoffCurrent
    <3>3. CycleOfItsBundle'
      BY <2>2, <2>4 DEF BundlesInv, CycleOfItsBundle
    <3> QED BY <1>2, <2>2, <2>4, <3>1, <3>2, <3>3 DEF BundlesInv
  <2>6. Begun(paper)'
    BY <1>6, <2>1, <2>2
  <2>7. PaperInv'
    BY <2>1, <2>2, <2>3, <2>4, <2>6 DEF PaperInv
  <2> QED BY <2>5, <2>7
<1>12. CASE HandOver
  <2>1. /\ KnownCycle(paper.cycle) /\ paper.cycle.number = productions
        /\ bundles[paper.cycle.session] # None /\ bundles[paper.cycle.session].cycle = paper.cycle
        /\ handoff' = paper.cycle /\ paper' = Unit /\ UNCHANGED <<productions, bundles, cycles>>
    BY <1>12 DEF HandOver, PaperInv, Begun
  <2>2. BundlesInv'
    BY <1>2, <2>1 DEF BundlesInv, HandoffCurrent, CycleOfItsBundle
  <2> QED BY <1>5, <2>1, <2>2
<1>13. ASSUME NEW role \in {"producer", "agent"}, NEW cycle, NEW bundle, Working(role, cycle, bundle),
              KnownCycle(cycle), role = "producer" => cycle.number = productions',
              role = "agent" => bundles[cycle.session] # None /\ bundle = bundles[cycle.session],
              UNCHANGED bundles
       PROVE  PaperInv'
  <2>1. PICK y : y = paper'
    OBVIOUS
  <2>2. /\ y.at = "hash" /\ y.role = role /\ y.cycle = cycle /\ y.lineage = << >> /\ y.bundle = bundle
        /\ PaperRecord(y)
    BY <1>13, <2>1 DEF Working, PaperRecord
  <2>3. Begun(y)'
    BY <1>2, <1>13, <2>2 DEF Begun
  <2> QED BY <2>1, <2>2, <2>3 DEF PaperInv
<1>14. CASE NameCycle
  <2>1. /\ Cycle.session = Day(now) /\ Cycle.runs = Len(runs) /\ Cycle.number = productions'
        /\ Working("producer", Cycle, None) /\ handoff' = None /\ productions' = productions + 1
        /\ UNCHANGED <<bundles, cycles>> /\ productions < MaxProductions
    BY <1>14 DEF NameCycle, Cycle
  <2>2. Day(now) \in Sessions
    BY <1>7, StoreAssumption DEF Day, Sessions
  <2>3. KnownCycle(Cycle)
    BY <1>7, <2>1, <2>2 DEF KnownCycle
  <2>4. PaperInv'
    BY <1>13, <2>1, <2>3
  <2>5. productions' \in 0 .. MaxProductions
    BY <2>1, StoreAssumption DEF BundlesInv
  <2>6. BundlesInv'
    BY <1>2, <2>1, <2>5 DEF BundlesInv, HandoffCurrent, CycleOfItsBundle
  <2> QED BY <2>4, <2>6
<1>15. CASE TakeHandoff
  <2>1. KnownCycle(handoff) /\ bundles[handoff.session] # None
    BY <1>15 DEF TakeHandoff, BundlesInv
  <2>2. PaperInv'
    BY <1>13, <1>15, <2>1 DEF TakeHandoff
  <2> QED BY <1>3, <1>15, <2>2 DEF TakeHandoff
<1>16. CASE RunCycle
  <2>1. PICK session, done :
          session = paper.cycle.session /\ done = [hash |-> paper.hash, lineage |-> paper.lineage]
    OBVIOUS
  <2>2. /\ bundles[session] # None /\ session \in Sessions
        /\ paper.hash = bundles[session].hash /\ paper.lineage = bundles[session].lineage
        /\ paper' = Unit /\ UNCHANGED <<productions, bundles, handoff>>
    BY <1>4, <1>16, <2>1 DEF RunCycle, Loaded, ValidBundle, Begun, KnownCycle
  <2>3. cycles' = [cycles EXCEPT ![session] = IF @ = None THEN done ELSE @]
    BY <1>16, <2>1 DEF RunCycle
  <2>4. BundlesInv'
    <3>1. /\ DOMAIN cycles' = Sessions /\ \A s \in Sessions \ {session} : cycles'[s] = cycles[s]
          /\ cycles'[session] = done \/ cycles'[session] = cycles[session]
      BY <2>2, <2>3 DEF BundlesInv
    <3>2. done = [hash |-> bundles[session].hash, lineage |-> bundles[session].lineage]
      BY <2>1, <2>2
    <3>3. CycleOfItsBundle'
      BY <2>2, <3>1, <3>2 DEF BundlesInv, CycleOfItsBundle
    <3> QED BY <1>2, <2>2, <3>1, <3>3 DEF BundlesInv, HandoffCurrent
  <2> QED BY <1>5, <2>2, <2>4
<1>17. CASE PaperFails
  BY <1>3, <1>5, <1>17 DEF PaperFails
<1> QED BY <1>8, <1>9, <1>10, <1>11, <1>12, <1>14, <1>15, <1>16, <1>17 DEF PaperNext

LEMMA LineageInvariance == Spec => [](ExclusionInv /\ LineageInv)
<1>1. Init => PaperInv /\ BundlesInv
  BY StoreAssumption DEF Init, PaperInv, BundlesInv, HandoffCurrent, CycleOfItsBundle, Unit
<1>2. ASSUME ExclusionInv, LineageInv, [Next]_vars, StoreInv'
      PROVE  PaperInv' /\ BundlesInv'
  <2>1. FilesInv /\ FilesInv' /\ PaperInv /\ BundlesInv /\ StoreInv
    BY <1>2 DEF LineageInv, StoreInv
  <2>2. CASE PaperNext
    BY <2>1, <2>2, UnitKeepsPaper
  <2>3. CASE (\E r \in Runners : RunnerNext(r)) \/ CopierNext \/ Tick \/ UNCHANGED vars
    <3>1. UNCHANGED papers
      BY <2>3 DEF RunnerNext, BeginRun, RunnerLocked, RunnerTimesOut, OpenLedger, OpenFails, Collect,
             FinishCheckpoint, ScoreSymbol, CommitScores, StageFails, CloseLedger, RemoveSidecar, EndRun,
             RunnerDies, CopierNext, BeginCopy, CopierLocked, CopierTimesOut, LookAtSidecars,
             CopyThroughWal, CopyMainFile, PublishCopy, CopyFails, Tick, vars
    <3>2. StoreGrows
      BY <1>2, <2>1, <2>3, RunnerKeepsStore, CopierKeepsStore, OthersKeepStore
    <3> QED BY <2>1, <3>1, <3>2, OthersKeepPaper
  <2> QED BY <1>2, <2>2, <2>3 DEF Next
<1> QED BY <1>1, <1>2, StoreInvariance, PTL DEF Spec, LineageInv

(* The files are in a state SQLite can recover, in every one of the states *)
(* that kills and failures can leave.                                      *)
THEOREM StoreAlwaysRecoverable == Spec => []StoreTypeOK
<1>1. FilesInv /\ BundlesInv => StoreTypeOK
  <2> SUFFICES ASSUME FilesInv, BundlesInv PROVE StoreTypeOK
    OBVIOUS
  <2>1. now \in 0 .. MaxNow
    BY StoreAssumption DEF FilesInv
  <2>2. \A i \in 1 .. Len(log) : log[i].scored \subseteq Symbols
    <3>1. log \in Seq([run : Nat, scored : SUBSET Symbols])
      BY DEF FilesInv
    <3>2. \A i \in 1 .. Len(log) : log[i] \in [run : Nat, scored : SUBSET Symbols]
      BY <3>1, ElementOfSeq
    <3> QED BY <3>2
  <2> QED BY <2>1, <2>2 DEF FilesInv, BundlesInv, StoreTypeOK
<1> QED BY <1>1, LineageInvariance, PTL DEF LineageInv, StoreInv

(* Whoever reads a whole file of a bundle's hash finds the bundle's        *)
(* lineage, although the reader takes no lock.                             *)
THEOREM BundleAlwaysMatchesHash == Spec => []BundleMatchesHash
<1>1. BundlesInv => BundleMatchesHash
  BY DEF BundlesInv, MatchesHash, BundleMatchesHash
<1> QED BY <1>1, LineageInvariance, PTL DEF LineageInv

(* An agent that starts after a failed production finds nothing to run.    *)
THEOREM HandoffAlwaysCurrent == Spec => []HandoffCurrent
BY LineageInvariance, PTL DEF LineageInv, BundlesInv

(* A committed cycle used the runs its bundle names.                       *)
THEOREM CycleAlwaysOfItsBundle == Spec => []CycleOfItsBundle
BY LineageInvariance, PTL DEF LineageInv, BundlesInv
=============================================================================

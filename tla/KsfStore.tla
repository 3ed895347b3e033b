------------------------------ MODULE KsfStore ------------------------------
(***************************************************************************)
(* The KSF ledger as files that several processes share: the production    *)
(* run writes it (ksf/production_runner.py, ksf/scoring.py), the dashboard *)
(* copies it (prepare_ksf_dashboard_snapshot.py), the bundle producer and  *)
(* the paper agent read it without the lock (ksf/offline_response_bundle_  *)
(* producer.py, strategy/paper_source.py), and the two paper wrappers pass *)
(* a handoff file on.  The writer's lock is ksf/ledger_lock.py.            *)
(*                                                                         *)
(* The database is the sequence of its commits.  SQLite in WAL mode        *)
(* (external) keeps the latest ones in the -wal file until a checkpoint    *)
(* copies them into the main file, page by page; an immutable open reads   *)
(* the main file alone.  A committed paper cycle is one step: PaperCycle   *)
(* shows that it is (SessionsAreAtomic).                                   *)
(*                                                                         *)
(* Bounds of the model: MaxRuns production runs, MaxProductions bundle     *)
(* productions, the half-days from the first morning to MaxNow; no two     *)
(* runs start within one second.                                           *)
(***************************************************************************)
EXTENDS Naturals, Sequences, FiniteSetsExt

CONSTANTS
    Runners,         \* invocations of the production run that may overlap
    SymbolOrder,     \* SUPPORTED_SYMBOLS, sorted
    Collections,     \* the commits of the collectors, in their order
    MaxRuns, MaxProductions, MaxNow

ASSUME StoreAssumption ==
    /\ MaxRuns \in Nat /\ MaxProductions \in Nat /\ MaxNow \in Nat \ {0, 1}
    /\ "snapshot" \notin Runners /\ "free" \notin Runners
    /\ Collections \in Seq(STRING) /\ Collections # << >>
    /\ \A i \in 1 .. Len(Collections) :
         Collections[i] \notin {"off", "wait", "open", "checkpoint", "score", "close", "unlink"}

Symbols == {SymbolOrder[i] : i \in 1 .. Len(SymbolOrder)}
(* The first symbol that is not among those done. *)
NextOf(done) == SymbolOrder[Cardinality(done) + 1]

(* The day, and the latest session that has closed (0 the one before day 1). *)
Day(t)           == t \div 2
LatestSession(t) == (t - 1) \div 2
Sessions         == 1 .. Day(MaxNow)

VARIABLES
    now,        \* half-days
    lock,       \* who holds the flock, or "free"
    lockFile,   \* does the lock file exist
    log,        \* the commits: [run, scored]
    main,       \* how many of them the main file contains
    torn,       \* a checkpoint is copying pages, or died doing so
    sidecars,   \* subset of {"wal", "shm"}
    runs,       \* the runs begun: their trading dates
    runner,     \* [Runners -> [at, run, then, pending]]
    copier,     \* the dashboard's ExecStartPre: [at, seen, copied]
    published,  \* how many commits the dashboard's copy contains
    paper,      \* the paper unit: [at, ...]
    productions, \* how many bundle productions have begun
    bundles,    \* [session -> its bundle or None]
    handoff,    \* the cycle the handoff file names, or None
    cycles      \* [session -> lineage the paper ledger committed, or None]

clock  == <<now, runs>>
files  == <<log, main, torn, sidecars>>
locks  == <<lock, lockFile>>
copies == <<copier, published>>
papers == <<paper, productions, bundles, handoff, cycles>>
others == <<clock, files, locks, runner, copies>>
vars   == <<clock, files, locks, runner, copies, papers>>

None    == << >>
Off     == [at |-> "off", run |-> 0, then |-> "off", pending |-> {}]
CopyOff == [at |-> "off", seen |-> {}, copied |-> 0]
Unit    == [at |-> "off"]

Init ==
    /\ now = 2 /\ runs = << >> /\ log = << >> /\ main = 0 /\ torn = FALSE
    /\ sidecars = {} /\ lock = "free" /\ lockFile \in BOOLEAN
    /\ runner = [r \in Runners |-> Off] /\ copier = CopyOff /\ published = 0
    /\ paper = Unit /\ productions = 0 /\ handoff = None
    /\ bundles = [s \in Sessions |-> None] /\ cycles = [s \in Sessions |-> None]

Tick == now < MaxNow /\ now' = now + 1
        /\ UNCHANGED <<runs, files, locks, runner, copies, papers>>

-----------------------------------------------------------------------------
(***************************************************************************)
(* ledger_lock: a bounded wait for an exclusive flock.  Only a writer      *)
(* creates the file.                                                       *)
(***************************************************************************)
AcquireShared(p) == lock' = p  \* mutant: a shared lock
Acquire(p) == lock = "free" /\ lock' = p
Release(p) == lock' = IF lock = p THEN "free" ELSE lock

-----------------------------------------------------------------------------
(***************************************************************************)
(* The production run                                                      *)
(***************************************************************************)
RunnerAt(r, stage) == runner[r].at = stage
RunnerTo(r, stage) == runner' = [runner EXCEPT ![r].at = stage]
CollectStages      == {Collections[i] : i \in 1 .. Len(Collections)}

BeginRun(r) ==
    /\ RunnerAt(r, "off") /\ Len(runs) < MaxRuns
    /\ RunnerTo(r, "wait")
    /\ lockFile' = TRUE
    /\ UNCHANGED <<clock, files, lock, copies, papers>>

RunnerLocked(r) ==
    /\ RunnerAt(r, "wait") /\ Acquire(r)
    /\ RunnerTo(r, "open")
    /\ UNCHANGED <<clock, files, lockFile, copies, papers>>

RunnerNeverTimesOut(r) == FALSE /\ UNCHANGED vars  \* mutant: the deadline is not a number
(* StageFailure("lock") *)
RunnerTimesOut(r) ==
    /\ RunnerAt(r, "wait") /\ lock # "free"
    /\ RunnerTo(r, "off")
    /\ UNCHANGED <<clock, files, locks, copies, papers>>

(* A commit goes to the WAL; SQLite may checkpoint before it returns.      *)
Committed(r, n, scored, next) ==
    /\ log' = Append(log, [run |-> n, scored |-> scored])
    /\ \E at \in {next, "checkpoint"} :
         /\ runner' = [runner EXCEPT ![r] = [at |-> at, run |-> n, then |-> next,
                                             pending |-> {}]]
         /\ torn' = (torn \/ at = "checkpoint")
    /\ UNCHANGED main

FinishCheckpoint(r) ==
    /\ RunnerAt(r, "checkpoint")
    /\ torn' = FALSE /\ main' = Len(log) /\ RunnerTo(r, runner[r].then)
    /\ UNCHANGED <<clock, log, sidecars, locks, copies, papers>>

(* _open_and_migrate: the WAL an earlier process left is recovered, and    *)
(* the second migration rewrites its triggers in every run.  The cutoff    *)
(* and the latest completed session are taken once, under the lock.        *)
OpenLedger(r) ==
    /\ RunnerAt(r, "open") /\ Len(runs) < MaxRuns
    /\ sidecars' = {"wal", "shm"}
    /\ runs' = Append(runs, LatestSession(now))
    /\ Committed(r, Len(runs'), {}, Collections[1])
    /\ UNCHANGED <<now, locks, copies, papers>>

(* StageFailure("migration"): the ledger cannot be opened. *)
OpenFails(r) ==
    /\ RunnerAt(r, "open")
    /\ Release(r) /\ RunnerTo(r, "off")
    /\ UNCHANGED <<clock, files, lockFile, copies, papers>>

(* Every collection commits on its own, whether or not a later one fails.  *)
Collect(r) ==
    /\ \E i \in 1 .. Len(Collections) :
         /\ RunnerAt(r, Collections[i])
         /\ Committed(r, runner[r].run, {}, IF i = Len(Collections) THEN "score" ELSE Collections[i + 1])
    /\ UNCHANGED <<clock, sidecars, locks, copies, papers>>

(* persist_scoring writes symbol after symbol and commits once.            *)
ScoreSymbol(r) ==
    /\ RunnerAt(r, "score") /\ runner[r].pending # Symbols
    /\ runner' = [runner EXCEPT ![r].pending = @ \cup {NextOf(@)}]
    /\ UNCHANGED <<clock, files, locks, copies, papers>>

CommitScores(r) ==
    /\ RunnerAt(r, "score") /\ runner[r].pending = Symbols
    /\ Committed(r, runner[r].run, Symbols, "close")
    /\ UNCHANGED <<clock, sidecars, locks, copies, papers>>

(* A stage raises, the feature gate refuses or the integrity check fails:  *)
(* the connection closes, what was not committed is gone.                  *)
StageFails(r) ==
    /\ runner[r].at \in CollectStages \cup {"score"}
    /\ runner' = [runner EXCEPT ![r].at = "close", ![r].pending = {}]
    /\ UNCHANGED <<clock, files, locks, copies, papers>>

(* conn.close(): the last connection checkpoints, then removes the         *)
(* sidecars, one after the other; the lock is released after that.         *)
CloseLedgerUnchecked(r) ==  \* mutant: no checkpoint before the WAL is removed
    /\ RunnerAt(r, "close")
    /\ torn' = torn /\ RunnerTo(r, "unlink")
    /\ UNCHANGED <<clock, log, main, sidecars, locks, copies, papers>>
CloseLedger(r) ==
    /\ RunnerAt(r, "close")
    /\ IF main = Len(log) THEN torn' = torn /\ RunnerTo(r, "unlink")
       ELSE /\ torn' = TRUE
            /\ runner' = [runner EXCEPT ![r] = [at |-> "checkpoint", run |-> @.run,
                                                then |-> "unlink", pending |-> {}]]
    /\ UNCHANGED <<clock, log, main, sidecars, locks, copies, papers>>

RemoveSidecar(r) ==
    /\ RunnerAt(r, "unlink") /\ sidecars # {}
    /\ sidecars' = IF "shm" \in sidecars THEN sidecars \ {"shm"} ELSE {}
    /\ UNCHANGED <<clock, log, main, torn, locks, runner, copies, papers>>

EndRun(r) ==
    /\ RunnerAt(r, "unlink") /\ sidecars = {}
    /\ Release(r) /\ runner' = [runner EXCEPT ![r] = Off]
    /\ UNCHANGED <<clock, files, lockFile, copies, papers>>

(* The process is killed: the kernel releases the flock, the files stay.   *)
RunnerDies(r) ==
    /\ ~RunnerAt(r, "off") /\ ~RunnerAt(r, "wait")
    /\ Release(r) /\ runner' = [runner EXCEPT ![r] = Off]
    /\ UNCHANGED <<clock, files, lockFile, copies, papers>>

RunnerNext(r) ==
    \/ BeginRun(r) \/ RunnerLocked(r) \/ RunnerTimesOut(r) \/ OpenLedger(r) \/ OpenFails(r)
    \/ Collect(r) \/ FinishCheckpoint(r) \/ ScoreSymbol(r) \/ CommitScores(r)
    \/ StageFails(r) \/ CloseLedger(r) \/ RemoveSidecar(r)
    \/ EndRun(r) \/ RunnerDies(r)

-----------------------------------------------------------------------------
(***************************************************************************)
(* create_snapshot: a copy of the ledger for the dashboard, made under the *)
(* writer's lock                                                           *)
(***************************************************************************)
CopierAt(stage) == copier.at = stage
CopierTo(stage) == copier' = [copier EXCEPT !.at = stage]
CopyEnds        == Release("snapshot") /\ copier' = CopyOff

(* The snapshot never creates the lock file; without one it fails.  Bound  *)
(* of the model: one copy that is not empty.                               *)
BeginCopy ==
    /\ CopierAt("off") /\ lockFile /\ published = 0
    /\ CopierTo("wait")
    /\ UNCHANGED <<clock, files, locks, runner, published, papers>>

CopierLocked ==
    /\ CopierAt("wait") /\ Acquire("snapshot")
    /\ CopierTo("look")
    /\ UNCHANGED <<clock, files, lockFile, runner, published, papers>>

CopierTimesOut ==
    /\ CopierAt("wait") /\ lock # "free"
    /\ CopierTo("off")
    /\ UNCHANGED <<clock, files, locks, runner, published, papers>>

(* One sidecar without the other cannot be read: the copy is refused.      *)
LookAtSidecars ==
    /\ CopierAt("look") /\ Cardinality(sidecars) # 1
    /\ copier' = [copier EXCEPT !.at = "copy", !.seen = sidecars]
    /\ UNCHANGED <<clock, files, locks, runner, published, papers>>

CopyThroughWal ==
    /\ CopierAt("copy")
    /\ copier' = [copier EXCEPT !.at = "publish",
                    !.copied = IF "wal" \in sidecars THEN Len(log) ELSE main]
    /\ UNCHANGED <<clock, files, locks, runner, published, papers>>

CopyMainFileAnyway ==  \* mutant: the fallback ignores the sidecars
    /\ CopierAt("copy")
    /\ copier' = [copier EXCEPT !.at = "publish", !.copied = main]
    /\ UNCHANGED <<clock, files, locks, runner, published, papers>>
(* The read-only open failed and there were no sidecars: the main file is  *)
(* opened as immutable.                                                    *)
CopyMainFile ==
    /\ CopierAt("copy") /\ copier.seen = {}
    /\ copier' = [copier EXCEPT !.at = "publish", !.copied = main]
    /\ UNCHANGED <<clock, files, locks, runner, published, papers>>

PublishCopy ==
    /\ CopierAt("publish")
    /\ published' = copier.copied /\ CopyEnds
    /\ UNCHANGED <<clock, files, lockFile, runner, papers>>

(* A check or an I/O operation fails, or the process is killed.            *)
CopyFails ==
    /\ ~CopierAt("off") /\ CopyEnds
    /\ UNCHANGED <<clock, files, lockFile, runner, published, papers>>

CopierNext ==
    \/ BeginCopy \/ CopierLocked \/ CopierTimesOut \/ LookAtSidecars
    \/ CopyThroughWal \/ CopyMainFile \/ PublishCopy \/ CopyFails

-----------------------------------------------------------------------------
(***************************************************************************)
(* load_ksf_sqlite: for every symbol the latest run of the session that is *)
(* scored and not younger than the cycle, in the main file alone, without  *)
(* the lock.  A file a checkpoint is at work on may show any of the        *)
(* commits being copied; its hash may change or not (PaperFails is the     *)
(* other outcome).                                                         *)
(***************************************************************************)
FileHash == IF torn THEN <<"torn", main>> ELSE <<"whole", main>>
Visible  == IF torn THEN main .. Len(log) ELSE {main}

Eligible(cycle, symbol, upto) ==
    {n \in 1 .. Min({cycle.runs, Len(runs)}) :
        /\ runs[n] = cycle.session
        /\ \E i \in 1 .. upto : log[i].run = n /\ symbol \in log[i].scored}

(* The run a reader of the first upto commits takes, 0 if there is none.   *)
Lineage(cycle, symbol, upto) ==
    IF Eligible(cycle, symbol, upto) = {} THEN 0 ELSE Max(Eligible(cycle, symbol, upto))

(* A mapping with one more entry. *)
Extended(f, key, value) == [k \in DOMAIN f \cup {key} |-> IF k = key THEN value ELSE f[k]]

PaperAt(stage) == paper.at = stage
PaperTo(stage) == paper' = [paper EXCEPT !.at = stage]

(* The file is hashed, hashed again by the loader and opened; a difference *)
(* is a failure.                                                           *)
HashSource ==
    /\ PaperAt("hash")
    /\ paper' = [paper EXCEPT !.at = "read", !.hash = FileHash]
    /\ UNCHANGED <<others, productions, bundles, handoff, cycles>>

LoadSymbol ==
    /\ PaperAt("read") /\ DOMAIN paper.lineage # Symbols
    /\ \E upto \in Visible, s \in {NextOf(DOMAIN paper.lineage)} :
         /\ Lineage(paper.cycle, s, upto) # 0
         /\ paper' = [paper EXCEPT !.lineage = Extended(@, s, Lineage(paper.cycle, s, upto))]
    /\ UNCHANGED <<others, productions, bundles, handoff, cycles>>

Loaded == PaperAt("read") /\ DOMAIN paper.lineage = Symbols

-----------------------------------------------------------------------------
(***************************************************************************)
(* The producer and its wrapper: forget the last handoff, name a cycle,    *)
(* build the bundle of the day, publish it unless the day has one, hand    *)
(* the cycle over                                                          *)
(***************************************************************************)
Cycle == [session |-> Day(now), runs |-> Len(runs), number |-> productions + 1]
Working(role, cycle, bundle) ==
    paper' = [at |-> "hash", role |-> role, cycle |-> cycle, hash |-> None,
              lineage |-> << >>, bundle |-> bundle]

NameCycleKeepingHandoff ==  \* mutant: the earlier handoff is not removed
    /\ PaperAt("off") /\ productions < MaxProductions
    /\ productions' = productions + 1
    /\ Working("producer", Cycle, None)
    /\ UNCHANGED <<others, bundles, cycles, handoff>>
NameCycle ==
    /\ PaperAt("off") /\ productions < MaxProductions
    /\ handoff' = None
    /\ productions' = productions + 1
    /\ Working("producer", Cycle, None)
    /\ UNCHANGED <<others, bundles, cycles>>

CheckSourceNever ==  \* mutant: the source is not hashed again
    /\ Loaded /\ paper.role = "producer"
    /\ PaperTo("publish")
    /\ UNCHANGED <<others, productions, bundles, handoff, cycles>>
CheckSource ==
    /\ Loaded /\ paper.role = "producer" /\ paper.hash = FileHash
    /\ PaperTo("publish")
    /\ UNCHANGED <<others, productions, bundles, handoff, cycles>>

PublishBundle ==
    /\ PaperAt("publish") /\ bundles[paper.cycle.session] = None
    /\ bundles' = [bundles EXCEPT ![paper.cycle.session] =
                     [cycle |-> paper.cycle, hash |-> paper.hash, lineage |-> paper.lineage]]
    /\ PaperTo("handover")
    /\ UNCHANGED <<others, productions, handoff, cycles>>

HandOver ==
    /\ PaperAt("handover")
    /\ handoff' = paper.cycle /\ paper' = Unit
    /\ UNCHANGED <<others, productions, bundles, cycles>>

-----------------------------------------------------------------------------
(***************************************************************************)
(* The agent's wrapper and run_cycle_from_env                              *)
(***************************************************************************)
TakeHandoff ==
    /\ PaperAt("off") /\ handoff # None /\ bundles[handoff.session] # None
    /\ Working("agent", handoff, bundles[handoff.session])
    /\ UNCHANGED <<others, productions, bundles, handoff, cycles>>

ValidBundleByCycle(bundle) == bundle.cycle = paper.cycle  \* mutant: no provenance
ValidBundle(bundle) ==
    bundle.cycle = paper.cycle /\ bundle.hash = paper.hash /\ bundle.lineage = paper.lineage

(* A session that is committed already is replayed or conflicts. *)
RunCycle ==
    /\ Loaded /\ paper.role = "agent" /\ ValidBundle(paper.bundle)
    /\ paper' = Unit
    /\ cycles' = [cycles EXCEPT ![paper.cycle.session] =
                    IF @ = None THEN [hash |-> paper.hash, lineage |-> paper.lineage] ELSE @]
    /\ UNCHANGED <<others, productions, bundles, handoff>>

(* Anything fails or the process is killed: what was written stays.        *)
PaperFails ==
    /\ ~PaperAt("off") /\ paper' = Unit
    /\ UNCHANGED <<others, productions, bundles, handoff, cycles>>

PaperNext ==
    \/ HashSource \/ LoadSymbol
    \/ NameCycle \/ CheckSource \/ PublishBundle \/ HandOver
    \/ TakeHandoff \/ RunCycle \/ PaperFails

-----------------------------------------------------------------------------
Next == Tick \/ (\E r \in Runners : RunnerNext(r)) \/ CopierNext \/ PaperNext

Spec == Init /\ [][Next]_vars

(* Whoever waits for the lock polls it until it is free or the deadline    *)
(* has passed; nothing is assumed of whoever holds it.                     *)
FairStore ==
    /\ Spec
    /\ \A r \in Runners : WF_vars(RunnerLocked(r) \/ RunnerTimesOut(r))
    /\ WF_vars(CopierLocked \/ CopierTimesOut)

-----------------------------------------------------------------------------
(***************************************************************************)
(* Properties                                                              *)
(***************************************************************************)
(* The files are in a state SQLite can recover: what the main file lacks   *)
(* is in the WAL, and a half-copied main file has its WAL beside it.       *)
StoreTypeOK ==
    /\ now \in 0 .. MaxNow /\ lock \in Runners \cup {"free", "snapshot"}
    /\ \A i \in 1 .. Len(log) : log[i].run \in 1 .. Len(runs) /\ log[i].scored \subseteq Symbols
    /\ main \in 0 .. Len(log) /\ sidecars \subseteq {"wal", "shm"}
    /\ "wal" \notin sidecars => main = Len(log)
    /\ torn => main < Len(log)
    /\ published \in 0 .. Len(log) /\ productions \in 0 .. MaxProductions

(* The production runs and the dashboard's snapshot exclude each other     *)
(* from the first look at the ledger to the last.                          *)
Busy == {r \in Runners : ~RunnerAt(r, "off") /\ ~RunnerAt(r, "wait")}
          \cup (IF CopierAt("off") \/ CopierAt("wait") THEN {} ELSE {"snapshot"})
LedgerExclusive == \A p \in Busy : lock = p

(* The copy that is about to be published contains every commit made so    *)
(* far, those that a killed run left in the WAL included.                  *)
SnapshotComplete == CopierAt("publish") => copier.copied = Len(log)

(* The bundle's source hash tells what the bundle was made of: whoever     *)
(* reads a whole file of that hash finds the lineage of the bundle.        *)
BundleMatchesHash ==
    \A s \in Sessions : bundles[s] # None /\ bundles[s].hash[1] = "whole" =>
        \A symbol \in Symbols :
            bundles[s].lineage[symbol] = Lineage(bundles[s].cycle, symbol, bundles[s].hash[2])

(* The handoff file names the cycle of the latest production, and the      *)
(* bundle of its session was made for exactly this cycle: an agent that    *)
(* starts after a failed production finds nothing to run.                  *)
HandoffCurrent ==
    handoff # None =>
        /\ handoff.number = productions
        /\ bundles[handoff.session] # None /\ bundles[handoff.session].cycle = handoff

(* A committed cycle used the runs its bundle names, although the ledger   *)
(* may have changed in between.                                            *)
CycleOfItsBundle ==
    \A s \in Sessions : cycles[s] # None =>
        /\ bundles[s] # None
        /\ cycles[s] = [hash |-> bundles[s].hash, lineage |-> bundles[s].lineage]

(* Nobody waits for the lock for ever, even if its holder hangs.           *)
LockWaitEnds ==
    /\ \A r \in Runners : RunnerAt(r, "wait") ~> ~RunnerAt(r, "wait")
    /\ CopierAt("wait") ~> ~CopierAt("wait")
=============================================================================

--------------------------- MODULE HealthSnapshot ---------------------------
(***************************************************************************)
(* The health snapshot of the UI server (ui/server/sync.py): a scan of the *)
(* close files that says up to which day the market is there.  Requests    *)
(* share one cached snapshot for two seconds; a finished sync stores one   *)
(* without a scan and starts a worker that scans again.  The scans run     *)
(* outside the lock, so they may be stored in any order.                   *)
(*                                                                         *)
(* A sync is here only what the snapshot and a scan see of it (BinStore    *)
(* opens it): it reads the snapshot, the calendar gets the days, then one  *)
(* close file after the other, and it publishes the day it has fetched.    *)
(***************************************************************************)
EXTENDS Naturals, FiniteSetsExt

CONSTANTS
    Symbol, \* equities of instruments/all.txt
    Reader, \* request threads
    Today   \* bound on the days

\* The other threads that scan, and the cache of the snapshot.
Worker == "worker"
Syncer == "sync"
Cache  == "cache"
Scanner == Reader \union {Worker, Syncer}

ASSUME SnapshotAssumption ==
    /\ IsFiniteSet(Symbol) /\ Symbol # {}
    /\ {Worker, Syncer, Cache} \intersect Reader = {}
    /\ Today \in Nat \ {0}

VARIABLES
    calendar,   \* last day of calendars/day.txt
    close,      \* close[s]: the last day with a close of s
    job,        \* the sync that runs
    snap,       \* marketEffectiveLastDate of the cached snapshot; 0 without one
    fresh,      \* the snapshot is younger than HEALTH_SNAPSHOT_TTL
    refreshing, \* _health_refreshing holds the data directory
    worker,     \* the thread that renews the snapshot: "none", "scans", "stored"
    scan,       \* what a thread has scanned and not stored yet; 0 without a scan
    claims      \* auxiliary: who holds a day that the closes may not have

diskVars   == <<calendar, close, job>>
healthVars == <<snap, fresh, refreshing, worker, scan, claims>>

\* known: the market's day in the snapshot the sync began with; target: the day it has
\* accepted, or 0; doubtful (auxiliary): no equity has a bar of the target, because a
\* forced sync asks for no coverage, or a write worker has raised.
Job == [phase : {"idle", "reads", "fetches", "writes"}, known : 0..Today,
        target : 0..Today, doubtful : BOOLEAN]
NoJob == [phase |-> "idle", known |-> 0, target |-> 0, doubtful |-> FALSE]

HealthTypeOK ==
    /\ calendar \in 1..Today
    /\ close \in [Symbol -> 1..Today]
    /\ job \in Job
    /\ snap \in 0..Today
    /\ fresh \in BOOLEAN
    /\ refreshing \in BOOLEAN
    /\ worker \in {"none", "scans", "stored"}
    /\ scan \in [Scanner -> 0..Today]
    /\ claims \subseteq Scanner \union {Cache}

HealthInit ==
    /\ calendar = 1
    /\ close = [s \in Symbol |-> 1]
    /\ job = NoJob
    /\ snap = 0 /\ fresh = FALSE /\ refreshing = FALSE /\ worker = "none"
    /\ scan = [t \in Scanner |-> 0]
    /\ claims = {}

\* market_latest: the last day on which any equity has a close.
Market == Max({close[s] : s \in Symbol})

-----------------------------------------------------------------------------
(* The snapshot in the cache.                                              *)

\* Wrong variant: a snapshot is served however old it is.
ServedForEver == snap # 0

\* get_data_health_snapshot serves the cached snapshot while it is fresh or a
\* worker renews it ...
Served == snap # 0 /\ (refreshing \/ fresh)

\* ... and otherwise scans itself, outside the lock.  A scan that raises names the
\* calendar's last day.
Scans(t) ==
    /\ scan[t] = 0
    /\ \/ scan' = [scan EXCEPT ![t] = Market] /\ claims' = claims \ {t}
       \/ scan' = [scan EXCEPT ![t] = calendar] /\ claims' = claims \union {t}
    /\ UNCHANGED <<calendar, close, snap, fresh, refreshing, worker>>

StoreSnapshot(day) == snap' = day /\ fresh' = TRUE

\* It stores what it saw.
Stores(t) ==
    /\ scan[t] # 0
    /\ StoreSnapshot(scan[t])
    /\ scan' = [scan EXCEPT ![t] = 0]
    /\ claims' = (claims \ {t, Cache}) \union {c \in {Cache} : t \in claims}
    /\ UNCHANGED <<calendar, close, refreshing>>

RequestScans(r) == ~Served /\ Scans(r) /\ UNCHANGED job
RequestStores(r) == Stores(r) /\ UNCHANGED <<job, worker>>

Expire ==
    /\ fresh
    /\ fresh' = FALSE
    /\ UNCHANGED <<diskVars, snap, refreshing, worker, scan, claims>>

-----------------------------------------------------------------------------
(* The worker.                                                             *)

\* start_health_refresh: one worker at a time.  A thread that does not start leaves
\* the data directory in _health_refreshing.
StartHealthRefresh ==
    /\ refreshing' = TRUE
    /\ IF refreshing THEN UNCHANGED worker ELSE worker' \in {"scans", "none"}

NotBegun == refreshing /\ worker = "none"

WorkerScans == worker = "scans" /\ Scans(Worker) /\ UNCHANGED job

WorkerStores == Stores(Worker) /\ worker' = "stored" /\ UNCHANGED job

\* It takes the lock a second time to leave _health_refreshing.
WorkerLeaves ==
    /\ worker = "stored"
    /\ worker' = "none" /\ refreshing' = FALSE
    /\ UNCHANGED <<diskVars, snap, fresh, scan, claims>>

-----------------------------------------------------------------------------
(* The sync.                                                               *)

SyncStarts ==
    /\ job.phase = "idle"
    /\ job' = [job EXCEPT !.phase = "reads"]
    /\ UNCHANGED <<calendar, close, healthVars>>

Knows(day) == job' = [job EXCEPT !.phase = "fetches", !.known = day]

\* It asks for the snapshot like a request.
SyncReads ==
    /\ job.phase = "reads" /\ scan[Syncer] = 0 /\ Served
    /\ Knows(snap)
    /\ claims' = (claims \ {Syncer}) \union {c \in {Syncer} : Cache \in claims}
    /\ UNCHANGED <<calendar, close, snap, fresh, refreshing, worker, scan>>

SyncScans == job.phase = "reads" /\ ~Served /\ Scans(Syncer) /\ UNCHANGED job

\* Its own scan stays in its hands.
SyncStores ==
    /\ scan[Syncer] # 0
    /\ Knows(scan[Syncer])
    /\ StoreSnapshot(scan[Syncer])
    /\ scan' = [scan EXCEPT ![Syncer] = 0]
    /\ claims' = (claims \ {Cache}) \union {c \in {Cache} : Syncer \in claims}
    /\ UNCHANGED <<calendar, close, refreshing, worker>>

\* The calendar gets the accepted days.  Without enough coverage, the last day of the
\* bars, the target, is not one of them.
SyncPublishesDays ==
    /\ job.phase = "fetches"
    /\ calendar' \in calendar..Today
    /\ \E accepted, unsure \in BOOLEAN :
          job' = [job EXCEPT !.phase = "writes", !.doubtful = unsure,
                             !.target = IF accepted /\ calendar' > calendar THEN calendar' ELSE 0]
    /\ UNCHANGED <<close, healthVars>>

\* A write worker brings one close file after the other up to the calendar, or to the
\* last day the symbol has a bar of ...
SyncWritesClose(s) ==
    /\ job.phase = "writes"
    /\ \E day \in (close[s] + 1)..calendar : close' = [close EXCEPT ![s] = day]
    /\ UNCHANGED <<calendar, job, healthVars>>

\* ... or raises, and nobody asks for it.
WriterRaises ==
    /\ job.phase = "writes"
    /\ job' = [job EXCEPT !.doubtful = TRUE]
    /\ UNCHANGED <<calendar, close, healthVars>>

\* The sync publishes the target, whatever has been written of it, or the day it began
\* with.
SyncPublishes ==
    /\ job.phase = "writes"
    /\ job.doubtful \/ job.target <= Market
    /\ StoreSnapshot(IF job.target = 0 THEN job.known ELSE job.target)
    /\ claims' = (claims \ {Syncer, Cache}) \union
                    {c \in {Cache} : IF job.target = 0 THEN Syncer \in claims ELSE job.doubtful}
    /\ StartHealthRefresh

\* It gives its slot back, or returns early or raises.
SyncEnds ==
    /\ job.phase # "idle" /\ scan[Syncer] = 0
    /\ job' = NoJob
    /\ \/ SyncPublishes
       \/ claims' = claims \ {Syncer} /\ UNCHANGED <<snap, fresh, refreshing, worker>>
    /\ UNCHANGED <<calendar, close, scan>>

SyncStep ==
    \/ SyncStarts
    \/ SyncReads \/ SyncScans \/ SyncStores
    \/ SyncPublishesDays
    \/ \E s \in Symbol : SyncWritesClose(s)
    \/ WriterRaises
    \/ SyncEnds

HealthNext ==
    \/ SyncStep
    \/ WorkerScans \/ WorkerStores \/ WorkerLeaves
    \/ \E r \in Reader : RequestScans(r) \/ RequestStores(r)
    \/ Expire

\* Threads run on, time passes, and the status page keeps asking.
HealthFairness ==
    /\ WF_healthVars(WorkerScans)
    /\ WF_healthVars(WorkerStores)
    /\ WF_healthVars(WorkerLeaves)
    /\ \A r \in Reader : WF_healthVars(RequestScans(r)) /\ WF_healthVars(RequestStores(r))
    /\ WF_healthVars(Expire)

-----------------------------------------------------------------------------
\* Properties.

\* Whatever order the snapshots are stored in, the cached one never names a day the
\* calendar has not, and names a day no equity has a close of only if a scan that raised
\* or a sync with a doubtful target has stored it: predictions and the next sync start
\* from it.
SnapshotTrue ==
    /\ snap <= calendar
    /\ Cache \notin claims => snap <= Market

\* A scan from before a sync, and the day a sync began with, may be stored after the
\* market has moved on.  Yet once no sync runs, the pages come to see its last day,
\* unless the last scan has raised, or the worker of a sync has not started, which keeps
\* an old snapshot for the life of the server.
SnapshotCatchesUp ==
    <>[](job = NoJob) => <>[](snap = Market \/ Cache \in claims \/ NotBegun)
=============================================================================

----------------------------- MODULE SyncService -----------------------------
(***************************************************************************)
(* The background jobs of the UI server (ui/server/sync.py, started from   *)
(* ui/server/main.py, routers/pipeline.py and routers/browser.py): the     *)
(* single slot a daily sync claims, the timeout that clears a slot which   *)
(* looks stuck, and the stock summary that is rebuilt behind the syncs by  *)
(* one worker thread, which coalesces the requests it gets meanwhile, and  *)
(* which the stock page loads from memory or from its file.                *)
(*                                                                         *)
(* A step is what runs under _sync_lock, or under _cache_lock, or one      *)
(* access to the files, or to the copy in memory, which no lock guards.    *)
(* What a sync writes is a version number of the whole data directory      *)
(* here; module BinStore opens it.  The directory has instruments.         *)
(***************************************************************************)
EXTENDS Naturals

CONSTANTS
    Job,     \* threads that run, or ask for, a sync
    Builder, \* threads that may rebuild the summary
    Page,    \* requests of /browser/stocks
    MaxData  \* bound on the versions of the data directory

ASSUME SyncAssumption == MaxData \in Nat \ {0}

VARIABLES
    up,        \* has lifespan reached its yield?
    slot,      \* _sync_status: "free", "held" (running), or "stale" (running, and
               \* runningSince lies too far in the past)
    lastError, \* _sync_status["lastError"]
    job,       \* job[j]: where thread j is
    data,      \* version of the market data on disk
    cache,     \* _cache_status: "idle", "running", "failed" (not running, with a
               \* lastError); "again" is running with _cache_refresh_pending
    builder,   \* builder[k]: where thread k is in the refresh worker
    seen,      \* seen[k]: the version its build started to read; 0 when it is over
    summary,   \* version of latest.json; 0 when there is none
    memory,    \* version of the copy in _cache; 0 when there is none
    page,      \* page[p]: where request p is in load_stock_summary
    got,       \* got[p]: the version it has read from the file
    asked,     \* auxiliary: version at the last start_cache_refresh; 0 before
    unstarted, \* auxiliary: the thread of a refresh has not started
    late,      \* auxiliary: the copy in memory comes from a page that read a file
               \* which had been replaced when it stored it
    overrun    \* auxiliary: the slot of a living job has been cleared as stale

slotVars  == <<slot, lastError, job, overrun>>
buildVars == <<cache, builder, seen, summary, memory, asked, unstarted, late>>
pageVars  == <<page, got>>
cacheVars == <<buildVars, pageVars>>
syncVars  == <<up, data, slotVars, cacheVars>>

\* Threads that hold the slot, as far as they know.
Active(j) == job[j] \in {"starting", "work", "written", "finally", "failing"}

ServiceFlagsOK ==
    /\ up \in BOOLEAN /\ overrun \in BOOLEAN
    /\ unstarted \in BOOLEAN /\ late \in BOOLEAN

ServiceOK ==
    /\ slot \in {"free", "held", "stale"}
    /\ lastError \in {"none", "failed", "reset"}
    /\ job \in [Job -> {"idle", "asked", "starting", "work", "written", "finally", "failing"}]
    /\ data \in 1..MaxData
    /\ cache \in {"idle", "running", "again", "failed"}
    /\ builder \in [Builder -> {"off", "start", "reading", "replaced", "built"}]
    /\ seen \in [Builder -> 0..MaxData]
    /\ summary \in 0..MaxData
    /\ memory \in 0..MaxData
    /\ page \in [Page -> {"idle", "looked", "read", "missed"}]
    /\ got \in [Page -> 0..MaxData]
    /\ asked \in 0..MaxData

SyncTypeOK == ServiceFlagsOK /\ ServiceOK

\* A server that starts on the data of version 1, with the summary an
\* earlier server left behind, or none.
SyncInit ==
    /\ up = FALSE
    /\ slot = "free"
    /\ lastError = "none"
    /\ job = [j \in Job |-> "idle"]
    /\ data = 1
    /\ cache = "idle"
    /\ builder = [k \in Builder |-> "off"]
    /\ seen = [k \in Builder |-> 0]
    /\ summary \in {0, 1}
    /\ memory = 0
    /\ page = [p \in Page |-> "idle"]
    /\ got = [p \in Page |-> 0]
    /\ asked = 0
    /\ unstarted = FALSE
    /\ late = FALSE
    /\ overrun = FALSE

Goto(j, p) == job' = [job EXCEPT ![j] = p]

-----------------------------------------------------------------------------
(* The summary refresh.                                                    *)

Refreshing == cache \in {"running", "again"}

\* Wrong variants of start_cache_refresh: it does not look whether a worker
\* is running, or it forgets a request that comes while one is.
RefreshAlways ==
    /\ asked' = data
    /\ \E k \in Builder :
          /\ builder[k] = "off"
          /\ builder' = [builder EXCEPT ![k] = "start"]
    /\ cache' = "running"
    /\ UNCHANGED <<seen, summary, memory, unstarted, late>>

\* A thread is started for the refresh.
StartBuilder ==
    /\ ~Refreshing
    /\ cache' = "running"
    /\ \E k \in Builder :
          /\ builder[k] = "off"
          /\ builder' = [builder EXCEPT ![k] = "start"]

RefreshForgotten ==
    /\ asked' = data
    /\ UNCHANGED <<seen, summary, memory, unstarted, late>>
    /\ StartBuilder \/ (Refreshing /\ UNCHANGED <<cache, builder>>)

\* start_cache_refresh: a running worker is told to go round once more.
StartCacheRefresh ==
    /\ asked' = data
    /\ UNCHANGED <<seen, summary, memory, unstarted, late>>
    /\ StartBuilder \/ (Refreshing /\ cache' = "again" /\ UNCHANGED builder)

\* Its thread does not start: the exception goes to the caller, and nobody
\* takes the status back.  From here on it says "running" without a worker.
BuilderNotStarted ==
    /\ ~Refreshing
    /\ cache' = "running"
    /\ asked' = data
    /\ unstarted' = TRUE
    /\ UNCHANGED <<builder, seen, summary, memory, late>>

\* build_stock_summary reads the instruments and the bins ...
BuildRead(k) ==
    /\ builder[k] = "start"
    /\ builder' = [builder EXCEPT ![k] = "reading"]
    /\ seen' = [seen EXCEPT ![k] = data]
    /\ UNCHANGED <<up, data, slotVars, pageVars, cache, summary, memory, asked, unstarted, late>>

\* ... replaces latest.json ...
BuildWrite(k) ==
    /\ builder[k] = "reading"
    /\ builder' = [builder EXCEPT ![k] = "replaced"]
    /\ summary' = seen[k]
    /\ UNCHANGED <<up, data, slotVars, pageVars, cache, seen, memory, asked, unstarted, late>>

\* ... and then the copy in memory.
BuildStore(k) ==
    /\ builder[k] = "replaced"
    /\ builder' = [builder EXCEPT ![k] = "built"]
    /\ memory' = seen[k]
    /\ late' = FALSE
    /\ UNCHANGED <<up, data, slotVars, pageVars, cache, seen, summary, asked, unstarted>>

\* Wrong variant: the worker returns in spite of a pending request.
BuildDoneIgnoring(k) ==
    /\ builder[k] = "built"
    /\ builder' = [builder EXCEPT ![k] = "off"]
    /\ cache' = IF cache = "again" THEN "again" ELSE "idle"
    /\ seen' = [seen EXCEPT ![k] = 0]
    /\ UNCHANGED <<up, data, slotVars, pageVars, summary, memory, asked, unstarted, late>>

BuildDone(k) ==
    /\ builder[k] = "built"
    /\ builder' = [builder EXCEPT ![k] = IF cache = "again" THEN "start" ELSE "off"]
    /\ cache' = IF cache = "again" THEN "running" ELSE "idle"
    /\ seen' = [seen EXCEPT ![k] = 0]
    /\ UNCHANGED <<up, data, slotVars, pageVars, summary, memory, asked, unstarted, late>>

\* The build raises: the pending request is dropped with it.
BuildFails(k) ==
    /\ builder[k] \in {"start", "reading"}
    /\ builder' = [builder EXCEPT ![k] = "off"]
    /\ cache' = "failed"
    /\ seen' = [seen EXCEPT ![k] = 0]
    /\ UNCHANGED <<up, data, slotVars, pageVars, summary, memory, asked, unstarted, late>>

-----------------------------------------------------------------------------
(* /browser/stocks, which loads the summary.  A hit in memory changes      *)
(* nothing.  A file that cannot be parsed, which the page would remove,    *)
(* is left out: latest.json is only ever replaced whole.                   *)

Turn(p, at) == page' = [page EXCEPT ![p] = at]

\* load_stock_summary finds no copy, or one that has expired, or one for
\* another number of instruments, which it drops.
LoadLook(p) ==
    /\ up /\ page[p] = "idle"
    /\ Turn(p, "looked")
    /\ memory' \in {memory, 0}
    /\ late' = (late /\ memory' # 0)
    /\ UNCHANGED <<up, data, slotVars, got, cache, builder, seen, summary, asked, unstarted>>

\* It reads the file, unless there is none, or finds it made for another
\* number of instruments.
LoadRead(p) ==
    /\ page[p] = "looked"
    /\ \/ summary # 0 /\ Turn(p, "read") /\ got' = [got EXCEPT ![p] = summary]
       \/ Turn(p, "missed") /\ UNCHANGED got
    /\ UNCHANGED <<up, data, slotVars, buildVars>>

\* What it has read becomes the copy in memory, whatever has been published
\* in the meantime.
LoadStore(p) ==
    /\ page[p] = "read"
    /\ Turn(p, "idle")
    /\ memory' = got[p]
    /\ late' = (got[p] # summary)
    /\ got' = [got EXCEPT ![p] = 0]
    /\ UNCHANGED <<up, data, slotVars, cache, builder, seen, summary, asked, unstarted>>

\* Without a summary the page asks for one; the answer is an error when the
\* thread does not start.
LoadMiss(p) ==
    /\ page[p] = "missed"
    /\ Turn(p, "idle")
    /\ StartCacheRefresh \/ BuilderNotStarted
    /\ UNCHANGED <<up, data, slotVars, got>>

-----------------------------------------------------------------------------
(* The sync slot.                                                          *)

\* get_sync_status: a slot held longer than STALE_RUNNING_TIMEOUT is cleared.
ClearStale ==
    IF slot = "stale"
    THEN /\ slot' = "free"
         /\ lastError' = "reset"
         /\ overrun' = TRUE
    ELSE UNCHANGED <<slot, lastError, overrun>>

\* Wrong variant: the status is published before the slot is looked at.
TryBeginErasing(j, claimed, refused) ==
    /\ lastError' = "none"
    /\ IF slot # "free"
       THEN Goto(j, refused) /\ UNCHANGED slot
       ELSE Goto(j, claimed) /\ slot' = "held"

\* _try_begin_sync: claim the slot, or be refused.
TryBegin(j, claimed, refused) ==
    IF slot # "free"
    THEN Goto(j, refused) /\ UNCHANGED <<slot, lastError>>
    ELSE /\ Goto(j, claimed)
         /\ slot' = "held"
         /\ lastError' = "none"

\* GET /status, or the model service.
PollStatus ==
    /\ up
    /\ ClearStale
    /\ UNCHANGED <<up, data, job, cacheVars>>

\* POST /trigger: start_auto_sync_daily looks at the status first ...
Trigger(j) ==
    /\ up /\ job[j] = "idle"
    /\ ClearStale
    /\ Goto(j, "asked")
    /\ UNCHANGED <<up, data, cacheVars>>

\* ... then claims the slot, which others may do in between ...
Claim(j) ==
    /\ job[j] = "asked"
    /\ TryBegin(j, "starting", "idle")
    /\ UNCHANGED <<up, data, overrun, cacheVars>>

\* ... and starts the thread.
StartThread(j) ==
    /\ job[j] = "starting"
    /\ Goto(j, "work")
    /\ UNCHANGED <<up, data, slot, lastError, overrun, cacheVars>>

\* Wrong variant: a thread that does not start leaves the slot claimed.
StartFailsKeepsSlot(j) ==
    /\ job[j] = "starting"
    /\ Goto(j, "idle")
    /\ lastError' = "failed"
    /\ UNCHANGED <<up, data, slot, overrun, cacheVars>>

StartFails(j) ==
    /\ job[j] = "starting"
    /\ Goto(j, "idle")
    /\ slot' = "free"
    /\ lastError' = "failed"
    /\ UNCHANGED <<up, data, overrun, cacheVars>>

\* schedule_daily_sync runs auto_sync_daily in its own thread and does not
\* look at the status first.
Schedule(j) ==
    /\ up /\ job[j] = "idle"
    /\ TryBegin(j, "work", "idle")
    /\ UNCHANGED <<up, data, overrun, cacheVars>>

\* runningSince, set once by the claim, comes to lie too far in the past.
Age ==
    /\ slot = "held"
    /\ slot' = "stale"
    /\ UNCHANGED <<up, data, lastError, job, overrun, cacheVars>>

-----------------------------------------------------------------------------
(* The job, auto_sync_daily.                                               *)

\* An early return: no trading day, market open, nothing to fetch, no bars;
\* or, with an error, a corrupt calendar or no connection.
Return(j) ==
    /\ job[j] = "work"
    /\ \/ Goto(j, "finally") /\ UNCHANGED lastError
       \/ Goto(j, "failing") /\ lastError' = "failed"
    /\ UNCHANGED <<up, data, slot, overrun, cacheVars>>

\* Calendar, bins and instruments are written.
Write(j) ==
    /\ job[j] = "work"
    /\ data < MaxData
    /\ data' = data + 1
    /\ Goto(j, "written")
    /\ UNCHANGED <<up, slot, lastError, overrun, cacheVars>>

\* The full or partial sync, the latter with its error, asks for the summary;
\* not when no symbol counts as updated (the write workers have raised).  A
\* refresh whose thread does not start is an error of the job.
Finish(j) ==
    /\ job[j] = "written"
    /\ \/ /\ StartCacheRefresh
          /\ \/ Goto(j, "finally") /\ UNCHANGED lastError
             \/ Goto(j, "failing") /\ lastError' = "failed"
       \/ /\ BuilderNotStarted
          /\ Goto(j, "failing") /\ lastError' = "failed"
       \/ /\ Goto(j, "finally")
          /\ UNCHANGED <<lastError, buildVars>>
    /\ UNCHANGED <<up, data, slot, overrun, pageVars>>

\* An exception anywhere in the job.
Raise(j) ==
    /\ job[j] \in {"work", "written"}
    /\ Goto(j, "failing")
    /\ lastError' = "failed"
    /\ UNCHANGED <<up, data, slot, overrun, cacheVars>>

\* Wrong variant: the slot is released only when all went well.
FreeOnSuccess(j) ==
    /\ job[j] \in {"finally", "failing"}
    /\ slot' = IF job[j] = "finally" THEN "free" ELSE slot
    /\ Goto(j, "idle")
    /\ UNCHANGED <<up, data, lastError, overrun, cacheVars>>

\* The finally clause releases the slot, whoever holds it now.
Free(j) ==
    /\ job[j] \in {"finally", "failing"}
    /\ slot' = "free"
    /\ Goto(j, "idle")
    /\ UNCHANGED <<up, data, lastError, overrun, cacheVars>>

-----------------------------------------------------------------------------
(* lifespan: nobody else runs before its yield.  When a thread does not    *)
(* start here the server ends, and there is nothing left to look at.       *)

\* Before 15:00 the summary is refreshed at once.
BootEarly ==
    /\ ~up
    /\ up' = TRUE
    /\ StartCacheRefresh
    /\ UNCHANGED <<data, slotVars, pageVars>>

\* After 15:00 a sync is started, and the refresh is left to it.
BootLate(j) ==
    /\ ~up /\ job[j] = "idle"
    /\ up' = TRUE
    /\ TryBegin(j, "work", "idle")
    /\ UNCHANGED <<data, overrun, cacheVars>>

-----------------------------------------------------------------------------

Boot == BootEarly \/ \E j \in Job : BootLate(j)

Ask == \/ PollStatus
       \/ \E j \in Job : Trigger(j) \/ Schedule(j)

JobStep(j) == \/ Claim(j) \/ StartThread(j) \/ StartFails(j)
              \/ Return(j) \/ Write(j) \/ Finish(j) \/ Raise(j) \/ Free(j)

BuildStep(k) == BuildRead(k) \/ BuildWrite(k) \/ BuildStore(k) \/ BuildDone(k)

PageStep(p) == LoadLook(p) \/ LoadRead(p) \/ LoadStore(p) \/ LoadMiss(p)

SyncNext == \/ Boot
            \/ Ask
            \/ Age
            \/ \E j \in Job : JobStep(j)
            \/ \E k \in Builder : BuildStep(k) \/ BuildFails(k)
            \/ \E p \in Page : PageStep(p)

SyncSpec == SyncInit /\ [][SyncNext]_syncVars

\* The server boots, and its threads run on once they are started (fetches
\* and writes end: sockets and the fetch phase have timeouts).  Nobody has to
\* ask for anything, nothing has to fail or to grow stale.
SyncFairSpec ==
    /\ SyncSpec
    /\ WF_syncVars(Boot)
    /\ \A j \in Job : WF_syncVars(JobStep(j))
    /\ \A k \in Builder : WF_syncVars(BuildStep(k))

-----------------------------------------------------------------------------
(* Properties.                                                             *)

\* At most one job is between its claim and its finally clause: two syncs
\* never write the bins of one directory at a time.
OneSync == \A i, j \in Job : Active(i) /\ Active(j) => i = j

\* As long as no living job has been taken for a stuck one, the status the
\* pages poll says "running" exactly while a job is active, and there is one
\* such job; an exception, a thread that does not start and an early return
\* all give the slot back.
SlotHonest == overrun \/ (OneSync /\ (slot # "free" <=> \E j \in Job : Active(j)))

\* The error of a job that has failed is still shown when it gives the slot
\* back: no refused request and no other claim has erased it.
FailureShown ==
    overrun \/ \A j \in Job : job[j] = "failing" => lastError # "none"

\* There is never more than one refresh worker: they share one temporary
\* file.  _cache_status says "running" exactly while one is alive; or for
\* ever, with no worker at all, after a thread that did not start.
OneBuilder ==
    /\ \A k, l \in Builder : builder[k] # "off" /\ builder[l] # "off" => k = l
    /\ IF unstarted
       THEN Refreshing /\ \A k \in Builder : builder[k] = "off"
       ELSE Refreshing <=> \E k \in Builder : builder[k] # "off"

\* A refresh that was asked for is not lost, however it coincides with the
\* build before it: until a summary of that version or a newer one is
\* published, a worker is going to read it, or has, or an error is shown.
\* One thing loses it, and every later one: a thread that did not start.
RefreshNotLost ==
    asked > summary =>
        \/ unstarted
        \/ cache \in {"again", "failed"}
        \/ \E k \in Builder : \/ builder[k] = "start"
                              \/ builder[k] = "reading" /\ seen[k] >= asked

\* latest.json is never replaced by the summary of older data.  The copy in
\* memory only ever becomes what is published, or nothing, but for the page
\* that read the file before a worker replaced it and stores it afterwards.
SummaryNeverOlder ==
    [][/\ summary' >= summary
       /\ memory' \in {memory, 0, summary'} \/ late']_<<summary, memory>>

\* Every refresh is carried out, or its failure is shown; unless the thread
\* of one has not started.
RefreshDone ==
    \A v \in 1..MaxData : asked = v ~> summary >= v \/ cache = "failed" \/ unstarted

\* No sync holds the slot for ever, whatever it runs into.
SlotFreed == []<>(slot = "free")
=============================================================================

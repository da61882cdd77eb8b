------------------------------ MODULE CacheLock ------------------------------
(***************************************************************************)
(* The reader-writer lock of the disk caches (CacheUtils of                *)
(* quant_master/data/cache.py), for one cache file: with Redis, where the  *)
(* readers count themselves under a short lock and the first one takes the *)
(* write lock for all of them; and without it (cache_use_redis_lock is     *)
(* FALSE by default), where one re-entrant lock of the process serves all  *)
(* files.  With Redis a lock is its name: the readers of an expression ask *)
(* for another one than its writers.  The library redis_lock and           *)
(* threading.RLock are modelled from how they are called.                  *)
(***************************************************************************)
EXTENDS Integers, FiniteSets

CONSTANTS
    Thread,    \* readers and writers: with Redis, in any process
    LockModes, \* modes in use, among "redis" and "local"
    MaxDepth,  \* bound on the times _local_wlock is taken over
    MaxLate    \* bound on the timeouts

\* Every writer uses the same id with Redis; each reader has one of its own.
LOCK_ID == "QM"
Free == "free"

ASSUME LockAssumption ==
    /\ LockModes \subseteq {"redis", "local"}
    /\ LOCK_ID \notin Thread /\ Free \notin Thread
    /\ MaxDepth \in Nat /\ MaxLate \in Nat

VARIABLES
    mode,    \* which of the two
    content,  \* what the file holds, "expression" or "dataset"
    at,      \* at[t]: where t is in reader_lock or writer_lock
    short,   \* owner of "-rlock", or of _local_reader_count_lock; Free
    wlock,   \* owner of the writers' "-wlock", or of _local_wlock; Free
    gate,    \* owner of the readers' "-wlock", where that is another one; Free
    depth,   \* times the owner of _local_wlock has taken it
    visitors, \* "-reader", or _local_reader_count
    late      \* auxiliary: how often somebody has gone on without the short lock

lockVars == <<mode, content, at, short, wlock, gate, depth, visitors, late>>

Waiting == {"enter", "first", "write"}

LockTypeOK ==
    /\ mode \in LockModes
    /\ content \in {"expression", "dataset"}
    /\ at \in [Thread -> Waiting \union
                 {"idle", "look", "count", "reading", "leave", "uncount", "writing", "rereading"}]
    /\ short \in Thread \union {Free}
    /\ wlock \in Thread \union {LOCK_ID, Free}
    /\ gate \in Thread \union {Free}
    /\ depth \in 0..MaxDepth
    /\ visitors \in Int
    /\ late \in 0..MaxLate

LockInit ==
    /\ mode \in LockModes
    /\ content \in {"expression", "dataset"}
    /\ at = [t \in Thread |-> "idle"]
    /\ short = Free /\ wlock = Free /\ gate = Free
    /\ depth = 0
    /\ visitors = 0
    /\ late = 0

Go(t, place) == at' = [at EXCEPT ![t] = place]

\* _expression reads under expression-<uri> and writes, as update does, under
\* <data_uri>:expression-<uri>; the names of a dataset are the same everywhere.
TwoNames == mode = "redis" /\ content = "expression"

ReaderCalls(t) ==
    /\ at[t] = "idle"
    /\ Go(t, "enter")
    /\ UNCHANGED <<mode, content, short, wlock, gate, depth, visitors, late>>

WriterCalls(t) ==
    /\ at[t] = "idle"
    /\ Go(t, "write")
    /\ UNCHANGED <<mode, content, short, wlock, gate, depth, visitors, late>>

\* The cache file has been read; the reader leaves.
ReaderDone(t) ==
    /\ at[t] = "reading"
    /\ Go(t, "leave")
    /\ UNCHANGED <<mode, content, short, wlock, gate, depth, visitors, late>>

\* What _dataset has just written it reads again, with no lock.
ReadAgain(t) ==
    /\ at[t] = "rereading"
    /\ Go(t, "idle")
    /\ UNCHANGED <<mode, content, short, wlock, gate, depth, visitors, late>>

\* Where a writer goes then; update and _dataset_uri do not read.
AfterWriting == IF content = "dataset" THEN {"idle", "rereading"} ELSE {"idle"}

\* The short lock, on the way in and on the way out.
Inside(t) == IF at[t] = "enter" THEN "look" ELSE "uncount"

TakeShort(t) ==
    /\ at[t] \in {"enter", "leave"}
    /\ short = Free
    /\ short' = t
    /\ Go(t, Inside(t))
    /\ UNCHANGED <<mode, content, wlock, gate, depth, visitors, late>>

\* acquire(timeout=60) of redis_lock returns FALSE, which nobody looks at.  Only
\* the first reader holds the lock that long, while a writer is at work.
ShortTimesOut(t) ==
    /\ mode = "redis"
    /\ at[t] \in {"enter", "leave"}
    /\ short # Free /\ at[short] = "first"
    /\ IF TwoNames THEN gate # Free ELSE wlock # Free
    /\ Go(t, Inside(t))
    /\ late < MaxLate
    /\ late' = late + 1
    /\ UNCHANGED <<mode, content, short, wlock, gate, depth, visitors>>

\* release of redis_lock raises when the lock is somebody else's.
LetShortGo(t) == short' = IF short = t THEN Free ELSE short

-----------------------------------------------------------------------------
(* With Redis.                                                             *)

\* Wrong variant: every reader takes itself for a later one.
RedisLookNever(t) ==
    /\ mode = "redis" /\ at[t] = "look"
    /\ Go(t, "count")
    /\ UNCHANGED <<mode, content, short, wlock, gate, depth, visitors, late>>

RedisLook(t) ==
    /\ mode = "redis" /\ at[t] = "look"
    /\ Go(t, IF visitors = 0 THEN "first" ELSE "count")
    /\ UNCHANGED <<mode, content, short, wlock, gate, depth, visitors, late>>

RedisFirst(t) ==
    /\ mode = "redis" /\ at[t] = "first"
    /\ IF TwoNames
       THEN gate = Free /\ gate' = t /\ UNCHANGED wlock
       ELSE wlock = Free /\ wlock' = t /\ UNCHANGED gate
    /\ Go(t, "count")
    /\ UNCHANGED <<mode, content, short, depth, visitors, late>>

\* A reader without the short lock raises when it lets it go, before it reads:
\* it stays counted.
RedisCount(t) ==
    /\ mode = "redis" /\ at[t] = "count"
    /\ visitors' = visitors + 1
    /\ LetShortGo(t)
    /\ Go(t, IF short = t THEN "reading" ELSE "idle")
    /\ UNCHANGED <<mode, content, wlock, gate, depth, late>>

\* reset() frees the write lock, whoever has it.
RedisUncount(t) ==
    /\ mode = "redis" /\ at[t] = "uncount"
    /\ visitors' = visitors - 1
    /\ wlock' = IF visitors = 1 /\ ~TwoNames THEN Free ELSE wlock
    /\ gate' = IF visitors = 1 THEN Free ELSE gate
    /\ LetShortGo(t)
    /\ Go(t, "idle")
    /\ UNCHANGED <<mode, content, depth, late>>

\* Two writers have the same id: the second one is refused (AlreadyAcquired)
\* and raises; behind a reader it waits.
RedisWrite(t) ==
    /\ mode = "redis" /\ at[t] = "write"
    /\ \/ wlock = Free /\ wlock' = LOCK_ID /\ Go(t, "writing")
       \/ wlock = LOCK_ID /\ UNCHANGED wlock /\ Go(t, "idle")
    /\ UNCHANGED <<mode, content, short, gate, depth, visitors, late>>

RedisWritten(t) ==
    /\ mode = "redis" /\ at[t] = "writing"
    /\ wlock' = IF wlock = LOCK_ID THEN Free ELSE wlock
    /\ \E place \in AfterWriting : Go(t, place)
    /\ UNCHANGED <<mode, content, short, gate, depth, visitors, late>>

-----------------------------------------------------------------------------
(* Without it.                                                             *)

\* threading.RLock: its owner takes it again ...
Take(t) ==
    /\ wlock \in {Free, t} /\ depth < MaxDepth
    /\ wlock' = t
    /\ depth' = depth + 1

\* ... and another thread's release raises and changes nothing.
Give(t) ==
    IF wlock = t
    THEN depth' = depth - 1 /\ wlock' = IF depth = 1 THEN Free ELSE t
    ELSE UNCHANGED <<wlock, depth>>

LocalEnter(t) ==
    /\ mode = "local" /\ at[t] = "look"
    /\ visitors' = visitors + 1
    /\ IF visitors = 0
       THEN Go(t, "first") /\ UNCHANGED short
       ELSE Go(t, "reading") /\ LetShortGo(t)
    /\ UNCHANGED <<mode, content, wlock, gate, depth, late>>

\* It waits for the writer with the short lock in its hand.
LocalFirst(t) ==
    /\ mode = "local" /\ at[t] = "first"
    /\ Take(t)
    /\ LetShortGo(t)
    /\ Go(t, "reading")
    /\ UNCHANGED <<mode, content, gate, visitors, late>>

LocalLeave(t) ==
    /\ mode = "local" /\ at[t] = "uncount"
    /\ visitors' = visitors - 1
    /\ IF visitors = 1 THEN Give(t) ELSE UNCHANGED <<wlock, depth>>
    /\ LetShortGo(t)
    /\ Go(t, "idle")
    /\ UNCHANGED <<mode, content, late, gate>>

LocalWrite(t) ==
    /\ mode = "local" /\ at[t] = "write"
    /\ Take(t)
    /\ Go(t, "writing")
    /\ UNCHANGED <<mode, content, short, gate, visitors, late>>

LocalWritten(t) ==
    /\ mode = "local" /\ at[t] = "writing"
    /\ Give(t)
    /\ \E place \in AfterWriting : Go(t, place)
    /\ UNCHANGED <<mode, content, short, gate, visitors, late>>

LockNext ==
    \E t \in Thread :
        \/ ReaderCalls(t) \/ WriterCalls(t) \/ ReaderDone(t) \/ ReadAgain(t)
        \/ TakeShort(t) \/ ShortTimesOut(t)
        \/ RedisLook(t) \/ RedisFirst(t) \/ RedisCount(t) \/ RedisUncount(t)
        \/ RedisWrite(t) \/ RedisWritten(t)
        \/ LocalEnter(t) \/ LocalFirst(t) \/ LocalLeave(t)
        \/ LocalWrite(t) \/ LocalWritten(t)

LockSpec == LockInit /\ [][LockNext]_lockVars

-----------------------------------------------------------------------------
\* Properties.

\* With Redis, two writers are never at one cache file, and nobody reads a dataset
\* under the lock while it is written, although readers take and free the write lock
\* for one another, as long as no reader has waited for the short lock in vain.  The
\* readers of an expression, and _dataset when it reads what it wrote, are not kept
\* apart from a writer.
WriterAloneInTime ==
    mode = "redis" /\ late = 0 =>
        \A t, u \in Thread :
            t # u /\ at[t] = "writing" =>
                at[u] # "writing" /\ (content = "dataset" => at[u] # "reading")
=============================================================================

----------------------------- MODULE CacheProofs -----------------------------
(*****************************************************************************)
(* What the caches promise, for any number of threads, of instruments and of*)
(* files: the lock keeps a reader and a writer apart, and what a cache gives*)
(* is what the files it was made from hold.                                 *)
(*****************************************************************************)
EXTENDS CacheLock, Caches, SequenceTheorems, SetLemmas, TLAPS

-----------------------------------------------------------------------------
(* CacheLock: with Redis, readers and writers are apart.                    *)

\* The readers "-reader" counts.
Counted == {t \in Thread : at[t] \in {"reading", "leave", "uncount"}}

\* Where a reader has the short lock.
UnderShort == {"look", "first", "count", "uncount"}

Places == Waiting \union {"idle", "look", "count", "reading", "leave", "uncount", "writing", "rereading"}

\* What the steps need to know of the types; the counters are in the invariant.
Shape == at \in [Thread -> Places] /\ late \in Nat

ShortHeld == \A t \in Thread : at[t] \in UnderShort => short = t

CountTrue ==
    /\ IsFiniteSet(Counted) /\ visitors = Cardinality(Counted)
    /\ \A t \in Thread : at[t] = "first" => visitors = 0

\* The write lock of a dataset belongs to the readers from the moment the first one has
\* it to the moment the last one is gone.
ReadersHold ==
    ~TwoNames /\ (visitors # 0 \/ \E t \in Thread : at[t] = "count") => wlock \in Thread

WriterHolds ==
    /\ \A t \in Thread : at[t] = "writing" => wlock = LOCK_ID
    /\ \A t, u \in Thread : at[t] = "writing" /\ at[u] = "writing" => t = u

WritersApart == ShortHeld /\ CountTrue /\ ReadersHold /\ WriterHolds

LockInv == Shape /\ (mode = "redis" /\ late = 0 => WritersApart)

-----------------------------------------------------------------------------
(* How a move changes the set of counted readers.                          *)

\* A move between two places of which neither or both are counted.
LEMMA CountedSame ==
    ASSUME at \in [Thread -> Places], NEW t \in Thread, NEW place \in Places, Go(t, place),
           at[t] \in {"reading", "leave", "uncount"} <=> place \in {"reading", "leave", "uncount"}
    PROVE  Counted' = Counted
<1>1. \A u \in Thread : at'[u] = IF u = t THEN place ELSE at[u]
  BY DEF Go
<1> QED BY <1>1 DEF Counted

LEMMA CountedMore ==
    ASSUME at \in [Thread -> Places], NEW t \in Thread, Go(t, "reading"),
           at[t] \notin {"reading", "leave", "uncount"}
    PROVE  Counted' = Counted \union {t} /\ t \notin Counted
<1>1. \A u \in Thread : at'[u] = IF u = t THEN "reading" ELSE at[u]
  BY DEF Go
<1> QED BY <1>1 DEF Counted

LEMMA CountedLess ==
    ASSUME at \in [Thread -> Places], NEW t \in Thread, Go(t, "idle"), at[t] = "uncount"
    PROVE  Counted' = Counted \ {t} /\ t \in Counted
<1>1. \A u \in Thread : at'[u] = IF u = t THEN "idle" ELSE at[u]
  BY DEF Go
<1> QED BY <1>1 DEF Counted

\* Everybody else stays where he is.
LEMMA Moved ==
    ASSUME at \in [Thread -> Places], NEW t \in Thread, NEW place \in Places, Go(t, place)
    PROVE  /\ at' \in [Thread -> Places]
           /\ \A u \in Thread : at'[u] = IF u = t THEN place ELSE at[u]
BY DEF Go

-----------------------------------------------------------------------------
(* The steps.                                                              *)

LEMMA LockInvInit == LockInit => LockInv
<1> SUFFICES ASSUME LockInit PROVE LockInv
  OBVIOUS
<1>1. Shape
  BY DEF LockInit, Shape, Places, Waiting
<1>2. Counted = {}
  BY DEF LockInit, Counted
<1>3. CountTrue
  BY <1>2, FS_EmptySet DEF LockInit, CountTrue
<1> QED BY <1>1, <1>3 DEF LockInit, LockInv, WritersApart, ShortHeld, ReadersHold, WriterHolds, UnderShort

\* The steps that leave the count and the write lock alone.
LEMMA CacheQuietStep ==
    ASSUME Shape, WritersApart, NEW t \in Thread, NEW place \in Places, Go(t, place),
           at[t] \in {"reading", "leave", "uncount"} <=> place \in {"reading", "leave", "uncount"},
           place \notin {"first", "count", "writing"},
           place \in UnderShort => short' = t,
           \A u \in Thread \ {t} : at[u] \in UnderShort => short' = u,
           UNCHANGED <<mode, content, wlock, visitors>>
    PROVE  WritersApart'
<1>1. \A u \in Thread : at'[u] = IF u = t THEN place ELSE at[u]
  BY Moved DEF Shape
<1>2. Counted' = Counted
  BY CountedSame DEF Shape
<1>3. ShortHeld'
  BY <1>1 DEF ShortHeld
<1>4. CountTrue'
  BY <1>1, <1>2 DEF CountTrue, WritersApart
<1>5. ReadersHold'
  BY <1>1 DEF ReadersHold, TwoNames, WritersApart
<1>6. WriterHolds'
  BY <1>1 DEF WriterHolds, WritersApart
<1> QED BY <1>3, <1>4, <1>5, <1>6 DEF WritersApart

LEMMA LookStep ==
    ASSUME Shape, WritersApart, NEW t \in Thread, RedisLook(t)
    PROVE  WritersApart'
<1> DEFINE place == IF visitors = 0 THEN "first" ELSE "count"
<1>1. \A u \in Thread : at'[u] = IF u = t THEN place ELSE at[u]
  BY Moved DEF Shape, RedisLook, Places, Waiting
<1>2. Counted' = Counted
  BY CountedSame DEF Shape, RedisLook, Places, Waiting
<1>3. at[t] = "look" /\ short = t
  BY DEF RedisLook, WritersApart, ShortHeld, UnderShort
<1>4. UNCHANGED <<mode, content, short, wlock, visitors>>
  BY DEF RedisLook
<1>5. ShortHeld'
  BY <1>1, <1>3, <1>4 DEF ShortHeld, WritersApart
<1>6. CountTrue'
  BY <1>1, <1>2, <1>4 DEF CountTrue, WritersApart
<1>7. ReadersHold'
  BY <1>1, <1>4 DEF ReadersHold, TwoNames, WritersApart
<1>8. WriterHolds'
  BY <1>1, <1>4 DEF WriterHolds, WritersApart
<1> QED BY <1>5, <1>6, <1>7, <1>8 DEF WritersApart

LEMMA FirstStep ==
    ASSUME Shape, WritersApart, NEW t \in Thread, RedisFirst(t)
    PROVE  WritersApart'
<1>1. \A u \in Thread : at'[u] = IF u = t THEN "count" ELSE at[u]
  BY Moved DEF Shape, RedisFirst, Places
<1>2. Counted' = Counted
  BY CountedSame DEF Shape, RedisFirst, Places
<1>3. /\ at[t] = "first" /\ UNCHANGED <<mode, content, short, visitors>>
      /\ TwoNames => UNCHANGED wlock
      /\ ~TwoNames => wlock = Free /\ wlock' = t
  BY DEF RedisFirst
<1>4. short = t
  BY <1>3 DEF WritersApart, ShortHeld, UnderShort
<1>5. ShortHeld'
  BY <1>1, <1>3, <1>4 DEF ShortHeld, WritersApart
<1>6. CountTrue'
  BY <1>1, <1>2, <1>3 DEF CountTrue, WritersApart
<1>7. ReadersHold'
  BY <1>3 DEF ReadersHold, TwoNames
<1>8. ~TwoNames => \A u \in Thread : at[u] # "writing"
  BY <1>3 DEF WriterHolds, WritersApart, LOCK_ID, Free
<1>9. WriterHolds'
  BY <1>1, <1>3, <1>8 DEF WriterHolds, WritersApart
<1> QED BY <1>5, <1>6, <1>7, <1>9 DEF WritersApart

LEMMA CountStep ==
    ASSUME Shape, WritersApart, NEW t \in Thread, RedisCount(t)
    PROVE  WritersApart'
<1>1. at[t] = "count" /\ short = t
  BY DEF RedisCount, WritersApart, ShortHeld, UnderShort
<1>2. /\ Go(t, "reading") /\ short' = Free /\ visitors' = visitors + 1 /\ wlock' = wlock
      /\ UNCHANGED <<mode, content>>
  BY <1>1 DEF RedisCount, LetShortGo
<1>3. \A u \in Thread : at'[u] = IF u = t THEN "reading" ELSE at[u]
  BY <1>2, Moved DEF Shape, Places
<1>4. Counted' = Counted \union {t} /\ t \notin Counted
  BY <1>1, <1>2, CountedMore DEF Shape
<1>5. \A u \in Thread \ {t} : at[u] \notin UnderShort
  BY <1>1 DEF WritersApart, ShortHeld
<1>6. ShortHeld'
  BY <1>3, <1>5 DEF ShortHeld, UnderShort
<1>7. CountTrue'
  <2>1. IsFiniteSet(Counted') /\ Cardinality(Counted') = Cardinality(Counted) + 1
    BY <1>4, FS_AddElement DEF CountTrue, WritersApart
  <2>2. \A u \in Thread : at'[u] # "first"
    BY <1>3, <1>5 DEF UnderShort
  <2> QED BY <1>2, <2>1, <2>2 DEF CountTrue, WritersApart
<1>8. ReadersHold'
  BY <1>1, <1>2 DEF ReadersHold, TwoNames, WritersApart
<1>9. WriterHolds'
  BY <1>2, <1>3 DEF WriterHolds, WritersApart
<1> QED BY <1>6, <1>7, <1>8, <1>9 DEF WritersApart

LEMMA UncountStep ==
    ASSUME Shape, WritersApart, NEW t \in Thread, RedisUncount(t)
    PROVE  WritersApart'
<1>1. at[t] = "uncount" /\ short = t
  BY DEF RedisUncount, WritersApart, ShortHeld, UnderShort
<1>2. /\ Go(t, "idle") /\ short' = Free /\ visitors' = visitors - 1
      /\ wlock' = IF visitors = 1 /\ ~TwoNames THEN Free ELSE wlock
      /\ UNCHANGED <<mode, content>>
  BY <1>1 DEF RedisUncount, LetShortGo
<1>3. \A u \in Thread : at'[u] = IF u = t THEN "idle" ELSE at[u]
  BY <1>2, Moved DEF Shape, Places
<1>4. Counted' = Counted \ {t} /\ t \in Counted
  BY <1>1, <1>2, CountedLess DEF Shape
<1>5. \A u \in Thread \ {t} : at[u] \notin UnderShort
  BY <1>1 DEF WritersApart, ShortHeld
<1>6. ShortHeld'
  BY <1>3, <1>5 DEF ShortHeld, UnderShort
<1>7. visitors \in Nat /\ visitors # 0
  BY <1>4, FS_CardinalityType, FS_EmptySet DEF CountTrue, WritersApart
<1>8. CountTrue'
  <2>1. IsFiniteSet(Counted') /\ Cardinality(Counted') = Cardinality(Counted) - 1
    BY <1>4, FS_RemoveElement DEF CountTrue, WritersApart
  <2>2. \A u \in Thread : at'[u] # "first"
    BY <1>3, <1>5 DEF UnderShort
  <2> QED BY <1>2, <2>1, <2>2 DEF CountTrue, WritersApart
<1>9. ReadersHold'
  <2>1. \A u \in Thread : at'[u] # "count"
    BY <1>3, <1>5 DEF UnderShort
  <2>2. visitors' # 0 => visitors # 1
    BY <1>2
  <2> QED BY <1>2, <1>7, <2>1, <2>2 DEF ReadersHold, TwoNames, WritersApart
<1>10. ~TwoNames => \A u \in Thread : at[u] # "writing"
  BY <1>7, LockAssumption DEF ReadersHold, WriterHolds, WritersApart, LockAssumption
<1>11. WriterHolds'
  BY <1>2, <1>3, <1>10 DEF WriterHolds, WritersApart
<1> QED BY <1>6, <1>8, <1>9, <1>11 DEF WritersApart

LEMMA WriteStep ==
    ASSUME Shape, WritersApart, NEW t \in Thread, RedisWrite(t)
    PROVE  WritersApart'
<1>1. at[t] = "write" /\ UNCHANGED <<mode, content, short, visitors>>
  BY DEF RedisWrite
<1>2. CASE wlock = Free /\ wlock' = LOCK_ID /\ Go(t, "writing")
  <2>1. \A u \in Thread : at'[u] = IF u = t THEN "writing" ELSE at[u]
    BY <1>2, Moved DEF Shape, Places
  <2>2. Counted' = Counted
    BY <1>1, <1>2, CountedSame DEF Shape, Places
  <2>3. ShortHeld'
    BY <1>1, <2>1 DEF ShortHeld, UnderShort, WritersApart
  <2>4. CountTrue'
    BY <1>1, <2>1, <2>2 DEF CountTrue, WritersApart
  <2>5. ~TwoNames => visitors = 0 /\ \A u \in Thread : at[u] # "count"
    BY <1>2, LockAssumption DEF ReadersHold, WritersApart, LockAssumption
  <2>6. ReadersHold'
    BY <1>1, <2>1, <2>5 DEF ReadersHold, TwoNames
  <2>7. \A u \in Thread : at[u] # "writing"
    BY <1>2 DEF WriterHolds, WritersApart, LOCK_ID, Free
  <2>8. WriterHolds'
    BY <1>2, <2>1, <2>7 DEF WriterHolds
  <2> QED BY <2>3, <2>4, <2>6, <2>8 DEF WritersApart
<1>3. CASE wlock = LOCK_ID /\ UNCHANGED wlock /\ Go(t, "idle")
  BY <1>1, <1>3, CacheQuietStep DEF Places, UnderShort, WritersApart, ShortHeld
<1> QED BY <1>2, <1>3 DEF RedisWrite

LEMMA WrittenStep ==
    ASSUME Shape, WritersApart, NEW t \in Thread, RedisWritten(t)
    PROVE  WritersApart'
<1>1. /\ at[t] = "writing" /\ UNCHANGED <<mode, content, short, visitors>>
      /\ Go(t, "idle") \/ Go(t, "rereading")
  BY DEF RedisWritten, AfterWriting
<1>2. wlock = LOCK_ID
  BY <1>1 DEF WriterHolds, WritersApart
<1>3. PICK place \in {"idle", "rereading"} :
          Go(t, place) /\ \A u \in Thread : at'[u] = IF u = t THEN place ELSE at[u]
  BY <1>1, Moved DEF Shape, Places
<1>4. Counted' = Counted
  BY <1>1, CountedSame DEF Shape, Places
<1>5. ShortHeld'
  BY <1>1, <1>3 DEF ShortHeld, UnderShort, WritersApart
<1>6. CountTrue'
  BY <1>1, <1>3, <1>4 DEF CountTrue, WritersApart
<1>7. ~TwoNames => visitors = 0 /\ \A u \in Thread : at[u] # "count"
  BY <1>2, LockAssumption DEF ReadersHold, WritersApart, LockAssumption
<1>8. ReadersHold'
  BY <1>1, <1>3, <1>7 DEF ReadersHold, TwoNames
<1>9. \A u \in Thread \ {t} : at[u] # "writing"
  BY <1>1 DEF WriterHolds, WritersApart
<1>10. WriterHolds'
  BY <1>3, <1>9 DEF WriterHolds
<1> QED BY <1>5, <1>6, <1>8, <1>10 DEF WritersApart

LEMMA LockInvStep == LockInv /\ [LockNext]_lockVars => LockInv'
<1> SUFFICES ASSUME LockInv, [LockNext]_lockVars PROVE LockInv'
  OBVIOUS
<1>1. CASE UNCHANGED lockVars
  BY <1>1 DEF lockVars, LockInv, Shape, WritersApart, ShortHeld, CountTrue, ReadersHold, TwoNames, WriterHolds, Counted
<1>2. ASSUME NEW t \in Thread,
             ReaderCalls(t) \/ WriterCalls(t) \/ ReaderDone(t) \/ ReadAgain(t) \/ TakeShort(t)
      PROVE  LockInv'
  <2>1. Shape' /\ UNCHANGED <<mode, late>>
    BY <1>2 DEF LockInv, Shape, ReaderCalls, WriterCalls, ReaderDone, ReadAgain, TakeShort, Go, Inside,
                Places, Waiting
  <2>2. ASSUME WritersApart PROVE WritersApart'
    <3>1. CASE ReaderCalls(t)
      BY <2>2, <3>1, CacheQuietStep DEF ReaderCalls, LockInv, Places, Waiting, UnderShort, WritersApart, ShortHeld
    <3>2. CASE WriterCalls(t)
      BY <2>2, <3>2, CacheQuietStep DEF WriterCalls, LockInv, Places, Waiting, UnderShort, WritersApart, ShortHeld
    <3>3. CASE ReaderDone(t)
      BY <2>2, <3>3, CacheQuietStep DEF ReaderDone, LockInv, Places, UnderShort, WritersApart, ShortHeld
    <3>5. CASE ReadAgain(t)
      BY <2>2, <3>5, CacheQuietStep DEF ReadAgain, LockInv, Places, UnderShort, WritersApart, ShortHeld
    <3>4. CASE TakeShort(t)
      <4>1. short = Free /\ short' = t /\ UNCHANGED <<mode, content, wlock, visitors>> /\ Go(t, Inside(t))
        BY <3>4 DEF TakeShort
      <4>2. \A u \in Thread : at[u] \notin UnderShort
        BY <2>2, <4>1, LockAssumption DEF WritersApart, ShortHeld, LockAssumption
      <4>3. CASE at[t] = "enter"
        BY <2>2, <4>1, <4>2, <4>3, CacheQuietStep DEF Inside, LockInv, Places
      <4>4. CASE at[t] = "leave"
        BY <2>2, <4>1, <4>2, <4>4, CacheQuietStep DEF Inside, LockInv, Places
      <4> QED BY <3>4, <4>3, <4>4 DEF TakeShort
    <3> QED BY <1>2, <3>1, <3>2, <3>3, <3>4, <3>5
  <2> QED BY <2>1, <2>2 DEF LockInv
<1>3. ASSUME NEW t \in Thread, ShortTimesOut(t) PROVE LockInv'
  <2>1. Shape' /\ late' # 0
    BY <1>3 DEF LockInv, Shape, ShortTimesOut, Go, Inside, Places
  <2> QED BY <2>1 DEF LockInv
<1>4. ASSUME NEW t \in Thread,
             \/ RedisLook(t) \/ RedisFirst(t) \/ RedisCount(t)
             \/ RedisUncount(t) \/ RedisWrite(t) \/ RedisWritten(t)
      PROVE  LockInv'
  <2>1. Shape' /\ UNCHANGED <<mode, late>>
    BY <1>4 DEF LockInv, Shape, RedisLook, RedisFirst, RedisCount, RedisUncount, RedisWrite,
                RedisWritten, AfterWriting, Go, Places, Waiting
  <2>2. ASSUME WritersApart PROVE WritersApart'
    BY <1>4, <2>2, LookStep, FirstStep, CountStep, UncountStep, WriteStep, WrittenStep DEF LockInv
  <2> QED BY <2>1, <2>2 DEF LockInv
<1>5. ASSUME NEW t \in Thread,
             \/ LocalEnter(t) \/ LocalFirst(t) \/ LocalLeave(t)
             \/ LocalWrite(t) \/ LocalWritten(t)
      PROVE  LockInv'
  <2>1. mode' # "redis" /\ late' = late
    BY <1>5 DEF LocalEnter, LocalFirst, LocalLeave, LocalWrite, LocalWritten
  <2>2. \/ Go(t, "first") \/ Go(t, "reading") \/ Go(t, "idle") \/ Go(t, "writing")
        \/ Go(t, "rereading")
    BY <1>5 DEF LocalEnter, LocalFirst, LocalLeave, LocalWrite, LocalWritten, AfterWriting
  <2>3. Shape'
    BY <2>1, <2>2, Moved DEF LockInv, Shape, Places, Waiting
  <2> QED BY <2>1, <2>3 DEF LockInv
<1> QED BY <1>1, <1>2, <1>3, <1>4, <1>5 DEF LockNext

\* For any number of readers and writers: with Redis two writers are never at one cache
\* file, nor a reader under the lock and a writer at a dataset's, as long as no reader has
\* gone on without the short lock.
THEOREM WritersAlone == LockSpec => []WriterAloneInTime
<1>1. LockInv => WriterAloneInTime
  <2> SUFFICES ASSUME mode = "redis", Shape, WritersApart,
                      NEW t \in Thread, NEW u \in Thread, t # u, at[t] = "writing"
               PROVE  at[u] # "writing" /\ (content = "dataset" => at[u] # "reading")
    BY DEF LockInv, WriterAloneInTime
  <2>1. at[u] # "writing"
    BY DEF WritersApart, WriterHolds
  <2>2. ASSUME content = "dataset" PROVE at[u] # "reading"
    <3>1. wlock = LOCK_ID /\ visitors = 0
      BY <2>2, LockAssumption DEF WritersApart, WriterHolds, ReadersHold, TwoNames, LockAssumption
    <3>2. Counted = {}
      BY <3>1, FS_EmptySet DEF WritersApart, CountTrue
    <3> QED BY <3>2 DEF Counted
  <2> QED BY <2>1, <2>2
<1> QED BY <1>1, LockInvInit, LockInvStep, PTL DEF LockSpec

-----------------------------------------------------------------------------
(* UniverseCache: an answer is as new as the clock allows.                  *)

Items == [key : Pool, value : Nat]

UniverseShape ==
    /\ onFile \in Nat
    /\ od \in Seq(Items)
    /\ ask \in [Asker -> [at : Steps, market : Pool, value : Nat]]
    /\ least \in [Asker -> Nat]

Asking == {"look", "get", "load", "store"}

\* What a thread may still be given: an item of its market, or a list that another thread
\* is about to store.
NothingOlder ==
    \A t \in Asker :
        /\ least[t] <= onFile
        /\ ask[t].at \in Asking =>
              /\ \A i \in 1..Len(od) : od[i].key = ask[t].market => least[t] <= od[i].value
              /\ \A u \in Asker : ask[u].at = "store" /\ ask[u].market = ask[t].market
                                    => least[t] <= ask[u].value
        /\ ask[t].at = "answered" => least[t] <= ask[t].value

UniverseInv == UniverseShape /\ SizeTrue /\ NothingOlder

-----------------------------------------------------------------------------
(* The dictionary.                                                         *)

\* Where a key is, and the items without its own.
LEMMA OthersAre ==
    ASSUME UniverseShape, SizeTrue, NEW m \in Pool
    PROVE  /\ m \in Keys => PlaceOf(m) \in 1..Len(od) /\ od[PlaceOf(m)].key = m
           /\ Others(m) \in Seq(Items)
           /\ Len(Others(m)) = IF m \in Keys THEN Len(od) - 1 ELSE Len(od)
           /\ \A i \in 1..Len(Others(m)) :
                 \E k \in 1..Len(od) : Others(m)[i] = od[k] /\ od[k].key # m
           /\ \A i, j \in 1..Len(Others(m)) : Others(m)[i].key = Others(m)[j].key => i = j
<1>1. od \in Seq(Items) /\ DOMAIN od = 1..Len(od) /\ Len(od) \in Nat
  BY LenProperties DEF UniverseShape
<1>2. CASE m \in Keys
  <2> DEFINE p == PlaceOf(m)
             a == SubSeq(od, 1, p - 1)
             b == SubSeq(od, p + 1, Len(od))
             was(i) == IF i < p THEN i ELSE i + 1
  <2>1. \E i \in DOMAIN od : od[i].key = m
    BY <1>2 DEF Keys
  <2>2. p \in 1..Len(od) /\ od[p].key = m
    BY <1>1, <2>1 DEF PlaceOf
  <2> HIDE DEF p
  <2>3. \A i \in 1..Len(od) : od[i] \in Items
    BY <1>1, ElementOfSeq
  <2>4. /\ a \in Seq(Items) /\ Len(a) = p - 1
        /\ \A i \in 1..(p - 1) : a[i] = od[i]
    <3>1. p - 1 \in Int /\ \A i \in 1..(p - 1) : od[i] \in Items
      BY <1>1, <2>2, <2>3
    <3>2. /\ a \in Seq(Items) /\ Len(a) = IF 1 <= p - 1 THEN (p - 1) - 1 + 1 ELSE 0
          /\ \A i \in 1..((p - 1) - 1 + 1) : a[i] = od[1 + i - 1]
      BY <3>1, SubSeqProperties
    <3> HIDE DEF a
    <3> QED BY <1>1, <2>2, <3>2
  <2>5. /\ b \in Seq(Items) /\ Len(b) = Len(od) - p
        /\ \A i \in 1..(Len(od) - p) : b[i] = od[p + i]
    <3>1. p + 1 \in Int /\ Len(od) \in Int /\ \A i \in (p + 1)..Len(od) : od[i] \in Items
      BY <1>1, <2>2, <2>3
    <3>2. /\ b \in Seq(Items) /\ Len(b) = IF p + 1 <= Len(od) THEN Len(od) - (p + 1) + 1 ELSE 0
          /\ \A i \in 1..(Len(od) - (p + 1) + 1) : b[i] = od[(p + 1) + i - 1]
      BY <3>1, SubSeqProperties
    <3> HIDE DEF b
    <3>3. Len(od) - (p + 1) + 1 = Len(od) - p /\ \A i \in 1..(Len(od) - p) : (p + 1) + i - 1 = p + i
      BY <1>1, <2>2
    <3>4. Len(b) = Len(od) - p
      <4>1. CASE p + 1 <= Len(od)
        <5>1. Len(b) = Len(od) - (p + 1) + 1
          BY <3>2, <4>1
        <5> QED BY <3>3, <5>1
      <4>2. CASE ~(p + 1 <= Len(od))
        <5>1. Len(b) = 0
          BY <3>2, <4>2
        <5>2. Len(od) - p = 0
          <6>1. Len(od) \in Int /\ p \in Int /\ p <= Len(od) /\ ~(p + 1 <= Len(od))
            BY <1>1, <2>2, <4>2
          <6> HIDE DEF a, b
          <6> QED BY <6>1
        <5> QED BY <5>1, <5>2
      <4> QED BY <4>1, <4>2
    <3>5. \A i \in 1..(Len(od) - p) : b[i] = od[p + i]
      BY <3>2, <3>3
    <3> QED BY <3>2, <3>4, <3>5
  <2>6. Others(m) = a \o b
    BY <1>2 DEF Others, RemoveAt, p
  <2> HIDE DEF a, b
  <2>7. /\ Others(m) \in Seq(Items) /\ Len(Others(m)) = Len(od) - 1
        /\ \A i \in 1..(Len(od) - 1) : Others(m)[i] = od[was(i)]
    <3>1. /\ a \o b \in Seq(Items) /\ Len(a \o b) = Len(od) - 1
          /\ \A i \in 1..(Len(od) - 1) : (a \o b)[i] = IF i <= p - 1 THEN a[i] ELSE b[i - (p - 1)]
      <4>1. Len(a) + Len(b) = Len(od) - 1
        BY <1>1, <2>2, <2>4, <2>5
      <4> QED BY <2>4, <2>5, <4>1, ConcatProperties
    <3>2. ASSUME NEW i \in 1..(Len(od) - 1) PROVE (a \o b)[i] = od[was(i)]
      <4>1. CASE i < p
        BY <1>1, <2>2, <2>4, <3>1, <4>1
      <4>2. CASE ~(i < p)
        <5>1. i - (p - 1) \in 1..(Len(od) - p) /\ p + (i - (p - 1)) = i + 1
          BY <1>1, <2>2, <4>2
        <5> QED BY <1>1, <2>2, <2>5, <3>1, <4>2, <5>1
      <4> QED BY <4>1, <4>2
    <3> QED BY <2>6, <3>1, <3>2
  <2>8. \A i \in 1..(Len(od) - 1) : was(i) \in 1..Len(od) /\ was(i) # p
    BY <1>1, <2>2
  <2>9. \A i, j \in 1..(Len(od) - 1) : was(i) = was(j) => i = j
    BY <1>1, <2>2
  <2> HIDE DEF was
  <2>10. \A i \in 1..Len(Others(m)) : \E k \in 1..Len(od) : Others(m)[i] = od[k] /\ od[k].key # m
    <3> TAKE i \in 1..Len(Others(m))
    <3>1. i \in 1..(Len(od) - 1) /\ Others(m)[i] = od[was(i)]
      BY <2>7
    <3>2. was(i) \in 1..Len(od) /\ was(i) # p
      BY <2>8, <3>1
    <3>3. od[was(i)].key # m
      BY <1>1, <2>2, <3>2 DEF SizeTrue
    <3> QED BY <3>1, <3>2, <3>3
  <2>11. \A i, j \in 1..Len(Others(m)) : Others(m)[i].key = Others(m)[j].key => i = j
    BY <1>1, <2>7, <2>8, <2>9 DEF SizeTrue
  <2> QED BY <1>2, <2>2, <2>7, <2>10, <2>11 DEF p
<1>3. CASE m \notin Keys
  <2>1. Others(m) = od
    BY <1>3 DEF Others
  <2>2. \A k \in 1..Len(od) : od[k].key # m
    BY <1>1, <1>3 DEF Keys
  <2> QED BY <1>1, <1>3, <2>1, <2>2 DEF SizeTrue
<1> QED BY <1>2, <1>3

\* The dictionary with an item of the key at its end.
LEMMA LatestItem ==
    ASSUME UniverseShape, SizeTrue, NEW e \in Items, NEW q, q = Append(Others(e.key), e)
    PROVE  /\ q \in Seq(Items)
           /\ Len(q) = IF e.key \in Keys THEN Len(od) ELSE Len(od) + 1
           /\ \A i \in 1..Len(q) : q[i] = e \/ \E k \in 1..Len(od) : q[i] = od[k]
           /\ \A i, j \in 1..Len(q) : q[i].key = q[j].key => i = j
<1> DEFINE o == Others(e.key)
<1>1. e.key \in Pool /\ Len(od) \in Nat
  BY LenProperties DEF Items, UniverseShape
<1>2. /\ o \in Seq(Items) /\ Len(o) \in Nat
      /\ Len(o) = IF e.key \in Keys THEN Len(od) - 1 ELSE Len(od)
      /\ \A i \in 1..Len(o) : \E k \in 1..Len(od) : o[i] = od[k] /\ od[k].key # e.key
      /\ \A i, j \in 1..Len(o) : o[i].key = o[j].key => i = j
  BY <1>1, OthersAre, LenProperties
<1> HIDE DEF o
<1>3. /\ q \in Seq(Items) /\ Len(q) = Len(o) + 1
      /\ \A i \in 1..Len(o) : q[i] = o[i]
      /\ q[Len(o) + 1] = e
  BY <1>2, AppendProperties DEF o
<1>4. \A i \in 1..Len(q) : i \in 1..Len(o) \/ i = Len(o) + 1
  BY <1>2, <1>3
<1>5. \A i \in 1..Len(q) : q[i] = e \/ \E k \in 1..Len(od) : q[i] = od[k]
  BY <1>2, <1>3, <1>4
<1>6. \A i, j \in 1..Len(q) : q[i].key = q[j].key => i = j
  <2> SUFFICES ASSUME NEW i \in 1..Len(q), NEW j \in 1..Len(q), q[i].key = q[j].key PROVE i = j
    OBVIOUS
  <2>1. ASSUME NEW k \in 1..Len(o) PROVE q[k].key # e.key
    <3>1. o[k].key # e.key
      BY <1>2
    <3> QED BY <1>3, <3>1
  <2>2. CASE i \in 1..Len(o) /\ j \in 1..Len(o)
    <3>1. o[i].key = o[j].key
      BY <1>3, <2>2
    <3> QED BY <1>2, <2>2, <3>1
  <2>3. i = Len(o) + 1 => q[i].key = e.key
    BY <1>3
  <2>4. j = Len(o) + 1 => q[j].key = e.key
    BY <1>3
  <2>5. CASE i \in 1..Len(o) /\ j = Len(o) + 1
    BY <2>1, <2>4, <2>5
  <2>6. CASE i = Len(o) + 1 /\ j \in 1..Len(o)
    BY <2>1, <2>3, <2>6
  <2>7. (i \in 1..Len(o) \/ i = Len(o) + 1) /\ (j \in 1..Len(o) \/ j = Len(o) + 1)
    BY <1>4
  <2> QED BY <2>2, <2>5, <2>6, <2>7
<1>7. Len(q) = IF e.key \in Keys THEN Len(od) ELSE Len(od) + 1
  BY <1>1, <1>2, <1>3
<1> QED BY <1>3, <1>5, <1>6, <1>7

-----------------------------------------------------------------------------
(* The steps.                                                              *)

LEMMA UniverseInits == UniverseInit => UniverseInv
<1> SUFFICES ASSUME UniverseInit PROVE UniverseInv
  OBVIOUS
<1>1. \A t \in Asker : ask[t].at = "idle" /\ ask[t].market \in Pool /\ ask[t].value = 0 /\ least[t] = 0
  BY UniverseAssumption DEF UniverseAssumption, UniverseInit
<1>2. UniverseShape
  <2>1. od \in Seq(Items) /\ onFile \in Nat /\ least \in [Asker -> Nat]
    BY DEF UniverseInit
  <2>2. (CHOOSE m \in Pool : TRUE) \in Pool
    BY UniverseAssumption DEF UniverseAssumption
  <2>3. ask \in [Asker -> [at : Steps, market : Pool, value : Nat]]
    <3> DEFINE m0 == CHOOSE m \in Pool : TRUE
    <3>1. ask = [t \in Asker |-> [at |-> "idle", market |-> m0, value |-> 0]]
      BY DEF UniverseInit
    <3>2. m0 \in Pool
      BY <2>2
    <3> HIDE DEF m0
    <3> QED BY <3>1, <3>2 DEF Steps
  <2> QED BY <2>1, <2>3 DEF UniverseShape
<1>3. SizeTrue
  BY UniverseAssumption DEF UniverseAssumption, UniverseInit, SizeTrue
<1>4. NothingOlder
  BY <1>1 DEF NothingOlder, UniverseInit, Asking
<1> QED BY <1>2, <1>3, <1>4 DEF UniverseInv

\* What a step of thread t leaves to show, when it only moves the thread.
LEMMA AskerMoves ==
    ASSUME UniverseInv, NEW t \in Asker, UNCHANGED onFile,
           NEW r \in [at : Steps, market : Pool, value : Nat], ask' = [ask EXCEPT ![t] = r],
           NEW n \in Nat, least' = [least EXCEPT ![t] = n], n <= onFile,
           od' \in Seq(Items), SizeTrue',
           \A i \in 1..Len(od') : \/ \E k \in 1..Len(od) : od'[i] = od[k]
                                  \/ ask[t].at = "store" /\ od'[i].key = ask[t].market
                                     /\ od'[i].value = ask[t].value,
           r.at = "store" =>
              r.value = onFile,
           r.at \in Asking =>
              /\ \A i \in 1..Len(od') : od'[i].key = r.market => n <= od'[i].value
              /\ \A u \in Asker : ask[u].at = "store" /\ ask[u].market = r.market => n <= ask[u].value,
           r.at = "answered" => n <= r.value
    PROVE  UniverseInv'
<1> USE DEF UniverseInv
<1>1. /\ ask'[t] = r /\ least'[t] = n
      /\ \A u \in Asker : u # t => ask'[u] = ask[u] /\ least'[u] = least[u]
  BY DEF UniverseShape
<1>2. UniverseShape'
  BY DEF UniverseShape
<1>3. ASSUME NEW u \in Asker, u # t
      PROVE  /\ least'[u] <= onFile
             /\ ask'[u].at \in Asking =>
                   /\ \A i \in 1..Len(od') : od'[i].key = ask'[u].market => least'[u] <= od'[i].value
                   /\ \A v \in Asker : ask'[v].at = "store" /\ ask'[v].market = ask'[u].market
                                         => least'[u] <= ask'[v].value
             /\ ask'[u].at = "answered" => least'[u] <= ask'[u].value
  <2>1. ask'[u] = ask[u] /\ least'[u] = least[u] /\ least[u] <= onFile
    BY <1>1, <1>3 DEF NothingOlder
  <2>2. ASSUME ask[u].at \in Asking, NEW i \in 1..Len(od'), od'[i].key = ask[u].market
        PROVE  least[u] <= od'[i].value
    BY <2>2 DEF NothingOlder
  <2>3. ASSUME ask[u].at \in Asking, NEW v \in Asker, ask'[v].at = "store", ask'[v].market = ask[u].market
        PROVE  least[u] <= ask'[v].value
    BY <1>1, <2>1, <2>3 DEF NothingOlder
  <2> QED BY <2>1, <2>2, <2>3 DEF NothingOlder
<1>4. r.at \in Asking => \A v \in Asker : ask'[v].at = "store" /\ ask'[v].market = r.market => n <= ask'[v].value
  BY <1>1
<1>5. NothingOlder'
  BY <1>1, <1>3, <1>4 DEF NothingOlder
<1> QED BY <1>2, <1>5

LEMMA AskStep ==
    ASSUME UniverseInv, NEW t \in Asker, NEW m \in Pool, NEW clears \in BOOLEAN, AskFor(t, m, clears)
    PROVE  UniverseInv'
<1> DEFINE r == [at |-> IF clears THEN "clear" ELSE "look", market |-> m, value |-> 0]
<1>1. r \in [at : Steps, market : Pool, value : Nat] /\ r.at \in {"clear", "look"} /\ r.market = m
  BY DEF Steps
<1>2. ask' = [ask EXCEPT ![t] = r] /\ least' = [least EXCEPT ![t] = 0] /\ UNCHANGED <<onFile, od, size>>
  BY DEF AskFor
<1>3. onFile \in Nat /\ od \in Seq(Items) /\ \A i \in 1..Len(od) : od[i] \in Items
  BY ElementOfSeq DEF UniverseInv, UniverseShape
<1>4. \A u \in Asker : ask[u].value \in Nat
  BY DEF UniverseInv, UniverseShape
<1>5. SizeTrue'
  BY <1>2 DEF UniverseInv, SizeTrue
<1>6. \A i \in 1..Len(od) : 0 <= od[i].value
  BY <1>3 DEF Items
<1> HIDE DEF r
<1>7. \A i \in 1..Len(od') : od'[i].key = r.market => 0 <= od'[i].value
  BY <1>2, <1>6
<1>8. \A u \in Asker : ask[u].at = "store" /\ ask[u].market = r.market => 0 <= ask[u].value
  BY <1>4
<1>9. /\ r.at # "store" /\ r.at # "answered" /\ 0 <= onFile /\ UNCHANGED onFile
      /\ od' \in Seq(Items) /\ \A i \in 1..Len(od') : \E k \in 1..Len(od) : od'[i] = od[k]
  BY <1>1, <1>2, <1>3
<1>10. 0 \in Nat
  OBVIOUS
<1> QED BY <1>1, <1>2, <1>5, <1>7, <1>8, <1>9, <1>10, AskerMoves

\* What a thread that clears may be given is in the files or about to be stored.
LEMMA ClearFirstStep ==
    ASSUME UniverseInv, NEW t \in Asker, ClearFirst(t)
    PROVE  UniverseInv'
<1> DEFINE m == ask[t].market
           D == {onFile} \cup InFlight(m)
           r == [at |-> "look", market |-> m, value |-> ask[t].value]
<1>1. /\ onFile \in Nat /\ \A u \in Asker : ask[u] \in [at : Steps, market : Pool, value : Nat]
      /\ ask \in [Asker -> [at : Steps, market : Pool, value : Nat]]
  BY DEF UniverseInv, UniverseShape
<1>2. D \in SUBSET Nat /\ D # {} /\ onFile \in D
  BY <1>1 DEF InFlight
<1>3. Min(D) \in D /\ \A d \in D : Min(D) <= d
  <2> HIDE DEF D
  <2>1. \E x \in D : \A d \in D : x <= d
    BY <1>2, LeastExists
  <2> QED BY <2>1 DEF Min
<1>4. Min(D) \in Nat /\ Min(D) <= onFile
  <2> HIDE DEF D
  <2> QED BY <1>2, <1>3
<1>5. \A u \in Asker : ask[u].at = "store" /\ ask[u].market = m => Min(D) <= ask[u].value
  <2>1. \A u \in Asker : ask[u].at = "store" /\ ask[u].market = m => ask[u].value \in D
    BY DEF InFlight
  <2> HIDE DEF D
  <2> QED BY <1>3, <2>1
<1>6. ask' = [ask EXCEPT ![t] = r]
  <2>1. ask' = [ask EXCEPT ![t] = [ask[t] EXCEPT !.at = "look"]]
    BY DEF ClearFirst
  <2>2. [ask[t] EXCEPT !.at = "look"] = r
    BY <1>1
  <2> QED BY <2>1, <2>2
<1>7. r \in [at : Steps, market : Pool, value : Nat] /\ r.at = "look" /\ r.market = m
  BY <1>1 DEF Steps
<1>8. /\ least' = [least EXCEPT ![t] = Min(D)] /\ UNCHANGED onFile /\ od' = <<>> /\ size' = 0
  BY DEF ClearFirst
<1>9. od' \in Seq(Items) /\ Len(od') = 0 /\ SizeTrue'
  BY <1>8, UniverseAssumption DEF SizeTrue, UniverseAssumption
<1> DEFINE n == Min(D)
<1>10. /\ n \in Nat /\ n <= onFile /\ least' = [least EXCEPT ![t] = n]
       /\ \A u \in Asker : ask[u].at = "store" /\ ask[u].market = r.market => n <= ask[u].value
  BY <1>4, <1>5, <1>7, <1>8
<1> HIDE DEF D, r, n
<1>11. \A i \in 1..Len(od') : FALSE
  BY <1>9
<1>12. r.at # "store" /\ r.at # "answered" /\ UNCHANGED onFile
  BY <1>7, <1>8
<1> QED BY <1>6, <1>7, <1>9, <1>10, <1>11, <1>12, AskerMoves

\* A step that leaves the dictionary and the files alone.
LEMMA LooksStep ==
    ASSUME UniverseInv, NEW t \in Asker, LookIn(t) \/ LoadFile(t)
    PROVE  UniverseInv'
<1> DEFINE R == [at : Steps, market : Pool, value : Nat]
           m == ask[t].market
           r == [at |-> IF ask[t].at = "load" THEN "store" ELSE IF m \in Keys THEN "get" ELSE "load",
                 market |-> m, value |-> IF ask[t].at = "load" THEN onFile ELSE ask[t].value]
<1>1. ask[t] \in R /\ onFile \in Nat /\ least \in [Asker -> Nat] /\ ask \in [Asker -> R]
  BY DEF UniverseInv, UniverseShape
<1>2. ask[t].at \in {"look", "load"} /\ UNCHANGED <<onFile, od, size, least>>
  BY DEF LookIn, LoadFile
<1>3. ask' = [ask EXCEPT ![t] = r]
  <2>1. CASE LookIn(t)
    <3>1. ask[t].at = "look" /\ ask' = [ask EXCEPT ![t] = [ask[t] EXCEPT !.at = IF m \in Keys THEN "get" ELSE "load"]]
      BY <2>1 DEF LookIn
    <3>2. [ask[t] EXCEPT !.at = IF m \in Keys THEN "get" ELSE "load"] = r
      BY <1>1, <3>1
    <3> QED BY <3>1, <3>2
  <2>2. CASE LoadFile(t)
    BY <2>2 DEF LoadFile
  <2> QED BY <2>1, <2>2
<1>4. /\ r \in R /\ r.market = m /\ r.at \in {"store", "get", "load"}
      /\ r.at = "store" => r.value = onFile
  BY <1>1 DEF Steps
<1> HIDE DEF R, r
<1>5. SizeTrue'
  BY <1>2 DEF UniverseInv, SizeTrue
<1>6. least' = [least EXCEPT ![t] = least[t]] /\ least[t] \in Nat /\ least[t] <= onFile
  BY <1>1, <1>2 DEF UniverseInv, NothingOlder
<1>7. /\ \A i \in 1..Len(od) : od[i].key = m => least[t] <= od[i].value
      /\ \A u \in Asker : ask[u].at = "store" /\ ask[u].market = m => least[t] <= ask[u].value
  BY <1>2 DEF UniverseInv, NothingOlder, Asking
<1>8. od' \in Seq(Items) /\ od' = od
  BY <1>2 DEF UniverseInv, UniverseShape
<1> QED BY <1>2, <1>3, <1>4, <1>5, <1>6, <1>7, <1>8, AskerMoves DEF R

LEMMA GetItemStep ==
    ASSUME UniverseInv, NEW t \in Asker, GetItem(t)
    PROVE  UniverseInv'
<1> DEFINE R == [at : Steps, market : Pool, value : Nat]
           m == ask[t].market
<1>1. ask[t] \in R /\ ask \in [Asker -> R] /\ m \in Pool /\ least[t] \in Nat /\ od \in Seq(Items)
      /\ onFile \in Nat /\ Len(od) \in Nat /\ DOMAIN od = 1..Len(od)
  BY LenProperties DEF UniverseInv, UniverseShape
<1>2. /\ ask[t].at = "get" /\ UNCHANGED <<onFile, size, least>>
      /\ least' = [least EXCEPT ![t] = least[t]] /\ least[t] <= onFile
  BY DEF GetItem, UniverseInv, UniverseShape, NothingOlder
<1>3. \A i \in 1..Len(od) : od[i].key = m => least[t] <= od[i].value
  BY <1>2 DEF UniverseInv, NothingOlder, Asking
<1>4. CASE m \in Keys
  <2> DEFINE e == Entry(m)
             q == Append(Others(m), e)
             r == [at |-> "answered", market |-> m, value |-> e.value]
  <2>1. PlaceOf(m) \in 1..Len(od) /\ od[PlaceOf(m)].key = m
    BY <1>1, <1>4, OthersAre DEF UniverseInv
  <2>2. e \in Items /\ e.key = m /\ least[t] <= e.value
    BY <1>1, <1>3, <2>1, ElementOfSeq DEF Entry
  <2>3. od' = q /\ ask' = [ask EXCEPT ![t] = r]
    BY <1>4 DEF GetItem
  <2>4. r \in R /\ r.at = "answered" /\ least[t] <= r.value
    BY <2>2, <1>1 DEF Steps, Items
  <2> HIDE DEF e, r
  <2>5. /\ q \in Seq(Items) /\ Len(q) = Len(od)
        /\ \A i \in 1..Len(q) : q[i] = e \/ \E k \in 1..Len(od) : q[i] = od[k]
        /\ \A i, j \in 1..Len(q) : q[i].key = q[j].key => i = j
    BY <1>4, <2>2, LatestItem DEF UniverseInv
  <2>6. \A i \in 1..Len(q) : \E k \in 1..Len(od) : q[i] = od[k]
    BY <2>1, <2>5 DEF e, Entry
  <2> HIDE DEF q
  <2>7. SizeTrue'
    <3>1. DOMAIN q = 1..Len(q)
      BY <2>5, LenProperties
    <3> QED BY <1>2, <2>3, <2>5, <3>1 DEF SizeTrue, UniverseInv
  <2>8. od' \in Seq(Items) /\ \A i \in 1..Len(od') : \E k \in 1..Len(od) : od'[i] = od[k]
    BY <2>3, <2>5, <2>6
  <2>9. r.at # "store" /\ r.at \notin Asking /\ UNCHANGED onFile
    BY <1>2, <2>4 DEF Asking
  <2> HIDE DEF R, m
  <2> QED BY <1>1, <1>2, <2>3, <2>4, <2>7, <2>8, <2>9, AskerMoves DEF R
<1>5. CASE m \notin Keys
  <2> DEFINE r == [at |-> "failed", market |-> m, value |-> ask[t].value]
  <2>1. UNCHANGED <<od, onFile>> /\ SizeTrue'
    BY <1>2, <1>5 DEF GetItem, UniverseInv, SizeTrue
  <2>2. ask' = [ask EXCEPT ![t] = r]
    <3>1. ask' = [ask EXCEPT ![t] = [ask[t] EXCEPT !.at = "failed"]]
      BY <1>5 DEF GetItem
    <3>2. [ask[t] EXCEPT !.at = "failed"] = r
      BY <1>1
    <3> QED BY <3>1, <3>2
  <2>3. r \in R /\ r.at \notin Asking /\ r.at # "answered" /\ r.at # "store"
    BY <1>1 DEF Steps, Asking
  <2> HIDE DEF r, R, m
  <2> QED BY <1>1, <1>2, <2>1, <2>2, <2>3, AskerMoves DEF R
<1> QED BY <1>4, <1>5

LEMMA StoreStep ==
    ASSUME UniverseInv, NEW t \in Asker, Store(t)
    PROVE  UniverseInv'
<1> DEFINE R == [at : Steps, market : Pool, value : Nat]
           m == ask[t].market
           e == [key |-> m, value |-> ask[t].value]
           q == Append(Others(m), e)
           n == Adjusted(m)
           over == IF SizeLimit > 0 /\ n > SizeLimit THEN n - SizeLimit ELSE 0
           r == [at |-> "answered", market |-> m, value |-> ask[t].value]
<1>1. ask[t] \in R /\ ask \in [Asker -> R] /\ m \in Pool /\ least[t] \in Nat /\ od \in Seq(Items)
      /\ onFile \in Nat /\ Len(od) \in Nat /\ SizeLimit \in Nat
  BY LenProperties, UniverseAssumption DEF UniverseInv, UniverseShape, UniverseAssumption
<1>2. /\ ask[t].at = "store" /\ UNCHANGED <<onFile, least>>
      /\ least' = [least EXCEPT ![t] = least[t]] /\ least[t] <= onFile
  BY DEF Store, UniverseInv, UniverseShape, NothingOlder
<1>3. least[t] <= ask[t].value
  BY <1>2 DEF UniverseInv, NothingOlder, Asking
<1>4. e \in Items /\ e.key = m /\ e.value = ask[t].value
  BY <1>1 DEF Items
<1>5. od' = SubSeq(q, over + 1, Len(q)) /\ size' = n - over
  BY DEF Store
<1>6. ask' = [ask EXCEPT ![t] = r]
  <2>1. ask' = [ask EXCEPT ![t] = [ask[t] EXCEPT !.at = "answered"]]
    BY DEF Store
  <2>2. [ask[t] EXCEPT !.at = "answered"] = r
    BY <1>1
  <2> QED BY <2>1, <2>2
<1>7. r \in R /\ r.at = "answered" /\ r.value = ask[t].value
  BY <1>1 DEF Steps
<1> HIDE DEF e, r, R, m
<1>8. /\ q \in Seq(Items) /\ Len(q) = IF m \in Keys THEN Len(od) ELSE Len(od) + 1
      /\ \A i \in 1..Len(q) : q[i] = e \/ \E k \in 1..Len(od) : q[i] = od[k]
      /\ \A i, j \in 1..Len(q) : q[i].key = q[j].key => i = j
  BY <1>4, LatestItem DEF UniverseInv
<1>9. n = Len(q) /\ n \in Nat /\ (SizeLimit > 0 => n <= SizeLimit + 1)
  BY <1>1, <1>8 DEF Adjusted, UniverseInv, SizeTrue
<1> HIDE DEF n
<1>10. over \in {0, 1} /\ over <= n /\ (SizeLimit > 0 => n - over <= SizeLimit)
  BY <1>1, <1>9
<1> HIDE DEF q, over
<1>11. /\ od' \in Seq(Items) /\ Len(od') = n - over
       /\ \A i \in 1..Len(od') : i + over \in 1..Len(q) /\ od'[i] = q[i + over]
  <2>1. \A i \in 1..Len(q) : q[i] \in Items
    BY <1>8, ElementOfSeq
  <2>2. over + 1 \in Int /\ Len(q) \in Int /\ \A i \in (over + 1)..Len(q) : q[i] \in Items
    BY <1>9, <1>10, <2>1
  <2>3. /\ od' \in Seq(Items)
        /\ Len(od') = IF over + 1 <= Len(q) THEN Len(q) - (over + 1) + 1 ELSE 0
        /\ \A i \in 1..(Len(q) - (over + 1) + 1) : od'[i] = q[(over + 1) + i - 1]
    BY <1>5, <2>2, SubSeqProperties
  <2>4. Len(od') = n - over
    BY <1>9, <1>10, <2>3
  <2>5. \A i \in 1..Len(od') : /\ i \in 1..(Len(q) - (over + 1) + 1)
                               /\ (over + 1) + i - 1 = i + over /\ i + over \in 1..Len(q)
    BY <1>9, <1>10, <2>4
  <2> QED BY <2>3, <2>4, <2>5
<1>12. SizeTrue'
  <2>1. DOMAIN od' = 1..Len(od')
    BY <1>11, LenProperties
  <2>2. size' = Len(od') /\ (SizeLimit > 0 => size' <= SizeLimit)
    BY <1>5, <1>10, <1>11
  <2>3. ASSUME NEW i \in 1..Len(od'), NEW j \in 1..Len(od'), od'[i].key = od'[j].key
        PROVE  i = j
    <3>2. /\ i + over \in 1..Len(q) /\ j + over \in 1..Len(q)
          /\ q[i + over].key = q[j + over].key
      BY <1>11, <2>3
    <3>1. i + over = j + over
      BY <1>8, <3>2
    <3> QED BY <1>10, <3>1
  <2> QED BY <2>1, <2>2, <2>3 DEF SizeTrue
<1>13. \A i \in 1..Len(od') : \/ \E k \in 1..Len(od) : od'[i] = od[k]
                              \/ ask[t].at = "store" /\ od'[i].key = ask[t].market
                                 /\ od'[i].value = ask[t].value
  <2> TAKE i \in 1..Len(od')
  <2>1. od'[i] = e \/ \E k \in 1..Len(od) : od'[i] = od[k]
    <3>1. i + over \in 1..Len(q) /\ od'[i] = q[i + over]
      BY <1>11
    <3> QED BY <1>8, <3>1
  <2>2. e.key = ask[t].market
    BY <1>4 DEF m
  <2> QED BY <1>2, <1>4, <2>1, <2>2
<1>14. r.at # "store" /\ r.at \notin Asking /\ UNCHANGED onFile /\ least[t] <= r.value
  BY <1>2, <1>3, <1>7 DEF Asking
<1> QED BY <1>1, <1>2, <1>6, <1>7, <1>11, <1>12, <1>13, <1>14, AskerMoves DEF R

LEMMA CacheFilesStep ==
    ASSUME UniverseInv, Replace \/ ClearUniverse
    PROVE  UniverseInv'
<1>1. CASE Replace
  <2>1. onFile \in Nat /\ onFile' = onFile + 1 /\ UNCHANGED <<od, size, ask, least>>
    BY <1>1 DEF Replace, UniverseInv, UniverseShape
  <2>2. \A t \in Asker : least[t] \in Nat
    BY DEF UniverseInv, UniverseShape
  <2> QED BY <2>1, <2>2 DEF UniverseInv, UniverseShape, SizeTrue, NothingOlder
<1>2. CASE ClearUniverse
  <2>1. od' = <<>> /\ size' = 0 /\ UNCHANGED <<onFile, ask, least>>
    BY <1>2 DEF ClearUniverse
  <2>2. UniverseShape' /\ SizeTrue'
    BY <2>1, UniverseAssumption DEF UniverseInv, UniverseShape, SizeTrue, UniverseAssumption
  <2>3. NothingOlder'
    BY <2>1 DEF UniverseInv, NothingOlder
  <2> QED BY <2>2, <2>3 DEF UniverseInv
<1> QED BY <1>1, <1>2

LEMMA UniverseIsInductive == UniverseSpec => []UniverseInv
<1>1. ASSUME UniverseInv, [UniverseNext]_universeVars PROVE UniverseInv'
  <2>1. CASE UNCHANGED universeVars
    BY <1>1, <2>1 DEF universeVars, UniverseInv, UniverseShape, SizeTrue, NothingOlder
  <2> QED BY <1>1, <2>1, AskStep, ClearFirstStep, LooksStep, GetItemStep, StoreStep, CacheFilesStep
          DEF UniverseNext
<1> QED BY <1>1, UniverseInits, PTL DEF UniverseSpec

\* Whichever requests ask, and whichever entries are evicted or cleared meanwhile: what is
\* answered is no older than the file was when the cache was cleared, or than a list then
\* in another thread's hands; and the unit holds no key twice and keeps to its limit.
THEOREM UniverseIsTrue == UniverseSpec => []UniverseTrue
<1>1. UniverseInv => UniverseTrue
  BY DEF UniverseInv, UniverseShape, NothingOlder, UniverseTrue, UniverseFresh
<1> QED BY <1>1, UniverseIsInductive, PTL

-----------------------------------------------------------------------------
(* DiskCache: a file that was updated holds what a new one would.           *)

SeriesValues == [day : Int, seen : Int]

DiskShape ==
    /\ days \in Nat \ {0}
    /\ bins \in [Instrument -> Nat] /\ \A i \in Instrument : bins[i] \in 1..days
    /\ expression \in [Instrument -> [last : Nat, cells : Seq(SeriesValues)]]
    /\ \A i \in Instrument : expression[i].last <= days
    /\ lagging \in BOOLEAN

QueryInv == ~lagging => ExpressionTrue

-----------------------------------------------------------------------------
\* Up to date, a series has each day from its first to the last, as good as it can be.
LEMMA SeriesIs ==
    ASSUME DiskShape, NEW i \in Instrument, bins[i] = days, NEW from \in 1..(days + 1)
    PROVE  /\ Series(i, from, days) \in Seq(SeriesValues)
           /\ Len(Series(i, from, days)) = days + 1 - from
           /\ \A k \in 1..(days + 1 - from) :
                 /\ Series(i, from, days)[k].day = from + k - 1
                 /\ Series(i, from, days)[k].seen = Smaller(from + k - 1 + Lookahead, days)
<1> DEFINE n == days + 1 - from
           s == [k \in 1..n |-> [day |-> from + k - 1, seen |-> Smaller(from + k - 1 + Lookahead, days)]]
<1>1. days \in Nat /\ Lookahead \in Nat /\ n \in Nat
  BY CacheAssumption DEF CacheAssumption, DiskShape
<1>2. Smaller(days, days) + 1 - from = n
  BY <1>1 DEF Smaller
<1>3. Series(i, from, days) = s
  BY <1>2 DEF Series
<1>4. \A k \in 1..n : Smaller(from + k - 1 + Lookahead, days) \in Int /\ from + k - 1 \in Int
  BY <1>1 DEF Smaller
<1>5. s \in [1..n -> SeriesValues]
  BY <1>4 DEF SeriesValues
<1> HIDE DEF n
<1>6. s \in Seq(SeriesValues) /\ Len(s) = n
  <2> HIDE DEF s
  <2>1. s \in Seq(SeriesValues)
    BY <1>1, <1>5
  <2> QED BY <1>1, <1>5, <2>1, LenProperties
<1>7. \A k \in 1..n : s[k].day = from + k - 1 /\ s[k].seen = Smaller(from + k - 1 + Lookahead, days)
  OBVIOUS
<1> QED BY <1>3, <1>6, <1>7 DEF n

\* A series is one of values, whatever data there is.
LEMMA SeriesType ==
    ASSUME DiskShape, NEW i \in Instrument, NEW from \in Int
    PROVE  Series(i, from, days) \in Seq(SeriesValues)
<1> DEFINE n == Smaller(days, bins[i]) + 1 - from
           m == IF n > 0 THEN n ELSE 0
           s == [k \in 1..n |-> [day |-> from + k - 1, seen |-> Smaller(from + k - 1 + Lookahead, bins[i])]]
<1>1. n \in Int /\ bins[i] \in Int /\ Lookahead \in Int
  BY CacheAssumption DEF CacheAssumption, DiskShape, Smaller
<1>2. Series(i, from, days) = s
  BY DEF Series
<1>3. \A k \in 1..n : Smaller(from + k - 1 + Lookahead, bins[i]) \in Int /\ from + k - 1 \in Int
  BY <1>1 DEF Smaller
<1>4. s \in [1..n -> SeriesValues]
  BY <1>3 DEF SeriesValues
<1> HIDE DEF n, s
<1>5. m \in Nat /\ 1..n = 1..m
  BY <1>1
<1>6. s \in Seq(SeriesValues)
  <2> HIDE DEF m
  <2>1. s \in [1..m -> SeriesValues]
    BY <1>4, <1>5
  <2> QED BY <1>5, <2>1
<1> QED BY <1>2, <1>6

LEMMA DiskInits == CacheInit => DiskShape /\ QueryInv
<1> SUFFICES ASSUME CacheInit PROVE DiskShape /\ QueryInv
  OBVIOUS
<1>1. \A i \in Instrument : expression[i] = [last |-> 0, cells |-> <<>>]
  BY DEF CacheInit
<1>2. <<>> \in Seq(SeriesValues)
  OBVIOUS
<1>3. expression \in [Instrument -> [last : Nat, cells : Seq(SeriesValues)]]
  BY <1>2 DEF CacheInit
<1>4. DiskShape
  <2>1. bins \in [Instrument -> Nat] /\ \A i \in Instrument : bins[i] = 1
    BY DEF CacheInit
  <2>2. days = 1 /\ lagging \in BOOLEAN
    BY DEF CacheInit
  <2>3. \A i \in Instrument : bins[i] \in 1..days /\ expression[i].last <= days
    BY <1>1, <2>1, <2>2
  <2> QED BY <1>3, <2>1, <2>2, <2>3 DEF DiskShape
<1>5. ExpressionTrue
  BY <1>1 DEF ExpressionTrue
<1> QED BY <1>4, <1>5 DEF QueryInv

\* What a step shows that gives one instrument a new file.
LEMMA NewFile ==
    ASSUME DiskShape, QueryInv, NEW i \in Instrument, NEW c \in Seq(SeriesValues),
           expression' = [expression EXCEPT ![i] = [last |-> days, cells |-> c]],
           lagging' = (lagging \/ bins[i] < days),
           UNCHANGED <<days, bins>>,
           ~lagging' => /\ Len(c) = days
                        /\ \A d \in 1..days : Good(c[d], d, days)
    PROVE  DiskShape' /\ QueryInv'
<1> DEFINE f == [last |-> days, cells |-> c]
<1>1. /\ expression'[i] = f /\ f.last = days /\ f.cells = c
      /\ \A j \in Instrument : j # i => expression'[j] = expression[j]
  BY DEF DiskShape
<1>2. DiskShape'
  <2>1. f \in [last : Nat, cells : Seq(SeriesValues)] /\ days <= days
    BY DEF DiskShape
  <2> HIDE DEF f
  <2>2. expression' \in [Instrument -> [last : Nat, cells : Seq(SeriesValues)]]
    BY <2>1 DEF DiskShape
  <2>3. \A j \in Instrument : expression'[j].last <= days
    BY <1>1, <2>1 DEF DiskShape
  <2>4. lagging' \in BOOLEAN /\ days' = days /\ bins' = bins
    OBVIOUS
  <2> QED BY <2>2, <2>3, <2>4 DEF DiskShape
<1> HIDE DEF f
<1>3. QueryInv'
  <2> SUFFICES ASSUME ~lagging' PROVE ExpressionTrue'
    BY DEF QueryInv
  <2>1. ExpressionTrue
    BY DEF QueryInv, DiskShape
  <2>2. ASSUME NEW j \in Instrument
        PROVE  /\ Len(expression'[j].cells) = expression'[j].last
               /\ \A d \in 1..expression'[j].last :
                     Good(expression'[j].cells[d], d, expression'[j].last)
    <3>1. CASE j = i
      BY <1>1, <3>1
    <3>2. CASE j # i
      BY <1>1, <2>1, <3>2 DEF ExpressionTrue
    <3> QED BY <3>1, <3>2
  <2> QED BY <2>2 DEF ExpressionTrue
<1> QED BY <1>2, <1>3

LEMMA GenStep ==
    ASSUME DiskShape, QueryInv, NEW i \in Instrument, GenExpressionCache(i)
    PROVE  DiskShape' /\ QueryInv'
<1> DEFINE c == Series(i, 1, days)
<1>1. c \in Seq(SeriesValues)
  BY SeriesType
<1>2. /\ expression' = [expression EXCEPT ![i] = [last |-> days, cells |-> c]]
      /\ lagging' = (lagging \/ bins[i] < days) /\ UNCHANGED <<days, bins>>
  BY DEF GenExpressionCache
<1>3. ASSUME ~lagging'
      PROVE  Len(c) = days /\ \A d \in 1..days : Good(c[d], d, days)
  <2>1. days \in Nat \ {0} /\ bins[i] = days /\ Lookahead \in Nat
    <3>1. ~(lagging \/ bins[i] < days)
      BY <1>2, <1>3
    <3> QED BY <3>1, CacheAssumption DEF DiskShape, CacheAssumption
  <2>2. /\ Len(c) = days + 1 - 1
        /\ \A k \in 1..(days + 1 - 1) :
              c[k].day = 1 + k - 1 /\ c[k].seen = Smaller(1 + k - 1 + Lookahead, days)
    BY <2>1, SeriesIs
  <2> HIDE DEF c
  <2>3. ASSUME NEW d \in 1..days PROVE Good(c[d], d, days)
    <3>1. d \in 1..(days + 1 - 1) /\ 1 + d - 1 = d
      BY <2>1
    <3>2. c[d].day = d /\ c[d].seen = Smaller(d + Lookahead, days) /\ Smaller(d + Lookahead, days) \in Nat
      BY <2>1, <2>2, <3>1 DEF Smaller
    <3> QED BY <3>2 DEF Good
  <2> QED BY <2>1, <2>2, <2>3
<1> HIDE DEF c
<1> QED BY <1>1, <1>2, <1>3, NewFile

\* The values that an update keeps did not need the days that have come since, and it makes
\* the others again.
LEMMA CacheUpdateStep ==
    ASSUME DiskShape, QueryInv, NEW i \in Instrument, UpdateExpression(i)
    PROVE  DiskShape' /\ QueryInv'
<1> DEFINE old == expression[i].cells
           last == expression[i].last
           n == RemoveN(Len(old))
           kept == SubSeq(old, 1, Len(old) - n)
           new == Series(i, last + 1 - n, days)
           c == kept \o new
<1>1. /\ old \in Seq(SeriesValues) /\ Len(old) \in Nat /\ last \in 1..(days - 1) /\ days \in Nat
      /\ Lookahead \in Nat /\ n \in 0..Len(old)
  <2>1. old \in Seq(SeriesValues) /\ last \in 1..(days - 1) /\ days \in Nat
    BY DEF DiskShape, UpdateExpression
  <2>2. Len(old) \in Nat
    BY <2>1, LenProperties
  <2> QED BY <2>1, <2>2, CacheAssumption DEF CacheAssumption, RemoveN, Smaller
<1>2. /\ expression' = [expression EXCEPT ![i] = [last |-> days, cells |-> c]]
      /\ lagging' = (lagging \/ bins[i] < days) /\ UNCHANGED <<days, bins>>
  BY DEF UpdateExpression
<1> HIDE DEF old, last
<1>3. /\ kept \in Seq(SeriesValues) /\ Len(kept) = Len(old) - n
      /\ \A d \in 1..(Len(old) - n) : kept[d] = old[d]
  <2> HIDE DEF n
  <2>1. \A k \in 1..(Len(old) - n) : old[k] \in SeriesValues
    BY <1>1, ElementOfSeq
  <2>2. 1 \in Int /\ Len(old) - n \in Int
    BY <1>1
  <2>3. /\ kept \in Seq(SeriesValues)
        /\ Len(kept) = IF 1 <= Len(old) - n THEN (Len(old) - n) - 1 + 1 ELSE 0
        /\ \A k \in 1..((Len(old) - n) - 1 + 1) : kept[k] = old[1 + k - 1]
    BY <2>1, <2>2, SubSeqProperties
  <2> HIDE DEF kept
  <2> QED BY <1>1, <2>3
<1>4. new \in Seq(SeriesValues) /\ Len(new) \in Nat
  <2>1. last + 1 - n \in Int
    BY <1>1
  <2>2. new \in Seq(SeriesValues)
    BY <2>1, SeriesType
  <2> QED BY <2>2, LenProperties
<1>5. c \in Seq(SeriesValues) /\ Len(c) = Len(kept) + Len(new)
      /\ \A d \in 1..(Len(kept) + Len(new)) :
            c[d] = IF d <= Len(kept) THEN kept[d] ELSE new[d - Len(kept)]
  <2> HIDE DEF kept, new
  <2> QED BY <1>3, <1>4, ConcatProperties
<1>6. ASSUME ~lagging'
      PROVE  Len(c) = days /\ \A d \in 1..days : Good(c[d], d, days)
  <2>1. bins[i] = days /\ ~lagging
    <3>1. ~(lagging \/ bins[i] < days)
      BY <1>2, <1>6
    <3> QED BY <3>1 DEF DiskShape
  <2>2. Len(old) = last /\ \A d \in 1..last : Good(old[d], d, last)
    BY <2>1 DEF QueryInv, ExpressionTrue, old, last
  <2>3. n = IF Lookahead < last THEN Lookahead ELSE last
    BY <2>2 DEF RemoveN, Smaller
  <2>4. last + 1 - n \in 1..(days + 1)
    BY <1>1, <2>2
  <2>5. /\ Len(new) = days + 1 - (last + 1 - n)
        /\ \A k \in 1..(days + 1 - (last + 1 - n)) :
              /\ new[k].day = (last + 1 - n) + k - 1
              /\ new[k].seen = Smaller((last + 1 - n) + k - 1 + Lookahead, days)
    BY <2>1, <2>4, SeriesIs
  <2> HIDE DEF n, kept, new, c
  <2>6. Len(c) = days /\ Len(kept) = last - n
    BY <1>1, <1>3, <1>5, <2>2, <2>5
  <2>7. ASSUME NEW d \in 1..days PROVE Good(c[d], d, days)
    <3>1. d \in Nat /\ Smaller(d + Lookahead, days) \in Nat
      BY <1>1 DEF Smaller
    <3>2. CASE d <= last - n
      <4>1. n = Lookahead /\ d \in 1..last /\ d \in 1..(Len(old) - n)
        BY <1>1, <2>2, <2>3, <3>1, <3>2
      <4>2. c[d] = old[d]
        BY <1>3, <1>5, <2>6, <3>2, <4>1
      <4>3. d + Lookahead <= last
        BY <1>1, <3>1, <3>2, <4>1
      <4>4. Smaller(d + Lookahead, last) = d + Lookahead /\ Smaller(d + Lookahead, days) = d + Lookahead
        BY <1>1, <3>1, <4>3 DEF Smaller
      <4> QED BY <2>2, <4>1, <4>2, <4>4 DEF Good
    <3>3. CASE ~(d <= last - n)
      <4> DEFINE k == d - (last - n)
      <4>1. k \in 1..(days + 1 - (last + 1 - n)) /\ (last + 1 - n) + k - 1 = d
        BY <1>1, <2>2, <3>1, <3>3
      <4>2. c[d] = new[k]
        BY <1>5, <2>6, <3>3
      <4> HIDE DEF k
      <4>3. new[k].day = d /\ new[k].seen = Smaller(d + Lookahead, days)
        BY <2>5, <4>1
      <4> QED BY <3>1, <4>2, <4>3 DEF Good
    <3> QED BY <3>2, <3>3
  <2> QED BY <2>6, <2>7
<1> HIDE DEF c
<1> QED BY <1>2, <1>5, <1>6, NewFile

LEMMA DiskIsInductive == CacheSpec => [](DiskShape /\ QueryInv)
<1>1. ASSUME DiskShape, QueryInv, [CacheNext]_cacheVars
      PROVE  DiskShape' /\ QueryInv'
  <2>1. CASE NewDay
    BY <1>1, <2>1 DEF NewDay, DiskShape, QueryInv, ExpressionTrue
  <2>2. ASSUME NEW i \in Instrument, NewBar(i) PROVE DiskShape' /\ QueryInv'
    BY <1>1, <2>2 DEF NewBar, DiskShape, QueryInv, ExpressionTrue
  <2>3. CASE GenDatasetCache \/ UpdateDataset
    <3>1. UNCHANGED <<days, bins, expression>> /\ lagging' = (lagging \/ ~AllBins)
      BY <2>3 DEF GenDatasetCache, UpdateDataset
    <3> QED BY <1>1, <3>1 DEF DiskShape, QueryInv, ExpressionTrue
  <2>4. CASE Restart \/ ReadIndex \/ UNCHANGED cacheVars
    <3>1. UNCHANGED <<days, bins, expression, lagging>>
      BY <2>4 DEF Restart, ReadIndex, cacheVars
    <3> QED BY <1>1, <3>1 DEF DiskShape, QueryInv, ExpressionTrue
  <2> QED BY <1>1, <2>1, <2>2, <2>3, <2>4, GenStep, CacheUpdateStep DEF CacheNext
<1> QED BY <1>1, DiskInits, PTL DEF CacheSpec

\* However often an expression file is brought up to the calendar, it holds each day once
\* and in order, with what later days have added, as long as the raw data was complete.
THEOREM ExpressionsAreTrue == CacheSpec => [](~lagging => ExpressionTrue)
<1>1. QueryInv => (~lagging => ExpressionTrue)
  BY DEF QueryInv
<1> QED BY <1>1, DiskIsInductive, PTL

-----------------------------------------------------------------------------
(* Sequences in one another's wake: FlattenSeq as a function.                *)

\* f[i] is the first i sequences of q, in one another's wake.
Flattens(f, q, n) ==
    \A i \in 1..n : f[i] = IF i = 1 THEN q[i] ELSE f[i - 1] \o q[i]

LEMMA FlattenExists ==
    ASSUME NEW R, NEW n \in Nat, NEW q \in [1..n -> Seq(R)]
    PROVE  \E f \in [1..n -> Seq(R)] : Flattens(f, q, n)
<1> DEFINE S == Seq(R)
           D == {m \in Nat : m <= n => \E f \in [1..m -> S] : Flattens(f, q, m)}
<1>1. \A a, b \in S : a \o b \in S
  BY ConcatProperties
<1> HIDE DEF S
<1>2. D \in SUBSET Nat
  OBVIOUS
<1>3. 0 \in D
  <2>1. \A i \in 1..0 : FALSE
    OBVIOUS
  <2>2. [i \in 1..0 |-> 0] \in [1..0 -> S]
    BY <2>1
  <2>3. Flattens([i \in 1..0 |-> 0], q, 0)
    BY <2>1 DEF Flattens
  <2> QED BY <2>2, <2>3
<1>4. ASSUME NEW m \in D PROVE m + 1 \in D
  <2> SUFFICES ASSUME m + 1 <= n PROVE \E f \in [1..(m + 1) -> S] : Flattens(f, q, m + 1)
    OBVIOUS
  <2>1. PICK f \in [1..m -> S] : Flattens(f, q, m)
    OBVIOUS
  <2> DEFINE x == IF m = 0 THEN q[m + 1] ELSE f[m] \o q[m + 1]
             g == [i \in 1..(m + 1) |-> IF i <= m THEN f[i] ELSE x]
  <2>2. m \in Nat /\ q[m + 1] \in S
    BY DEF S
  <2>3. x \in S
    BY <1>1, <2>1, <2>2
  <2>4. g \in [1..(m + 1) -> S]
    <3> HIDE DEF x
    <3> QED BY <2>1, <2>2, <2>3
  <2>5. ASSUME NEW i \in 1..(m + 1)
        PROVE  g[i] = IF i = 1 THEN q[i] ELSE g[i - 1] \o q[i]
    <3>1. CASE i <= m
      <4>1. g[i] = f[i] /\ (i # 1 => g[i - 1] = f[i - 1])
        BY <2>2, <3>1
      <4>2. i \in 1..m
        BY <2>2, <3>1
      <4> QED BY <2>1, <4>1, <4>2 DEF Flattens
    <3>2. CASE ~(i <= m)
      <4>1. i = m + 1 /\ g[i] = x
        BY <2>2, <3>2
      <4>2. m # 0 => g[i - 1] = f[m]
        BY <2>2, <4>1
      <4>3. i = 1 <=> m = 0
        BY <2>2, <4>1
      <4> HIDE DEF g
      <4> QED BY <4>1, <4>2, <4>3
    <3> QED BY <3>1, <3>2
  <2> HIDE DEF g
  <2> QED BY <2>4, <2>5 DEF Flattens
<1> HIDE DEF D
<1>5. D = Nat
  BY <1>2, <1>3, <1>4, AllNumbers
<1> QED BY <1>5 DEF D, S

LEMMA FlattenIs ==
    ASSUME NEW R, NEW n \in Nat \ {0}, NEW q \in [1..n -> Seq(R)]
    PROVE  \E f \in [1..n -> Seq(R)] : Flattens(f, q, n) /\ FlattenSeq(q) = f[n]
<1> DEFINE S == Seq(R)
<1>1. Len(q) = n
  <2> HIDE DEF S
  <2> QED BY LenProperties
<1>2. PICK g \in [1..n -> S] : Flattens(g, q, n)
  BY FlattenExists
<1> HIDE DEF S
<1> DEFINE F(f) == f = [i \in 1..n |-> IF i = 1 THEN q[i] ELSE f[i - 1] \o q[i]]
           h == CHOOSE f : F(f)
<1>3. FlattenSeq(q) = h[n]
  BY <1>1 DEF FlattenSeq
<1>4. F(g)
  BY <1>2 DEF Flattens
<1>5. F(h)
  BY <1>4
<1> HIDE DEF h
<1>6. DOMAIN h = 1..n /\ Flattens(h, q, n)
  BY <1>5 DEF Flattens
<1>7. \A i \in 1..n : h[i] = g[i]
  <2> DEFINE E == {m \in Nat : m \in 1..n => h[m] = g[m]}
  <2>1. E \in SUBSET Nat /\ 0 \in E
    OBVIOUS
  <2>2. ASSUME NEW m \in E PROVE m + 1 \in E
    <3> SUFFICES ASSUME m + 1 \in 1..n PROVE h[m + 1] = g[m + 1]
      OBVIOUS
    <3>1. CASE m = 0
      BY <1>2, <1>6, <3>1 DEF Flattens
    <3>2. CASE m # 0
      <4> DEFINE i == m + 1
      <4>1. h[m] = g[m] /\ i - 1 = m /\ i # 1 /\ i \in 1..n
        BY <3>2
      <4> HIDE DEF i
      <4>2. h[i] = h[m] \o q[i] /\ g[i] = g[m] \o q[i]
        BY <1>2, <1>6, <4>1 DEF Flattens
      <4> QED BY <4>1, <4>2 DEF i
    <3> QED BY <3>1, <3>2
  <2> HIDE DEF E
  <2>3. E = Nat
    BY <2>1, <2>2, AllNumbers
  <2> QED BY <2>3 DEF E
<1>8. h \in [1..n -> S]
  <2>1. h = [i \in 1..n |-> h[i]]
    BY <1>5
  <2> QED BY <1>2, <1>7, <2>1
<1> QED BY <1>3, <1>6, <1>8 DEF S

LEMMA SeriesTimes ==
    ASSUME NEW m \in Nat, NEW c \in Nat
    PROVE  /\ m * c \in Nat /\ (m + 1) * c = m * c + c
           /\ \A k \in 1..m : (k - 1) * c \in Nat /\ (k - 1) * c + c <= m * c
<1>1. m * c \in Nat /\ (m + 1) * c = m * c + c
  OBVIOUS
<1>2. ASSUME NEW k \in 1..m PROVE (k - 1) * c \in Nat /\ (k - 1) * c + c <= m * c
  <2>1. PICK a \in Nat : k - 1 = a
    OBVIOUS
  <2>2. PICK b \in Nat : m = a + 1 + b
    <3>1. m - (a + 1) \in Nat /\ m = a + 1 + (m - (a + 1))
      BY <2>1
    <3> QED BY <3>1
  <2>3. m * c = a * c + c + b * c /\ b * c \in Nat /\ a * c \in Nat
    BY <2>2
  <2> QED BY <2>1, <2>3
<1> QED BY <1>1, <1>2

\* t is n sequences of the length c, in one another's wake.
InTurn(t, q, n, c) ==
    /\ Len(t) = n * c
    /\ \A k \in 1..n : \A j \in 1..c : t[(k - 1) * c + j] = q[k][j]

LEMMA FlatIs ==
    ASSUME NEW R, NEW n \in Nat, NEW c \in Nat, NEW q \in [1..n -> Seq(R)],
           \A k \in 1..n : Len(q[k]) = c
    PROVE  FlattenSeq(q) \in Seq(R) /\ InTurn(FlattenSeq(q), q, n, c)
<1> USE DEF InTurn
<1>1. CASE n = 0
  <2>1. q \in [1..0 -> R]
    BY <1>1
  <2>2. q \in Seq(R) /\ Len(q) = 0
    <3>1. q \in Seq(R)
      BY <2>1
    <3> QED BY <2>1, <3>1, LenProperties
  <2>3. FlattenSeq(q) = q
    BY <2>2 DEF FlattenSeq
  <2> QED BY <1>1, <2>2, <2>3
<1>2. CASE n # 0
  <2>1. PICK f \in [1..n -> Seq(R)] : Flattens(f, q, n) /\ FlattenSeq(q) = f[n]
    BY <1>2, FlattenIs
  <2> DEFINE S == Seq(R)
             Holds(m) == /\ Len(f[m]) = m * c
                         /\ \A k \in 1..m : \A j \in 1..c : f[m][(k - 1) * c + j] = q[k][j]
             E == {m \in Nat : m \in 1..n => Holds(m)}
  <2>2. E \in SUBSET Nat /\ 0 \in E
    OBVIOUS
  <2>3. ASSUME NEW m \in E PROVE m + 1 \in E
    <3>0. m \in Nat /\ (m \in 1..n => Holds(m))
      <4> HIDE DEF Holds
      <4> QED OBVIOUS
    <3> SUFFICES ASSUME m + 1 \in 1..n PROVE Holds(m + 1)
      <4> HIDE DEF Holds
      <4> QED BY <3>0
    <3>1. CASE m = 0
      <4>1. f[1] = q[1]
        BY <2>1, <3>1 DEF Flattens
      <4>2. Len(f[1]) = c /\ \A j \in 1..c : f[1][j] = q[1][j]
        BY <3>1, <4>1
      <4>3. 1 * c = c /\ \A j \in 1..c : (1 - 1) * c + j = j
        OBVIOUS
      <4>4. ASSUME NEW k \in 1..1, NEW j \in 1..c PROVE f[1][(k - 1) * c + j] = q[k][j]
        <5>1. k = 1 /\ (k - 1) * c + j = j
          BY <4>3
        <5> QED BY <4>2, <5>1
      <4>5. Len(f[1]) = 1 * c
        BY <4>2, <4>3
      <4>6. Holds(1)
        BY <4>4, <4>5
      <4>7. m + 1 = 1
        BY <3>1
      <4> HIDE DEF Holds
      <4> QED BY <4>6, <4>7
    <3>2. CASE m # 0
      <4>1. Holds(m)
        BY <3>0, <3>2
      <4>2. f[m + 1] = f[m] \o q[m + 1]
        <5> DEFINE i == m + 1
        <5>1. i - 1 = m /\ i # 1 /\ i \in 1..n
          BY <3>0, <3>2
        <5> HIDE DEF i
        <5>2. f[i] = f[m] \o q[i]
          BY <2>1, <5>1 DEF Flattens
        <5> QED BY <5>2 DEF i
      <4> DEFINE a == f[m]
                 b == q[m + 1]
                 l == m * c
      <4>3. a \in Seq(R) /\ b \in Seq(R) /\ Len(a) = l /\ Len(b) = c
        <5>1. m \in 1..n /\ m + 1 \in 1..n
          BY <3>0, <3>2
        <5> QED BY <2>1, <4>1, <5>1
      <4>4. l \in Nat /\ (m + 1) * c = l + c
        BY <3>0, SeriesTimes
      <4> HIDE DEF a, b, l
      <4>5. /\ Len(a \o b) = l + c
            /\ \A i \in 1..(l + c) : (a \o b)[i] = IF i <= l THEN a[i] ELSE b[i - l]
        BY <4>3, ConcatProperties
      <4>6. ASSUME NEW k \in 1..(m + 1), NEW j \in 1..c
            PROVE  (a \o b)[(k - 1) * c + j] = q[k][j]
        <5>1. CASE k <= m
          <6>1. (k - 1) * c + j \in 1..l
            <7>1. k \in 1..m /\ k - 1 \in Nat /\ j <= c /\ j \in Nat /\ j >= 1
              BY <3>0, <5>1
            <7>2. (k - 1) * c \in Nat /\ (k - 1) * c + c <= m * c
              <8>1. m \in Nat /\ k \in 1..m
                BY <3>0, <7>1
              <8>2. \A i \in 1..m : (i - 1) * c \in Nat /\ (i - 1) * c + c <= m * c
                BY <8>1, SeriesTimes
              <8> QED BY <8>1, <8>2
            <7> DEFINE z == (k - 1) * c
            <7>3. z \in Nat /\ z + c <= l
              BY <7>2 DEF l
            <7> HIDE DEF z
            <7>4. z + j \in 1..l
              BY <4>4, <7>1, <7>3
            <7> QED BY <7>4 DEF z
          <6>2. (a \o b)[(k - 1) * c + j] = a[(k - 1) * c + j]
            <7> DEFINE i == (k - 1) * c + j
            <7>1. i \in 1..l
              BY <6>1
            <7> HIDE DEF i
            <7>2. i \in 1..(l + c) /\ i <= l
              BY <4>4, <7>1
            <7>3. (a \o b)[i] = a[i]
              BY <4>5, <7>2
            <7> QED BY <7>3 DEF i
          <6>3. k \in 1..m
            BY <3>0, <5>1
          <6> QED BY <4>1, <6>2, <6>3 DEF a
        <5>2. CASE ~(k <= m)
          <6>1. k = m + 1 /\ (k - 1) * c + j = l + j
            BY <3>0, <5>2 DEF l
          <6>2. (a \o b)[l + j] = b[j]
            <7>1. l + j \in 1..(l + c) /\ ~(l + j <= l) /\ (l + j) - l = j
              BY <4>4
            <7> QED BY <4>5, <7>1
          <6> QED BY <6>1, <6>2 DEF b
        <5> QED BY <5>1, <5>2
      <4> QED BY <4>2, <4>4, <4>5, <4>6, ZenonT(60) DEF a, b
    <3> QED BY <3>1, <3>2
  <2> HIDE DEF E, Holds
  <2>4. E = Nat
    BY <2>2, <2>3, AllNumbers
  <2>5. Holds(n)
    <3>1. n \in 1..n
      BY <1>2
    <3> QED BY <2>4, <3>1 DEF E
  <2>6. f[n] \in Seq(R)
    <3> HIDE DEF S
    <3> QED BY <1>2, <2>1
  <2> QED BY <2>1, <2>5, <2>6 DEF Holds
<1> QED BY <1>1, <1>2

-----------------------------------------------------------------------------
(* DiskCache: the dataset file and its index.                               *)

Size == Cardinality(Instrument)

TableRows == [day : Int, seen : Int, of : Instrument]
QuerySpans     == [day : Int, start : Int, end : Int]

\* The entry of day d in the index.
EntryOf(d) == [day |-> d, start |-> (d - 1) * Size, end |-> d * Size]

RowsFit(rows, last) ==
    /\ rows \in Seq(TableRows) /\ Len(rows) = last * Size
    /\ \A d \in 1..last : \A j \in 1..Size : Good(rows[(d - 1) * Size + j], d, last)

IndexFits(index, last) ==
    /\ index \in Seq(QuerySpans) /\ Len(index) = last
    /\ \A d \in 1..last : index[d] = EntryOf(d)

TableFits ==
    /\ table.last \in Nat /\ table.last <= days
    /\ RowsFit(table.rows, table.last) /\ IndexFits(table.index, table.last)
    /\ \E n \in 0..table.last : IndexFits(held, n)

TableInv == ~lagging => TableFits

LEMMA SizeIs == Size \in Nat \ {0} /\ IsFiniteSet(Instrument)
BY CacheAssumption, FS_CardinalityType, FS_EmptySet DEF Size, CacheAssumption

LEMMA Distributes ==
    ASSUME NEW a \in Nat, NEW b \in Nat, NEW c \in Nat
    PROVE  (a + b) * c = a * c + b * c /\ a * c \in Nat /\ b * c \in Nat
OBVIOUS

\* A place in a table has a day and a place among the rows of the day.
LEMMA PlaceIn ==
    ASSUME NEW n \in Nat, NEW c \in Nat, NEW m \in 1..(n * c)
    PROVE  \E k \in 1..n, j \in 1..c : m = (k - 1) * c + j
<1> DEFINE E == {x \in Nat : \A y \in 1..(x * c) : \E k \in 1..x, j \in 1..c : y = (k - 1) * c + j}
<1>1. E \in SUBSET Nat /\ 0 \in E
  <2>1. 0 * c = 0
    OBVIOUS
  <2> QED BY <2>1
<1>2. ASSUME NEW x \in E PROVE x + 1 \in E
  <2> SUFFICES ASSUME NEW y \in 1..((x + 1) * c)
               PROVE  \E k \in 1..(x + 1), j \in 1..c : y = (k - 1) * c + j
    OBVIOUS
  <2>1. x \in Nat /\ (x + 1) * c = x * c + c /\ x * c \in Nat
    BY Distributes
  <2>2. CASE y <= x * c
    <3>1. y \in 1..(x * c)
      BY <2>1, <2>2
    <3>2. PICK k \in 1..x, j \in 1..c : y = (k - 1) * c + j
      BY <3>1
    <3>3. k \in 1..(x + 1)
      BY <2>1
    <3> QED BY <3>2, <3>3
  <2>3. CASE ~(y <= x * c)
    <3> DEFINE z == x * c
    <3>1. z \in Nat /\ y \in 1..(z + c) /\ ~(y <= z)
      BY <2>1, <2>3
    <3> HIDE DEF z
    <3>2. y - z \in 1..c /\ y = z + (y - z)
      BY <3>1
    <3>3. x + 1 \in 1..(x + 1) /\ ((x + 1) - 1) * c = z
      BY <2>1 DEF z
    <3> QED BY <3>2, <3>3
  <2> QED BY <2>2, <2>3
<1> HIDE DEF E
<1>3. E = Nat
  BY <1>1, <1>2, AllNumbers
<1> QED BY <1>3 DEF E

\* Products with the size keep the order.
LEMMA SeriesOrderKept ==
    ASSUME NEW a \in Nat, NEW b \in Nat, NEW c \in Nat \ {0}
    PROVE  a <= b <=> a * c <= b * c
<1>1. a <= b => a * c <= b * c
  <2> SUFFICES ASSUME a <= b PROVE a * c <= b * c
    OBVIOUS
  <2>1. b - a \in Nat /\ b = a + (b - a)
    OBVIOUS
  <2>2. b * c = a * c + (b - a) * c /\ (b - a) * c \in Nat /\ a * c \in Nat
    BY <2>1, Distributes
  <2> QED BY <2>2
<1>2. ~(a <= b) => ~(a * c <= b * c)
  <2> SUFFICES ASSUME ~(a <= b) PROVE ~(a * c <= b * c)
    OBVIOUS
  <2>1. (a - b) - 1 \in Nat /\ a = b + (1 + ((a - b) - 1))
    OBVIOUS
  <2> DEFINE e == (a - b) - 1
  <2> HIDE DEF e
  <2>2. e \in Nat /\ a = b + (1 + e) /\ 1 + e \in Nat
    BY <2>1 DEF e
  <2>3. a * c = b * c + (1 + e) * c /\ b * c \in Nat
    BY <2>2, Distributes
  <2>4. (1 + e) * c = 1 * c + e * c /\ e * c \in Nat /\ 1 * c = c
    BY <2>2, Distributes
  <2> DEFINE p == b * c
             q == e * c
  <2>5. a * c = p + (c + q) /\ p \in Nat /\ q \in Nat
    BY <2>3, <2>4
  <2> HIDE DEF p, q
  <2>6. ~(p + (c + q) <= p)
    BY <2>5
  <2> QED BY <2>5, <2>6 DEF p
<1> QED BY <1>1, <1>2

\* Up to date, each instrument has a row on each day, as good as it can be.
LEMMA RowsOfIs ==
    ASSUME DiskShape, AllBins, NEW d \in 1..days
    PROVE  /\ RowsOf(d) \in Seq(TableRows) /\ Len(RowsOf(d)) = Size
           /\ \A j \in 1..Size : RowsOf(d)[j].day = d /\ RowsOf(d)[j].seen = Smaller(d + Lookahead, days)
<1> DEFINE q == SetToSeq(Instrument)
           s == [j \in 1..Size |-> [day |-> d, of |-> q[j], seen |-> Smaller(d + Lookahead, days)]]
<1>1. {i \in Instrument : bins[i] >= d} = Instrument
  BY DEF DiskShape, AllBins
<1>2. q \in [1..Size -> Instrument]
  <2>1. PICK f \in [1..Size -> Instrument] : IsInjective(f)
    <3>1. ExistsBijection(1..Size, Instrument)
      BY SizeIs, FS_CardinalityType DEF Size
    <3>2. PICK f : f \in Bijection(1..Size, Instrument)
      BY <3>1 DEF ExistsBijection
    <3> QED BY <3>2 DEF Bijection, Injection, IsInjective
  <2> QED BY <2>1 DEF SetToSeq, Size
<1>3. \A j \in 1..Size : q[j] \in Instrument /\ bins[q[j]] = days
  BY <1>2 DEF AllBins
<1>4. RowsOf(d) = s
  <2>1. RowsOf(d) = [j \in DOMAIN q |-> [day |-> d, of |-> q[j], seen |-> Smaller(d + Lookahead, bins[q[j]])]]
    BY <1>1 DEF RowsOf
  <2>2. DOMAIN q = 1..Size
    BY <1>2
  <2> HIDE DEF q
  <2> QED BY <1>3, <2>1, <2>2
<1>5. Smaller(d + Lookahead, days) \in Int
  BY CacheAssumption DEF CacheAssumption, DiskShape, Smaller
<1> HIDE DEF q
<1>6. s \in [1..Size -> TableRows]
  BY <1>3, <1>5 DEF TableRows
<1>7. s \in Seq(TableRows) /\ Len(s) = Size
  <2>1. Size \in Nat
    BY SizeIs
  <2> HIDE DEF s
  <2>2. s \in Seq(TableRows)
    BY <1>6, <2>1
  <2> QED BY <1>6, <2>1, <2>2, LenProperties
<1>8. \A j \in 1..Size : s[j].day = d /\ s[j].seen = Smaller(d + Lookahead, days)
  OBVIOUS
<1> HIDE DEF s
<1> QED BY <1>4, <1>7, <1>8

LEMMA DatasetIs ==
    ASSUME DiskShape, AllBins, NEW a \in 1..(days + 1)
    PROVE  /\ Dataset(a, days) \in Seq(TableRows) /\ Len(Dataset(a, days)) = (days + 1 - a) * Size
           /\ \A k \in 1..(days + 1 - a) : \A j \in 1..Size :
                 LET row == Dataset(a, days)[(k - 1) * Size + j] IN
                 row.day = a + k - 1 /\ row.seen = Smaller(a + k - 1 + Lookahead, days)
<1> DEFINE n == days + 1 - a
           q == [k \in 1..n |-> RowsOf(a + k - 1)]
<1>1. n \in Nat /\ \A k \in 1..n : a + k - 1 \in 1..days
  BY DEF DiskShape
<1>2. \A k \in 1..n : /\ RowsOf(a + k - 1) \in Seq(TableRows) /\ Len(RowsOf(a + k - 1)) = Size
                      /\ \A j \in 1..Size : /\ RowsOf(a + k - 1)[j].day = a + k - 1
                                            /\ RowsOf(a + k - 1)[j].seen = Smaller(a + k - 1 + Lookahead, days)
  BY <1>1, RowsOfIs
<1>3. q \in [1..n -> Seq(TableRows)] /\ \A k \in 1..n : Len(q[k]) = Size
  BY <1>2
<1>4. Dataset(a, days) = FlattenSeq(q)
  BY DEF Dataset
<1>5. \A k \in 1..n : q[k] = RowsOf(a + k - 1)
  OBVIOUS
<1> HIDE DEF q, n
<1>6. /\ FlattenSeq(q) \in Seq(TableRows) /\ Len(FlattenSeq(q)) = n * Size
      /\ \A k \in 1..n : \A j \in 1..Size : FlattenSeq(q)[(k - 1) * Size + j] = q[k][j]
  <2>1. Size \in Nat /\ n \in Nat
    BY <1>1, SizeIs
  <2> DEFINE R == TableRows
             c == Size
  <2>2. c \in Nat /\ n \in Nat /\ q \in [1..n -> Seq(R)] /\ \A k \in 1..n : Len(q[k]) = c
    BY <1>3, <2>1
  <2> HIDE DEF R, c
  <2>3. FlattenSeq(q) \in Seq(R) /\ InTurn(FlattenSeq(q), q, n, c)
    BY <2>2, FlatIs
  <2> QED BY <2>3 DEF R, c, InTurn
<1>7. ASSUME NEW k \in 1..n, NEW j \in 1..Size
      PROVE  /\ Dataset(a, days)[(k - 1) * Size + j].day = a + k - 1
             /\ Dataset(a, days)[(k - 1) * Size + j].seen = Smaller(a + k - 1 + Lookahead, days)
  <2>1. Dataset(a, days)[(k - 1) * Size + j] = RowsOf(a + k - 1)[j]
    BY <1>4, <1>5, <1>6
  <2> QED BY <1>2, <2>1
<1> QED BY <1>4, <1>6, <1>7 DEF n

\* n days from a on, with a row of each instrument.
DaysInTurn(rows, a, n) ==
    /\ rows \in Seq(TableRows) /\ Len(rows) = n * Size
    /\ \A k \in 1..n : \A j \in 1..Size : rows[(k - 1) * Size + j].day = a + k - 1

\* The rows up to a day are the first ones.
LEMMA RowsUpTo ==
    ASSUME NEW rows, NEW a \in Int, NEW n \in Nat, DaysInTurn(rows, a, n), NEW k \in 1..n
    PROVE  {m \in DOMAIN rows : rows[m].day <= a + k - 1} = 1..(k * Size)
<1> DEFINE c == Size
<1>1. c \in Nat \ {0}
  BY SizeIs
<1>2. DOMAIN rows = 1..(n * c)
  BY LenProperties DEF DaysInTurn
<1>3. \A i \in 1..n : \A j \in 1..c : rows[(i - 1) * c + j].day = a + i - 1
  BY DEF DaysInTurn
<1> HIDE DEF c
<1>4. k * c \in Nat /\ n * c \in Nat /\ k * c <= n * c
  <2>1. k \in Nat /\ n \in Nat /\ k <= n
    OBVIOUS
  <2>2. k * c <= n * c
    BY <1>1, <2>1, SeriesOrderKept
  <2> QED BY <1>1, <2>1, <2>2, SeriesTimes
<1>5. ASSUME NEW m \in 1..(n * c)
      PROVE  rows[m].day <= a + k - 1 <=> m <= k * c
  <2>1. PICK i \in 1..n, j \in 1..c : m = (i - 1) * c + j
    BY <1>1, PlaceIn
  <2>2. rows[m].day = a + i - 1
    BY <1>3, <2>1
  <2> DEFINE z == (i - 1) * c
             y == k * c
  <2>3. i - 1 \in Nat /\ k \in Nat /\ i \in Nat
    OBVIOUS
  <2>4. z \in Nat /\ y \in Nat /\ i * c = z + c
    <3>1. ((i - 1) + 1) * c = (i - 1) * c + c /\ (i - 1) * c \in Nat
      BY <1>1, <2>3, SeriesTimes
    <3>2. (i - 1) + 1 = i
      BY <2>3
    <3> QED BY <1>4, <3>1, <3>2
  <2>5. i <= k => z + c <= y
    BY <1>1, <2>3, <2>4, SeriesOrderKept
  <2>6. ~(i <= k) => y <= z
    <3> SUFFICES ASSUME ~(i <= k) PROVE y <= z
      OBVIOUS
    <3>1. k <= i - 1
      BY <2>3
    <3> QED BY <1>1, <2>3, <3>1, SeriesOrderKept
  <2> HIDE DEF z, y
  <2>7. i <= k <=> z + j <= y
    BY <1>1, <2>3, <2>4, <2>5, <2>6
  <2>8. m = z + j
    BY <2>1 DEF z
  <2>9. m <= k * c <=> i <= k
    BY <2>7, <2>8 DEF y
  <2>10. a + i - 1 <= a + k - 1 <=> i <= k
    OBVIOUS
  <2> QED BY <2>2, <2>9, <2>10
<1> DEFINE u == k * c
           t == n * c
<1>6. u \in Nat /\ t \in Nat /\ u <= t /\ DOMAIN rows = 1..t
      /\ \A m \in 1..t : rows[m].day <= a + k - 1 <=> m <= u
  BY <1>2, <1>4, <1>5
<1> HIDE DEF u, t
<1>7. {m \in DOMAIN rows : rows[m].day <= a + k - 1} = 1..u
  BY <1>6
<1> QED BY <1>7 DEF u, c

LEMMA DaysOfRows ==
    ASSUME NEW rows, NEW a \in Int, NEW n \in Nat, DaysInTurn(rows, a, n)
    PROVE  {rows[m].day : m \in DOMAIN rows} = a..(a + n - 1)
<1> DEFINE c == Size
           t == n * c
<1>1. c \in Nat \ {0}
  BY SizeIs
<1>2. DOMAIN rows = 1..t
  BY LenProperties DEF DaysInTurn
<1>3. \A i \in 1..n : \A j \in 1..c : rows[(i - 1) * c + j].day = a + i - 1
  BY DEF DaysInTurn
<1> HIDE DEF c
<1>4. ASSUME NEW m \in 1..t PROVE rows[m].day \in a..(a + n - 1)
  <2>1. PICK i \in 1..n, j \in 1..c : m = (i - 1) * c + j
    BY <1>1, PlaceIn
  <2>2. rows[m].day = a + i - 1
    BY <1>3, <2>1
  <2> QED BY <2>2
<1>5. ASSUME NEW d \in a..(a + n - 1) PROVE \E m \in 1..t : rows[m].day = d
  <2> DEFINE i == d + 1 - a
             z == (i - 1) * c
  <2>1. i \in 1..n /\ 1 \in 1..c
    BY <1>1
  <2>2. rows[z + 1].day = a + i - 1
    BY <1>3, <2>1
  <2>3. a + i - 1 = d
    OBVIOUS
  <2> HIDE DEF i
  <2>4. z \in Nat /\ z + c <= t /\ t \in Nat
    BY <1>1, <2>1, SeriesTimes
  <2> HIDE DEF z, t
  <2>5. z + 1 \in 1..t
    BY <1>1, <2>4
  <2> QED BY <2>2, <2>3, <2>5
<1> HIDE DEF t
<1> QED BY <1>2, <1>4, <1>5

Bounds(a, n, first) ==
    [k \in 1..n |-> [day |-> a + k - 1, start |-> first + (k - 1) * Size, end |-> first + k * Size]]

LEMMA IndexIs ==
    ASSUME NEW rows, NEW a \in Int, NEW n \in Nat, DaysInTurn(rows, a, n), NEW first \in Nat
    PROVE  BuildIndex(rows, first) = Bounds(a, n, first)
<1> DEFINE present == Sorted({rows[k].day : k \in DOMAIN rows})
           upTo(d) == first + Cardinality({k \in DOMAIN rows : rows[k].day <= d})
<1>1. present = [k \in 1..n |-> a + k - 1]
  <2>1. {rows[k].day : k \in DOMAIN rows} = a..(a + n - 1)
    BY DaysOfRows
  <2>2. a + n - 1 \in Int /\ a <= (a + n - 1) + 1 /\ (a + n - 1) + 1 - a = n
    OBVIOUS
  <2>3. Sorted(a..(a + n - 1)) = [k \in 1..n |-> a + k - 1]
    <3> DEFINE b == a + n - 1
    <3>1. b \in Int /\ a <= b + 1 /\ b + 1 - a = n
      BY <2>2
    <3> HIDE DEF b
    <3>2. Sorted(a..b) = [k \in 1..n |-> a + k - 1]
      BY <3>1, SortedInterval
    <3> QED BY <3>2 DEF b
  <2> QED BY <2>1, <2>3
<1>2. ASSUME NEW k \in 1..n PROVE upTo(a + k - 1) = first + k * Size
  <2>1. {m \in DOMAIN rows : rows[m].day <= a + k - 1} = 1..(k * Size)
    BY RowsUpTo
  <2>2. k * Size \in Nat
    BY SizeIs, SeriesTimes
  <2>3. Cardinality(1..(k * Size)) = k * Size
    <3> DEFINE u == k * Size
    <3> HIDE DEF u
    <3>1. u \in Nat => Cardinality(1..u) = u
      BY FS_Interval
    <3> QED BY <2>2, <3>1 DEF u
  <2> QED BY <2>1, <2>3
<1> DEFINE entry(k) == [day |-> present[k],
                        start |-> IF k = 1 THEN first ELSE upTo(present[k - 1]),
                        end |-> upTo(present[k])]
<1>3. BuildIndex(rows, first) = [k \in DOMAIN present |-> entry(k)]
  BY DEF BuildIndex
<1> HIDE DEF upTo
<1>4. ASSUME NEW k \in 1..n
      PROVE  entry(k) = [day |-> a + k - 1, start |-> first + (k - 1) * Size, end |-> first + k * Size]
  <2>1. present[k] = a + k - 1 /\ upTo(present[k]) = first + k * Size
    BY <1>1, <1>2
  <2>2. (IF k = 1 THEN first ELSE upTo(present[k - 1])) = first + (k - 1) * Size
    <3>1. CASE k = 1
      <4>1. (k - 1) * Size = 0
        BY <3>1, SizeIs
      <4> QED BY <3>1, <4>1
    <3>2. CASE k # 1
      <4>1. k - 1 \in 1..n
        BY <3>2
      <4>2. present[k - 1] = a + (k - 1) - 1
        BY <1>1, <4>1
      <4>3. upTo(a + (k - 1) - 1) = first + (k - 1) * Size
        BY <1>2, <4>1
      <4> QED BY <3>2, <4>2, <4>3
    <3> QED BY <3>1, <3>2
  <2> QED BY <2>1, <2>2
<1>5. DOMAIN present = 1..n
  BY <1>1
<1> HIDE DEF present, entry
<1> QED BY <1>3, <1>4, <1>5 DEF Bounds

LEMMA BoundsIs ==
    ASSUME NEW a \in Int, NEW n \in Nat, NEW first \in Nat
    PROVE  /\ Bounds(a, n, first) \in Seq(QuerySpans) /\ Len(Bounds(a, n, first)) = n
           /\ \A k \in 1..n : Bounds(a, n, first)[k] =
                 [day |-> a + k - 1, start |-> first + (k - 1) * Size, end |-> first + k * Size]
<1> DEFINE s == Bounds(a, n, first)
<1>1. \A k \in 1..n : s[k] = [day |-> a + k - 1, start |-> first + (k - 1) * Size, end |-> first + k * Size]
  BY DEF Bounds
<1>2. s \in [1..n -> QuerySpans]
  <2>1. \A k \in 1..n : k * Size \in Nat /\ (k - 1) * Size \in Nat
    <3> SUFFICES ASSUME NEW k \in 1..n PROVE k * Size \in Nat /\ (k - 1) * Size \in Nat
      OBVIOUS
    <3>1. k \in Nat /\ k - 1 \in Nat /\ Size \in Nat
      BY SizeIs
    <3> QED BY <3>1, SeriesTimes
  <2>2. \A k \in 1..n : first + k * Size \in Int /\ first + (k - 1) * Size \in Int /\ a + k - 1 \in Int
    BY <2>1
  <2>3. \A k \in 1..n : s[k] \in QuerySpans
    <3> SUFFICES ASSUME NEW k \in 1..n PROVE s[k] \in QuerySpans
      OBVIOUS
    <3> DEFINE e == a + k - 1
               f == first + (k - 1) * Size
               g == first + k * Size
    <3>1. e \in Int /\ f \in Int /\ g \in Int
      BY <2>2
    <3>2. s[k] = [day |-> e, start |-> f, end |-> g]
      BY <1>1
    <3> HIDE DEF e, f, g, s
    <3> QED BY <3>1, <3>2 DEF QuerySpans
  <2>4. s = [k \in 1..n |-> s[k]]
    BY DEF Bounds
  <2> HIDE DEF s
  <2> QED BY <2>3, <2>4
<1> HIDE DEF s
<1>3. s \in Seq(QuerySpans)
  BY <1>2
<1>4. Len(s) = n
  BY <1>2, <1>3, LenProperties
<1> QED BY <1>1, <1>3, <1>4 DEF s

\* The first days of one table, and then those of another.
LEMMA RowsJoin ==
    ASSUME NEW l \in Nat, NEW x \in 0..l, l <= days, DiskShape,
           NEW old \in Seq(TableRows), Len(old) = l * Size,
           \A d \in 1..x : \A j \in 1..Size : Good(old[(d - 1) * Size + j], d, days),
           NEW fresh, DaysInTurn(fresh, x + 1, days - x),
           \A k \in 1..(days - x) : \A j \in 1..Size :
              fresh[(k - 1) * Size + j].seen = Smaller(x + k + Lookahead, days)
    PROVE  RowsFit(SubSeq(old, 1, x * Size) \o fresh, days)
<1> DEFINE c == Size
           kept == SubSeq(old, 1, x * c)
           R == TableRows
           u == x * c
           y == days - x
           v == y * c
<1>1. c \in Nat \ {0} /\ x \in Nat /\ y \in Nat /\ days \in Nat /\ Lookahead \in Nat
  BY SizeIs, CacheAssumption DEF CacheAssumption, DiskShape
<1>2. u \in Nat /\ v \in Nat /\ days * c = u + v
  <2>1. days = x + y
    BY <1>1
  <2>2. (x + y) * c = x * c + y * c /\ x * c \in Nat /\ y * c \in Nat
    <3> HIDE DEF c, y
    <3> QED BY <1>1, Distributes
  <2> QED BY <2>1, <2>2
<1>3. u <= l * c
  <2>1. x <= l
    OBVIOUS
  <2> HIDE DEF c
  <2> QED BY <1>1, <2>1, SeriesOrderKept
<1>4. /\ kept \in Seq(R) /\ Len(kept) = u /\ \A i \in 1..u : kept[i] = old[i]
  <2>1. Len(old) = l * c /\ old \in Seq(R) /\ l * c \in Int
    <3>1. l * c \in Nat
      <4> HIDE DEF c
      <4> QED BY <1>1, SeriesTimes
    <3> QED BY <3>1
  <2> DEFINE t == l * c
  <2>2. t \in Int /\ u <= t /\ Len(old) = t
    BY <1>3, <2>1
  <2> HIDE DEF R, u, t
  <2>3. \A i \in 1..u : old[i] \in R
    <3> SUFFICES ASSUME NEW i \in 1..u PROVE old[i] \in R
      OBVIOUS
    <3>1. i \in 1..Len(old)
      BY <1>2, <2>2
    <3> QED BY <2>1, <3>1, ElementOfSeq
  <2>4. /\ SubSeq(old, 1, u) \in Seq(R) /\ Len(SubSeq(old, 1, u)) = IF 1 <= u THEN u - 1 + 1 ELSE 0
        /\ \A i \in 1..(u - 1 + 1) : SubSeq(old, 1, u)[i] = old[1 + i - 1]
    BY <1>2, <2>3, SubSeqProperties
  <2>5. (IF 1 <= u THEN u - 1 + 1 ELSE 0) = u /\ u - 1 + 1 = u /\ \A i \in 1..u : 1 + i - 1 = i
    BY <1>2
  <2>6. kept = SubSeq(old, 1, u)
    BY DEF u
  <2> QED BY <2>4, <2>5, <2>6
<1>5. fresh \in Seq(R) /\ Len(fresh) = v
  BY DEF DaysInTurn
<1> DEFINE s == kept \o fresh
<1>6. /\ s \in Seq(R) /\ Len(s) = u + v
      /\ \A i \in 1..u + v : s[i] = IF i <= u THEN kept[i] ELSE fresh[i - u]
  <2> HIDE DEF R, kept, u, v
  <2>1. /\ kept \o fresh \in Seq(R) /\ Len(kept \o fresh) = Len(kept) + Len(fresh)
        /\ \A i \in 1 .. Len(kept) + Len(fresh) : (kept \o fresh)[i] =
              IF i <= Len(kept) THEN kept[i] ELSE fresh[i - Len(kept)]
    BY <1>4, <1>5, ConcatProperties
  <2> QED BY <1>4, <1>5, <2>1
<1>7. ASSUME NEW d \in 1..days, NEW j \in 1..c PROVE Good(s[(d - 1) * c + j], d, days)
  <2> DEFINE z == (d - 1) * c
  <2>1. d \in Nat /\ d - 1 \in Nat /\ d <= days
    BY <1>1
  <2>2. z \in Nat /\ z + c = d * c
    <3>1. ((d - 1) + 1) * c = (d - 1) * c + c /\ (d - 1) * c \in Nat
      <4> HIDE DEF c
      <4> QED BY <1>1, <2>1, SeriesTimes
    <3>2. (d - 1) + 1 = d
      BY <2>1
    <3> QED BY <3>1, <3>2
  <2>3. d * c <= days * c
    <3> HIDE DEF c
    <3> QED BY <1>1, <2>1, SeriesOrderKept
  <2>4. z + j \in 1..u + v
    <3>1. z + c <= u + v
      BY <1>2, <2>2, <2>3
    <3> HIDE DEF z, u, v, c
    <3> QED BY <1>1, <1>2, <2>2, <3>1
  <2>5. CASE d <= x
    <3>1. z + c <= u
      <4>1. d * c <= x * c
        <5> HIDE DEF c
        <5> QED BY <1>1, <2>1, <2>5, SeriesOrderKept
      <4> QED BY <2>2, <4>1
    <3>2. s[z + j] = kept[z + j] /\ z + j \in 1..u
      <4>1. z + j \in 1..u
        <5> HIDE DEF z, u, c
        <5> QED BY <1>1, <1>2, <2>2, <3>1
      <4> HIDE DEF z, u, v, kept, s
      <4> QED BY <1>2, <1>6, <2>4, <4>1
    <3>3. s[z + j] = old[z + j]
      <4> HIDE DEF z, u, kept, s
      <4> QED BY <1>4, <3>2
    <3>4. d \in 1..x
      BY <1>1, <2>1, <2>5
    <3>5. Good(old[z + j], d, days)
      BY <3>4
    <3> HIDE DEF s
    <3> QED BY <3>3, <3>5
  <2>6. CASE ~(d <= x)
    <3> DEFINE k == d - x
               w == (k - 1) * c
    <3>1. k \in 1..y /\ k - 1 \in Nat
      BY <1>1, <2>1, <2>6
    <3>2. z = u + w /\ w \in Nat
      <4>1. d - 1 = x + (k - 1)
        BY <1>1, <2>1
      <4>2. (x + (k - 1)) * c = x * c + (k - 1) * c /\ (k - 1) * c \in Nat
        <5> HIDE DEF c, k
        <5> QED BY <1>1, <3>1, Distributes
      <4> QED BY <4>1, <4>2
    <3>3. s[z + j] = fresh[w + j]
      <4> HIDE DEF z, u, v, w, s, kept, c
      <4>1. j \in Nat /\ j >= 1
        BY <1>1
      <4>2. ~(z + j <= u) /\ (z + j) - u = w + j
        BY <1>2, <3>2, <4>1
      <4> QED BY <1>6, <2>4, <4>2
    <3>4. fresh[w + j].day = (x + 1) + k - 1 /\ fresh[w + j].seen = Smaller(x + k + Lookahead, days)
      BY <3>1 DEF DaysInTurn
    <3>5. (x + 1) + k - 1 = d /\ x + k + Lookahead = d + Lookahead
      BY <1>1, <2>1
    <3>6. Smaller(d + Lookahead, days) \in Int
      BY <1>1, <2>1 DEF Smaller
    <3> HIDE DEF s, k, w, z
    <3>7. s[z + j].day = d /\ s[z + j].seen = Smaller(d + Lookahead, days)
      BY <3>3, <3>4, <3>5
    <3>8. Good(s[z + j], d, days)
      BY <3>6, <3>7 DEF Good
    <3> QED BY <3>8 DEF z
  <2> QED BY <2>5, <2>6
<1>8. Len(s) = days * c
  BY <1>2, <1>6
<1> HIDE DEF s, R, kept
<1> QED BY <1>6, <1>7, <1>8 DEF RowsFit, R, s, kept

\* A dataset is one row of each instrument on each day.
LEMMA DatasetInTurn ==
    ASSUME DiskShape, AllBins, NEW x \in 0..days
    PROVE  /\ DaysInTurn(Dataset(x + 1, days), x + 1, days - x)
           /\ \A k \in 1..(days - x) : \A j \in 1..Size :
                 Dataset(x + 1, days)[(k - 1) * Size + j].seen = Smaller(x + k + Lookahead, days)
<1>1. x + 1 \in 1..(days + 1) /\ days + 1 - (x + 1) = days - x /\ \A k \in 1..(days - x) : x + 1 + k - 1 = x + k
  BY DEF DiskShape
<1> DEFINE a == x + 1
           y == days - x
<1>2. a \in 1..(days + 1) /\ days + 1 - a = y /\ \A k \in 1..y : a + k - 1 = x + k
  BY <1>1
<1> HIDE DEF a, y
<1>3. /\ Dataset(a, days) \in Seq(TableRows) /\ Len(Dataset(a, days)) = y * Size
      /\ \A k \in 1..y : \A j \in 1..Size :
            /\ Dataset(a, days)[(k - 1) * Size + j].day = a + k - 1
            /\ Dataset(a, days)[(k - 1) * Size + j].seen = Smaller(a + k - 1 + Lookahead, days)
  BY <1>2, DatasetIs
<1>4. \A k \in 1..y : \A j \in 1..Size :
         Dataset(a, days)[(k - 1) * Size + j].seen = Smaller(x + k + Lookahead, days)
  BY <1>2, <1>3
<1>5. DaysInTurn(Dataset(a, days), a, y)
  BY <1>3 DEF DaysInTurn
<1> QED BY <1>4, <1>5 DEF a, y

LEMMA TableInits == CacheInit => TableInv
<1> SUFFICES ASSUME CacheInit PROVE TableFits
  BY DEF TableInv
<1>1. table.last = 0 /\ table.rows = <<>> /\ table.index = <<>> /\ held = <<>> /\ days = 1
  BY DEF CacheInit
<1>2. 0 * Size = 0
  BY SizeIs
<1>3. RowsFit(<<>>, 0)
  BY <1>2 DEF RowsFit
<1>4. IndexFits(<<>>, 0)
  BY DEF IndexFits
<1>5. 0 \in 0..0
  OBVIOUS
<1> QED BY <1>1, <1>3, <1>4, <1>5 DEF TableFits

\* Steps that leave the table and its index alone.
LEMMA TableStays ==
    ASSUME DiskShape, TableInv, UNCHANGED table, days' \in Int, days' >= days, lagging \in BOOLEAN,
           lagging' \in BOOLEAN, lagging => lagging',
           TableFits => \E n \in 0..table.last : IndexFits(held', n)
    PROVE  TableInv'
<1> SUFFICES ASSUME ~lagging' PROVE TableFits'
  BY DEF TableInv
<1>1. TableFits
  BY DEF TableInv
<1>2. \E n \in 0..table.last : IndexFits(held', n)
  BY <1>1
<1>3. table.last \in Nat /\ table.last <= days'
  BY <1>1 DEF TableFits, DiskShape
<1>4. (\E n \in 0..table.last : IndexFits(held, n))' <=> \E n \in 0..table.last : IndexFits(held', n)
  BY DEF IndexFits, EntryOf, Size
<1>5. RowsFit(table.rows, table.last)' /\ IndexFits(table.index, table.last)'
  BY <1>1 DEF TableFits, RowsFit, IndexFits, EntryOf, Size, Good, Smaller
<1> QED BY <1>2, <1>3, <1>4, <1>5 DEF TableFits

LEMMA GenDatasetStep == ASSUME DiskShape, TableInv, GenDatasetCache PROVE TableInv'
<1> DEFINE rows == Dataset(1, days)
           index == BuildIndex(rows, 0)
<1> SUFFICES ASSUME ~lagging' PROVE TableFits'
  BY DEF TableInv
<1>1. /\ table' = [last |-> days, rows |-> rows, index |-> index] /\ held' = index
      /\ days' = days /\ AllBins
  BY DEF GenDatasetCache
<1>2. days \in Nat /\ 0 \in 0..days /\ 0 + 1 = 1 /\ days - 0 = days
  BY DEF DiskShape
<1>3. /\ DaysInTurn(rows, 1, days)
      /\ \A k \in 1..days : \A j \in 1..Size : rows[(k - 1) * Size + j].seen = Smaller(0 + k + Lookahead, days)
  <2>1. /\ DaysInTurn(Dataset(0 + 1, days), 0 + 1, days - 0)
        /\ \A k \in 1..(days - 0) : \A j \in 1..Size :
              Dataset(0 + 1, days)[(k - 1) * Size + j].seen = Smaller(0 + k + Lookahead, days)
    BY <1>1, <1>2, DatasetInTurn
  <2> QED BY <1>2, <2>1
<1> HIDE DEF rows
<1>4. RowsFit(rows, days)
  <2>1. ASSUME NEW d \in 1..days, NEW j \in 1..Size PROVE Good(rows[(d - 1) * Size + j], d, days)
    <3>1. rows[(d - 1) * Size + j].day = 1 + d - 1
      BY <1>3 DEF DaysInTurn
    <3>2. rows[(d - 1) * Size + j].seen = Smaller(0 + d + Lookahead, days)
      BY <1>3
    <3>3. 1 + d - 1 = d /\ 0 + d + Lookahead = d + Lookahead /\ Smaller(d + Lookahead, days) \in Int
      BY <1>2, CacheAssumption DEF CacheAssumption, Smaller
    <3> DEFINE row == rows[(d - 1) * Size + j]
    <3>4. row.day = d /\ row.seen = Smaller(d + Lookahead, days)
      BY <3>1, <3>2, <3>3
    <3> HIDE DEF row
    <3>5. Good(row, d, days)
      BY <3>3, <3>4 DEF Good
    <3> QED BY <3>5 DEF row
  <2> QED BY <1>3, <2>1 DEF RowsFit, DaysInTurn
<1>5. IndexFits(index, days)
  <2>1. index = Bounds(1, days, 0)
    BY <1>2, <1>3, IndexIs
  <2>2. /\ Bounds(1, days, 0) \in Seq(QuerySpans) /\ Len(Bounds(1, days, 0)) = days
        /\ \A k \in 1..days : Bounds(1, days, 0)[k] =
              [day |-> 1 + k - 1, start |-> 0 + (k - 1) * Size, end |-> 0 + k * Size]
    BY <1>2, BoundsIs
  <2>3. ASSUME NEW k \in 1..days PROVE Bounds(1, days, 0)[k] = EntryOf(k)
    <3>1. k \in Nat /\ k - 1 \in Nat /\ Size \in Nat
      BY SizeIs
    <3>2. (k - 1) * Size \in Nat /\ k * Size \in Nat
      BY <3>1, SeriesTimes
    <3> DEFINE e == (k - 1) * Size
               f == k * Size
    <3>3. Bounds(1, days, 0)[k] = [day |-> 1 + k - 1, start |-> 0 + e, end |-> 0 + f] /\ e \in Nat /\ f \in Nat
      BY <2>2, <3>2
    <3>4. EntryOf(k) = [day |-> k, start |-> e, end |-> f]
      BY DEF EntryOf
    <3> HIDE DEF e, f
    <3> QED BY <3>3, <3>4
  <2> HIDE DEF index
  <2> QED BY <2>1, <2>2, <2>3 DEF IndexFits
<1> HIDE DEF index
<1>6. table'.last = days /\ table'.rows = rows /\ table'.index = index
  BY <1>1
<1>7. (\E n \in 0..table.last : IndexFits(held, n))'
  <2>1. IndexFits(held', days) /\ days \in 0..table'.last
    BY <1>1, <1>2, <1>5, <1>6
  <2> QED BY <2>1 DEF IndexFits, EntryOf, Size
<1>8. RowsFit(table.rows, table.last)' /\ IndexFits(table.index, table.last)'
  BY <1>4, <1>5, <1>6 DEF RowsFit, IndexFits, EntryOf, Size, Good, Smaller
<1>9. (table.last \in Nat /\ table.last <= days)'
  BY <1>1, <1>2, <1>6
<1> QED BY <1>7, <1>8, <1>9 DEF TableFits

\* The rows of the last r days, counted in the index.
LEMMA LinesIs ==
    ASSUME NEW rows, NEW index, NEW l \in Nat, NEW r \in 0..l, RowsFit(rows, l), IndexFits(index, l)
    PROVE  Cardinality({m \in DOMAIN rows : \E k \in DOMAIN index :
              index[k].day >= (l + 1) - r /\ m \in index[k].start + 1 .. index[k].end}) = r * Size
<1> DEFINE c == Size
           x == l - r
           u == x * c
           v == r * c
           chosen(m) == \E k \in DOMAIN index :
              index[k].day >= (l + 1) - r /\ m \in index[k].start + 1 .. index[k].end
<1>1. c \in Nat \ {0} /\ x \in Nat /\ r \in Nat
  BY SizeIs
<1>2. u \in Nat /\ v \in Nat /\ l * c = u + v
  <2>1. l = x + r
    BY <1>1
  <2>2. (x + r) * c = x * c + r * c /\ x * c \in Nat /\ r * c \in Nat
    <3> HIDE DEF c, x
    <3> QED BY <1>1, Distributes
  <2> QED BY <2>1, <2>2
<1>3. DOMAIN rows = 1..(u + v)
  <2>1. DOMAIN rows = 1..Len(rows) /\ Len(rows) = l * c
    BY LenProperties DEF RowsFit
  <2> QED BY <1>2, <2>1
<1>4. DOMAIN index = 1..l /\ \A k \in 1..l : index[k] = EntryOf(k)
  BY LenProperties DEF IndexFits
<1>5. \A k \in 1..l : index[k].day = k /\ index[k].start = (k - 1) * c /\ index[k].end = k * c
  BY <1>4 DEF EntryOf
<1>6. \A k \in 1..l : k >= (l + 1) - r <=> k > x
  BY <1>1
<1>7. ASSUME NEW m \in 1..(u + v) PROVE chosen(m) <=> m > u
  <2>1. ASSUME chosen(m) PROVE m > u
    <3>1. PICK k \in 1..l : k > x /\ m \in (k - 1) * c + 1 .. k * c
      BY <1>4, <1>5, <1>6, <2>1
    <3>2. x <= k - 1 /\ k - 1 \in Nat
      BY <1>1, <3>1
    <3>3. u <= (k - 1) * c /\ (k - 1) * c \in Nat
      <4> HIDE DEF c, x
      <4> QED BY <1>1, <3>2, SeriesOrderKept, SeriesTimes
    <3> DEFINE z == (k - 1) * c
    <3>4. m >= z + 1 /\ u <= z /\ z \in Nat
      BY <3>1, <3>3
    <3> HIDE DEF z, u
    <3> QED BY <1>2, <3>4
  <2>2. ASSUME m > u PROVE chosen(m)
    <3>1. PICK k \in 1..l, j \in 1..c : m = (k - 1) * c + j
      <4>1. m \in 1..(l * c)
        BY <1>2
      <4> HIDE DEF c
      <4> QED BY <1>1, <4>1, PlaceIn
    <3>2. k - 1 \in Nat /\ k \in Nat
      OBVIOUS
    <3>3. (k - 1) * c \in Nat /\ k * c = (k - 1) * c + c
      <4>1. ((k - 1) + 1) * c = (k - 1) * c + c /\ (k - 1) * c \in Nat
        <5> HIDE DEF c
        <5> QED BY <1>1, <3>2, SeriesTimes
      <4>2. (k - 1) + 1 = k
        BY <3>2
      <4> QED BY <4>1, <4>2
    <3>4. k > x
      <4> SUFFICES ASSUME k <= x PROVE FALSE
        BY <1>1, <3>2
      <4>1. k * c <= x * c
        <5> HIDE DEF c, x
        <5> QED BY <1>1, <3>2, SeriesOrderKept
      <4> DEFINE z == (k - 1) * c
      <4>2. z + c <= u /\ z \in Nat /\ m = z + j
        BY <3>1, <3>3, <4>1
      <4> HIDE DEF z, u, c
      <4> QED BY <1>1, <1>2, <2>2, <4>2
    <3>5. m \in (k - 1) * c + 1 .. k * c
      <4> DEFINE z == (k - 1) * c
      <4>1. m = z + j /\ z \in Nat /\ k * c = z + c
        BY <3>1, <3>3
      <4>2. m \in z + 1 .. z + c
        <5> HIDE DEF z, c
        <5> QED BY <1>1, <4>1
      <4> QED BY <4>1, <4>2
    <3>6. index[k].day >= (l + 1) - r
      BY <1>5, <1>6, <3>4
    <3>7. m \in index[k].start + 1 .. index[k].end
      BY <1>5, <3>5
    <3> QED BY <1>4, <3>6, <3>7
  <2> HIDE DEF chosen
  <2> QED BY <2>1, <2>2
<1> HIDE DEF chosen, u, v
<1>8. {m \in DOMAIN rows : chosen(m)} = (u + 1)..(u + v)
  BY <1>2, <1>3, <1>7
<1>9. Cardinality((u + 1)..(u + v)) = v
  <2>1. Cardinality((u + 1)..(u + v)) = IF u + 1 > u + v THEN 0 ELSE (u + v) - (u + 1) + 1
    BY <1>2, FS_Interval
  <2> QED BY <1>2, <2>1
<1> QED BY <1>8, <1>9 DEF chosen, v

\* Entries for the new days after those of the old ones.
LEMMA IndexJoin ==
    ASSUME NEW l \in 1..days, DiskShape, NEW index, IndexFits(index, l)
    PROVE  IndexFits(index \o Bounds(l + 1, days - l, l * Size), days)
<1> DEFINE c == Size
           y == days - l
           u == l * c
           b == Bounds(l + 1, y, u)
           s == index \o b
<1>1. c \in Nat /\ y \in Nat /\ l \in Nat /\ days \in Nat /\ days = l + y
  BY SizeIs DEF DiskShape
<1>2. u \in Nat
  <2> HIDE DEF c
  <2> QED BY <1>1, SeriesTimes
<1>3. /\ b \in Seq(QuerySpans) /\ Len(b) = y
      /\ \A k \in 1..y : b[k] = [day |-> l + 1 + k - 1, start |-> u + (k - 1) * c, end |-> u + k * c]
  <2> DEFINE a == l + 1
  <2>1. a \in Int
    OBVIOUS
  <2> HIDE DEF u, y, a
  <2>2. /\ Bounds(a, y, u) \in Seq(QuerySpans) /\ Len(Bounds(a, y, u)) = y
        /\ \A k \in 1..y : Bounds(a, y, u)[k] =
              [day |-> a + k - 1, start |-> u + (k - 1) * Size, end |-> u + k * Size]
    BY <1>1, <1>2, <2>1, BoundsIs
  <2> QED BY <2>2 DEF a
<1>4. index \in Seq(QuerySpans) /\ Len(index) = l /\ \A d \in 1..l : index[d] = EntryOf(d)
  BY DEF IndexFits
<1> HIDE DEF b
<1>5. s \in Seq(QuerySpans) /\ Len(s) = days /\ \A i \in 1..days : s[i] = IF i <= l THEN index[i] ELSE b[i - l]
  <2> DEFINE R == QuerySpans
  <2>1. index \in Seq(R) /\ b \in Seq(R)
    BY <1>3, <1>4
  <2> HIDE DEF R, y
  <2>2. /\ s \in Seq(R) /\ Len(s) = Len(index) + Len(b)
        /\ \A i \in 1..Len(index) + Len(b) : s[i] = IF i <= Len(index) THEN index[i] ELSE b[i - Len(index)]
    BY <2>1, ConcatProperties
  <2> HIDE DEF s
  <2>3. Len(index) = l /\ Len(b) = y
    BY <1>3, <1>4
  <2> QED BY <1>1, <2>2, <2>3 DEF R
<1> HIDE DEF s
<1>6. ASSUME NEW d \in 1..days PROVE s[d] = EntryOf(d)
  <2>1. d \in Nat
    BY <1>1
  <2>2. CASE d <= l
    BY <1>1, <1>4, <1>5, <2>1, <2>2
  <2>3. CASE ~(d <= l)
    <3> DEFINE k == d - l
               p == (k - 1) * c
               q == k * c
    <3>1. k \in 1..y /\ k \in Nat /\ k - 1 \in Nat /\ l + 1 + k - 1 = d /\ d = l + k /\ d - 1 = l + (k - 1)
      BY <1>1, <2>1, <2>3
    <3>2. s[d] = b[k]
      BY <1>5, <2>3
    <3>3. b[k] = [day |-> l + 1 + k - 1, start |-> u + p, end |-> u + q]
      BY <1>3, <3>1
    <3>4. d * c = u + q
      <4>1. (l + k) * c = l * c + k * c
        <5> HIDE DEF c, k
        <5> QED BY <1>1, <3>1, Distributes
      <4> QED BY <3>1, <4>1
    <3>5. (d - 1) * c = u + p
      <4>1. (l + (k - 1)) * c = l * c + (k - 1) * c
        <5> HIDE DEF c, k
        <5> QED BY <1>1, <3>1, Distributes
      <4> QED BY <3>1, <4>1
    <3>6. EntryOf(d) = [day |-> d, start |-> u + p, end |-> u + q]
      BY <3>4, <3>5 DEF EntryOf
    <3> HIDE DEF k, p, q, u
    <3> QED BY <3>1, <3>2, <3>3, <3>6
  <2> QED BY <2>2, <2>3
<1> QED BY <1>5, <1>6 DEF IndexFits, s, b

LEMMA UpdateDatasetStep == ASSUME DiskShape, TableInv, UpdateDataset PROVE TableInv'
<1> DEFINE rows == table.rows
           index == table.index
           l == table.last
           r == RemoveN(Len(index))
           lines == Cardinality({m \in DOMAIN rows : \E k \in DOMAIN index :
                        index[k].day >= (l + 1) - r /\ m \in index[k].start + 1 .. index[k].end})
           x == l - r
           first == IF index = <<>> THEN 0 ELSE Last(index).end
           rows1 == SubSeq(rows, 1, Len(rows) - lines) \o Dataset((l + 1) - r, days)
           index1 == index \o BuildIndex(Dataset(l + 1, days), first)
<1> SUFFICES ASSUME ~lagging' PROVE TableFits'
  BY DEF TableInv
<1>1. /\ table' = [last |-> days, rows |-> rows1, index |-> index1]
      /\ held' = held /\ days' = days /\ AllBins /\ ~lagging /\ l \in 1..(days - 1)
  BY DEF UpdateDataset
<1>2. RowsFit(rows, l) /\ IndexFits(index, l) /\ \E n \in 0..l : IndexFits(held, n)
  BY <1>1 DEF TableInv, TableFits
<1>3. days \in Nat /\ l \in Nat /\ l <= days /\ l \in 1..days /\ l \in 0..days
  BY <1>1 DEF DiskShape
<1>4. /\ Len(index) = l /\ r \in 0..l /\ r \in Nat /\ x \in 0..l /\ x \in 0..days
      /\ r = IF Lookahead < l THEN Lookahead ELSE l
  <2>1. Len(index) = l
    BY <1>2 DEF IndexFits
  <2> QED BY <1>3, <2>1, CacheAssumption DEF CacheAssumption, RemoveN, Smaller
<1>5. (l + 1) - r = x + 1
  BY <1>3, <1>4
<1>6. lines = r * Size
  <2> HIDE DEF rows, index, l, r
  <2> QED BY <1>2, <1>3, <1>4, LinesIs, SMTT(30)
<1>7. Len(rows) = l * Size /\ rows \in Seq(TableRows)
  BY <1>2 DEF RowsFit
<1> HIDE DEF r, lines, first
<1>8. Len(rows) - lines = x * Size
  <2>1. l = x + r
    BY <1>3, <1>4
  <2>2. (x + r) * Size = x * Size + r * Size /\ x * Size \in Nat /\ r * Size \in Nat
    <3>1. x \in Nat
      BY <1>3, <1>4
    <3> HIDE DEF x
    <3> QED BY <1>4, <3>1, SizeIs, Distributes
  <2> DEFINE u == x * Size
             v == r * Size
  <2>3. Len(rows) = u + v /\ lines = v /\ u \in Nat /\ v \in Nat
    BY <1>6, <1>7, <2>1, <2>2
  <2> HIDE DEF u, v, rows
  <2>4. Len(rows) - lines = u
    BY <2>3
  <2> QED BY <2>4 DEF u
<1>9. rows1 = SubSeq(rows, 1, x * Size) \o Dataset(x + 1, days)
  <2> HIDE DEF rows, l, x
  <2> QED BY <1>5, <1>8
<1>10. \A d \in 1..x : \A j \in 1..Size : Good(rows[(d - 1) * Size + j], d, days)
  <2> SUFFICES ASSUME NEW d \in 1..x, NEW j \in 1..Size PROVE Good(rows[(d - 1) * Size + j], d, days)
    OBVIOUS
  <2> DEFINE row == rows[(d - 1) * Size + j]
  <2>1. d \in 1..l /\ d <= x
    BY <1>3, <1>4
  <2>2. Good(row, d, l)
    BY <1>2, <2>1 DEF RowsFit
  <2>3. Smaller(d + Lookahead, days) = Smaller(d + Lookahead, l)
    <3>1. Lookahead \in Nat /\ days \in Nat /\ l \in Nat /\ r \in Nat
      BY <1>3, <1>4, CacheAssumption DEF CacheAssumption
    <3>2. CASE Lookahead < l
      <4>1. d + Lookahead <= l
        BY <1>4, <2>1, <3>1, <3>2
      <4> QED BY <1>3, <3>1, <4>1 DEF Smaller
    <3>3. CASE ~(Lookahead < l)
      <4>1. x = 0
        BY <1>4, <3>1, <3>3
      <4> QED BY <2>1, <4>1
    <3> QED BY <3>2, <3>3
  <2> HIDE DEF row
  <2>4. Good(row, d, days)
    BY <2>2, <2>3 DEF Good
  <2> QED BY <2>4 DEF row
<1>11. RowsFit(rows1, days)
  <2>1. /\ DaysInTurn(Dataset(x + 1, days), x + 1, days - x)
        /\ \A k \in 1..(days - x) : \A j \in 1..Size :
              Dataset(x + 1, days)[(k - 1) * Size + j].seen = Smaller(x + k + Lookahead, days)
    <3> HIDE DEF x
    <3> QED BY <1>1, <1>4, DatasetInTurn
  <2> DEFINE fresh == Dataset(x + 1, days)
  <2> HIDE DEF fresh, x, rows, l
  <2>2. RowsFit(SubSeq(rows, 1, x * Size) \o fresh, days)
    BY <1>3, <1>4, <1>7, <1>10, <2>1, RowsJoin DEF fresh
  <2> HIDE DEF rows1
  <2> QED BY <1>9, <2>2 DEF fresh
<1>12. IndexFits(index1, days)
  <2>1. first = l * Size
    <3>1. index # <<>>
      BY <1>1, <1>4
    <3>2. Last(index) = EntryOf(l)
      BY <1>1, <1>2, <1>3, <1>4, SMTT(30) DEF Last, IndexFits
    <3>3. EntryOf(l).end = l * Size
      BY DEF EntryOf
    <3> QED BY <3>1, <3>2, <3>3 DEF first
  <2>2. DaysInTurn(Dataset(l + 1, days), l + 1, days - l)
    <3> HIDE DEF l
    <3> QED BY <1>1, <1>3, DatasetInTurn
  <2> DEFINE fresh == Dataset(l + 1, days)
             y == days - l
             u == l * Size
  <2>3. y \in Nat /\ l + 1 \in Int /\ u \in Nat
    <3>1. u \in Nat
      <4> HIDE DEF l
      <4> QED BY <1>3, SizeIs, SeriesTimes
    <3> QED BY <1>3, <3>1
  <2>4. DaysInTurn(fresh, l + 1, y)
    BY <2>2
  <2>5. BuildIndex(fresh, u) = Bounds(l + 1, y, u)
    <3> DEFINE a == l + 1
    <3> HIDE DEF fresh, y, u, a
    <3>1. DaysInTurn(fresh, a, y) /\ a \in Int
      BY <2>3, <2>4 DEF a
    <3>2. BuildIndex(fresh, u) = Bounds(a, y, u)
      BY <2>3, <3>1, IndexIs
    <3> QED BY <3>2 DEF a
  <2>6. IndexFits(index \o Bounds(l + 1, days - l, l * Size), days)
    <3> HIDE DEF index, l
    <3> QED BY <1>2, <1>3, IndexJoin
  <2>7. index1 = index \o Bounds(l + 1, y, u)
    <3> HIDE DEF fresh, y, u, index
    <3> QED BY <2>1, <2>5 DEF fresh, u
  <2> HIDE DEF index1
  <2> QED BY <2>6, <2>7
<1> HIDE DEF rows1, index1
<1>13. table'.last = days /\ table'.rows = rows1 /\ table'.index = index1
  BY <1>1
<1>14. (\E n \in 0..table.last : IndexFits(held, n))'
  <2>1. PICK n \in 0..l : IndexFits(held, n)
    BY <1>2
  <2>2. n \in 0..table'.last /\ IndexFits(held', n)
    BY <1>1, <1>3, <1>13, <2>1
  <2> QED BY <2>2 DEF IndexFits, EntryOf, Size
<1>15. RowsFit(table.rows, table.last)' /\ IndexFits(table.index, table.last)'
  BY <1>11, <1>12, <1>13 DEF RowsFit, IndexFits, EntryOf, Size, Good, Smaller
<1>16. (table.last \in Nat /\ table.last <= days)'
  BY <1>1, <1>3, <1>13
<1> QED BY <1>14, <1>15, <1>16 DEF TableFits

LEMMA TableIsGood == ASSUME TableFits PROVE DatasetTrue
<1> SUFFICES ASSUME NEW k \in DOMAIN held
             PROVE  /\ held[k].end - held[k].start = Size
                    /\ held[k].end <= Len(table.rows)
                    /\ \A m \in held[k].start + 1 .. held[k].end :
                          Good(table.rows[m], held[k].day, table.last)
  BY DEF DatasetTrue, Size
<1> DEFINE l == table.last
           rows == table.rows
           z == (k - 1) * Size
<1>1. PICK n \in 0..l : IndexFits(held, n)
  BY DEF TableFits
<1>2. l \in Nat /\ RowsFit(rows, l)
  BY DEF TableFits
<1>3. k \in 1..n /\ held[k] = EntryOf(k)
  <2>1. DOMAIN held = 1..n
    BY <1>1, LenProperties DEF IndexFits
  <2> QED BY <1>1, <2>1 DEF IndexFits
<1>4. Size \in Nat /\ k \in 1..l /\ k \in Nat /\ k - 1 \in Nat
  BY <1>1, <1>2, <1>3, SizeIs
<1>5. z \in Nat /\ k * Size = z + Size
  <2>1. ((k - 1) + 1) * Size = (k - 1) * Size + Size /\ (k - 1) * Size \in Nat
    BY <1>4, SeriesTimes
  <2>2. (k - 1) + 1 = k
    BY <1>4
  <2> QED BY <2>1, <2>2
<1>6. held[k].day = k /\ held[k].start = z /\ held[k].end = z + Size
  BY <1>3, <1>5 DEF EntryOf
<1>7. z + Size <= Len(rows)
  <2>1. k <= l
    BY <1>2, <1>4
  <2>2. k * Size <= l * Size
    <3> HIDE DEF l
    <3> QED BY <1>2, <1>4, <2>1, SizeIs, SeriesOrderKept
  <2>3. Len(rows) = l * Size
    BY <1>2 DEF RowsFit
  <2> QED BY <1>5, <2>2, <2>3
<1>8. ASSUME NEW m \in z + 1 .. z + Size PROVE Good(rows[m], k, l)
  <2>1. m - z \in 1..Size /\ m = z + (m - z)
    BY <1>4, <1>5
  <2>2. \A j \in 1..Size : Good(rows[z + j], k, l)
    BY <1>2, <1>4 DEF RowsFit
  <2> HIDE DEF z, rows, l
  <2> QED BY <2>1, <2>2
<1>9. (z + Size) - z = Size
  BY <1>4, <1>5
<1> HIDE DEF z
<1> QED BY <1>6, <1>7, <1>8, <1>9

LEMMA TableIsInductive == CacheSpec => [](DiskShape /\ TableInv)
<1>1. ASSUME DiskShape, DiskShape', TableInv, [CacheNext]_cacheVars PROVE TableInv'
  <2>1. days \in Int /\ days' \in Int /\ lagging \in BOOLEAN /\ lagging' \in BOOLEAN
    BY <1>1 DEF DiskShape
  <2>2. TableFits => \E n \in 0..table.last : IndexFits(held, n)
    BY DEF TableFits
  <2>3. CASE NewDay \/ \E i \in Instrument : NewBar(i) \/ GenExpressionCache(i) \/ UpdateExpression(i)
    <3>1. UNCHANGED <<table, held>> /\ (days' = days \/ days' = days + 1) /\ (lagging => lagging')
      <4>1. ASSUME NewDay PROVE UNCHANGED <<table, held>> /\ days' = days + 1 /\ lagging' = lagging
        BY <4>1 DEF NewDay
      <4>2. ASSUME NEW i \in Instrument, NewBar(i)
            PROVE  UNCHANGED <<table, held>> /\ days' = days /\ lagging' = lagging
        BY <4>2 DEF NewBar
      <4>3. ASSUME NEW i \in Instrument, GenExpressionCache(i)
            PROVE  UNCHANGED <<table, held>> /\ days' = days /\ (lagging => lagging')
        BY <4>3 DEF GenExpressionCache
      <4>4. ASSUME NEW i \in Instrument, UpdateExpression(i)
            PROVE  UNCHANGED <<table, held>> /\ days' = days /\ (lagging => lagging')
        BY <4>4 DEF UpdateExpression
      <4> QED BY <2>3, <4>1, <4>2, <4>3, <4>4
    <3>2. TableFits => \E n \in 0..table.last : IndexFits(held', n)
      BY <2>2, <3>1
    <3>3. UNCHANGED table /\ days' >= days
      BY <2>1, <3>1
    <3> QED BY <1>1, <2>1, <3>1, <3>2, <3>3, TableStays
  <2>4. CASE Restart
    <3>1. UNCHANGED <<table, days, lagging>> /\ held' = <<>>
      BY <2>4 DEF Restart
    <3>2. TableFits => \E n \in 0..table.last : IndexFits(held', n)
      <4>1. IndexFits(<<>>, 0)
        BY DEF IndexFits
      <4> QED BY <3>1, <4>1 DEF TableFits
    <3> QED BY <1>1, <2>1, <3>1, <3>2, TableStays
  <2>5. CASE ReadIndex
    <3>1. UNCHANGED <<table, days, lagging>> /\ held' = table.index
      BY <2>5 DEF ReadIndex
    <3>2. TableFits => \E n \in 0..table.last : IndexFits(held', n)
      BY <3>1 DEF TableFits
    <3> QED BY <1>1, <2>1, <3>1, <3>2, TableStays
  <2>6. CASE UNCHANGED cacheVars
    <3>1. UNCHANGED <<table, days, lagging, held>>
      BY <2>6 DEF cacheVars
    <3>2. TableFits => \E n \in 0..table.last : IndexFits(held', n)
      BY <2>2, <3>1
    <3> QED BY <1>1, <2>1, <3>1, <3>2, TableStays
  <2> QED BY <1>1, <2>3, <2>4, <2>5, <2>6, GenDatasetStep, UpdateDatasetStep DEF CacheNext
<1>2. CacheSpec => [](DiskShape /\ QueryInv)
  BY DiskIsInductive
<1> QED BY <1>1, <1>2, TableInits, PTL DEF CacheSpec

\* The index a process keeps finds, for each of its days, the rows of all instruments on
\* that day, each with what later days have added, whichever updates it missed, as long
\* as the raw data was complete whenever the file was made or updated.
THEOREM DatasetIsTrue == CacheSpec => [](~lagging => DatasetTrue)
<1>1. TableInv => (~lagging => DatasetTrue)
  BY TableIsGood DEF TableInv
<1> QED BY <1>1, TableIsInductive, PTL

-----------------------------------------------------------------------------
(* What MCServices checks of the two caches.                                *)

\* The caches on disk hold what new ones would, and the cache of instruments in memory
\* answers with nothing older than its last clearing.
THEOREM CachesAreTrue == CacheSpec /\ UniverseSpec => []CachesTrue
<1>1. (~lagging => ExpressionTrue) /\ (~lagging => DatasetTrue) /\ UniverseTrue => CachesTrue
  BY DEF CachesTrue, CacheTrue
<1> QED BY <1>1, ExpressionsAreTrue, DatasetIsTrue, UniverseIsTrue, PTL

-----------------------------------------------------------------------------
(* CacheLock: the types of owners and counters.                             *)

\* Whoever has _local_wlock has taken it at least once.
LockTypeInv ==
    /\ LockTypeOK
    /\ mode = "local" /\ wlock # Free => depth >= 1

LEMMA LockTypeInit == LockInit => LockTypeInv
<1> SUFFICES ASSUME LockInit PROVE LockTypeInv
  OBVIOUS
<1>1. at \in [Thread -> Places]
  BY DEF LockInit, Places
<1> QED BY <1>1, LockAssumption DEF LockInit, LockTypeInv, LockTypeOK, LockAssumption, Places

\* A step of the short lock, and one that only moves a thread.
LEMMA OwnersTyped ==
    ASSUME LockTypeInv, NEW t \in Thread, NEW place \in Places, Go(t, place),
           short' \in {short, t, Free}, wlock' \in {wlock, t, LOCK_ID, Free}, visitors' \in Int,
           gate' \in {gate, t, Free}, UNCHANGED <<mode, content>>,
           depth' \in 0..MaxDepth, late' \in 0..MaxLate,
           mode = "local" /\ wlock' # Free => depth' >= 1
    PROVE  LockTypeInv'
<1>1. LockTypeOK
  BY DEF LockTypeInv
<1>2. at' \in [Thread -> Places]
  BY <1>1 DEF Go, LockTypeOK, Places
<1>3. /\ short' \in Thread \union {Free} /\ wlock' \in Thread \union {LOCK_ID, Free}
      /\ gate' \in Thread \union {Free} /\ mode' \in LockModes /\ content' \in {"expression", "dataset"}
  BY <1>1 DEF LockTypeOK
<1> QED BY <1>2, <1>3 DEF LockTypeInv, LockTypeOK, Places

LEMMA LockTypeNext == LockTypeInv /\ [LockNext]_lockVars => LockTypeInv'
<1> SUFFICES ASSUME LockTypeInv, [LockNext]_lockVars PROVE LockTypeInv'
  OBVIOUS
<1>1. /\ depth \in 0..MaxDepth /\ late \in 0..MaxLate /\ visitors \in Int
      /\ MaxDepth \in Nat /\ MaxLate \in Nat
      /\ mode = "local" /\ wlock # Free => depth >= 1
  BY LockAssumption DEF LockTypeInv, LockTypeOK, LockAssumption
<1>2. \A t \in Thread : t # Free /\ t # LOCK_ID
  BY LockAssumption DEF LockAssumption
<1>3. CASE UNCHANGED lockVars
  BY <1>3 DEF lockVars, LockTypeInv, LockTypeOK
<1>4. ASSUME NEW t \in Thread, \/ ReaderCalls(t) \/ WriterCalls(t) \/ ReaderDone(t) \/ ReadAgain(t)
                               \/ TakeShort(t)
      PROVE  LockTypeInv'
  <2>1. /\ short' \in {short, t, Free} /\ wlock' = wlock /\ visitors' = visitors
        /\ UNCHANGED <<mode, content, gate>> /\ depth' = depth /\ late' = late
    BY <1>4 DEF ReaderCalls, WriterCalls, ReaderDone, ReadAgain, TakeShort
  <2>2. \E place \in Places : Go(t, place)
    BY <1>4 DEF ReaderCalls, WriterCalls, ReaderDone, ReadAgain, TakeShort, Inside, Places, Waiting
  <2> QED BY <1>1, <2>1, <2>2, OwnersTyped
<1>5. ASSUME NEW t \in Thread, ShortTimesOut(t) PROVE LockTypeInv'
  <2>1. /\ short' = short /\ wlock' = wlock /\ visitors' = visitors /\ UNCHANGED <<mode, content, gate>>
        /\ depth' = depth /\ late' \in 0..MaxLate
    BY <1>1, <1>5 DEF ShortTimesOut
  <2>2. \E place \in Places : Go(t, place)
    BY <1>5 DEF ShortTimesOut, Inside, Places
  <2> QED BY <1>1, <2>1, <2>2, OwnersTyped
<1>6. ASSUME NEW t \in Thread, \/ RedisLook(t) \/ RedisFirst(t) \/ RedisCount(t) \/ RedisUncount(t)
                               \/ RedisWrite(t) \/ RedisWritten(t)
      PROVE  LockTypeInv'
  <2>1. /\ mode = "redis" /\ UNCHANGED <<mode, content>> /\ depth' = depth /\ late' = late
        /\ gate' \in {gate, t, Free}
        /\ wlock' \in {wlock, t, LOCK_ID, Free} /\ visitors' \in {visitors, visitors + 1, visitors - 1}
    BY <1>6 DEF RedisLook, RedisFirst, RedisCount, RedisUncount, RedisWrite, RedisWritten
  <2>2. short' \in {short, Free}
    BY <1>6 DEF RedisLook, RedisFirst, RedisCount, RedisUncount, RedisWrite, RedisWritten, LetShortGo
  <2>3. \E place \in Places : Go(t, place)
    BY <1>6 DEF RedisLook, RedisFirst, RedisCount, RedisUncount, RedisWrite, RedisWritten, AfterWriting,
                Places, Waiting
  <2>4. visitors' \in Int
    BY <1>1, <2>1
  <2> QED BY <1>1, <2>1, <2>2, <2>3, <2>4, OwnersTyped
<1>7. ASSUME NEW t \in Thread, \/ LocalEnter(t) \/ LocalFirst(t) \/ LocalLeave(t)
                               \/ LocalWrite(t) \/ LocalWritten(t)
      PROVE  LockTypeInv'
  <2>1. /\ mode = "local" /\ UNCHANGED <<mode, content, gate>> /\ late' = late
        /\ visitors' \in {visitors, visitors + 1, visitors - 1}
    BY <1>7 DEF LocalEnter, LocalFirst, LocalLeave, LocalWrite, LocalWritten
  <2>2. short' \in {short, Free}
    BY <1>7 DEF LocalEnter, LocalFirst, LocalLeave, LocalWrite, LocalWritten, LetShortGo
  <2>3. \E place \in Places : Go(t, place)
    BY <1>7 DEF LocalEnter, LocalFirst, LocalLeave, LocalWrite, LocalWritten, AfterWriting, Places, Waiting
  <2>4. UNCHANGED <<wlock, depth>> \/ Take(t) \/ Give(t)
    BY <1>7 DEF LocalEnter, LocalFirst, LocalLeave, LocalWrite, LocalWritten
  <2>5. /\ wlock' \in {wlock, t, Free} /\ depth' \in 0..MaxDepth
        /\ wlock' # Free => depth' >= 1
    <3>1. CASE UNCHANGED <<wlock, depth>>
      BY <1>1, <2>1, <3>1
    <3>2. CASE Take(t)
      BY <1>1, <3>2 DEF Take
    <3>3. CASE Give(t)
      BY <1>1, <1>2, <2>1, <3>3 DEF Give
    <3> QED BY <2>4, <3>1, <3>2, <3>3
  <2>6. visitors' \in Int
    BY <1>1, <2>1
  <2> QED BY <1>1, <2>1, <2>2, <2>3, <2>5, <2>6, OwnersTyped
<1> QED BY <1>3, <1>4, <1>5, <1>6, <1>7 DEF LockNext

\* The locks have an owner of theirs or none, and _local_wlock is not released more often
\* than it was taken.
THEOREM LockTypeCorrect == LockSpec => []LockTypeOK
<1>1. LockTypeInv => LockTypeOK
  BY DEF LockTypeInv
<1> QED BY <1>1, LockTypeInit, LockTypeNext, PTL DEF LockSpec

-----------------------------------------------------------------------------
(* UniverseCache: nothing in it is newer than the files.                    *)

UniverseTypeInv ==
    /\ onFile <= MaxVersions
    /\ \A i \in 1..Len(od) : od[i].value <= onFile
    /\ \A t \in Asker : ask[t].value <= onFile
    /\ queries \in 0..MaxQueries

LEMMA UniverseTypeInit == UniverseInit => UniverseTypeInv
<1> SUFFICES ASSUME UniverseInit PROVE UniverseTypeInv
  OBVIOUS
<1>1. MaxVersions \in Nat /\ MaxQueries \in Nat
  BY UniverseAssumption DEF UniverseAssumption
<1>2. \A t \in Asker : ask[t].value = 0
  BY DEF UniverseInit
<1>3. onFile = 0 /\ Len(od) = 0 /\ queries = 0
  BY DEF UniverseInit
<1> QED BY <1>1, <1>2, <1>3 DEF UniverseTypeInv

\* A step that puts no value into the cache but one that a thread had or the file has.
LEMMA ValuesTyped ==
    ASSUME UniverseInv, UniverseTypeInv, NEW t \in Asker, NEW r, r.value \in Nat,
           ask' = [ask EXCEPT ![t] = r], onFile' = onFile, queries' \in 0..MaxQueries,
           \A i \in 1..Len(od') : \/ \E k \in 1..Len(od) : od'[i] = od[k]
                                  \/ od'[i].value = ask[t].value,
           r.value <= onFile
    PROVE  UniverseTypeInv'
<1>1. ask'[t] = r /\ \A u \in Asker \ {t} : ask'[u] = ask[u]
  BY DEF UniverseInv, UniverseShape
<1>2. \A i \in 1..Len(od') : od'[i].value <= onFile
  BY DEF UniverseTypeInv
<1> QED BY <1>1, <1>2 DEF UniverseTypeInv

LEMMA UniverseTypeNext ==
    UniverseInv /\ UniverseTypeInv /\ [UniverseNext]_universeVars => UniverseTypeInv'
<1> SUFFICES ASSUME UniverseInv, UniverseTypeInv, [UniverseNext]_universeVars PROVE UniverseTypeInv'
  OBVIOUS
<1> DEFINE R == [at : Steps, market : Pool, value : Nat]
<1>1. /\ onFile \in Nat /\ od \in Seq(Items) /\ Len(od) \in Nat
      /\ MaxVersions \in Nat /\ MaxQueries \in Nat /\ SizeLimit \in Nat
  BY LenProperties, UniverseAssumption DEF UniverseInv, UniverseShape, UniverseAssumption
<1>2. \A t \in Asker : ask[t] \in R /\ ask[t].value \in Nat /\ ask[t].value <= onFile /\ ask[t].market \in Pool
  BY DEF UniverseInv, UniverseShape, UniverseTypeInv
<1>3. queries \in 0..MaxQueries
  BY DEF UniverseTypeInv
<1>4. CASE UNCHANGED universeVars
  BY <1>4 DEF universeVars, UniverseTypeInv
<1>5. ASSUME NEW t \in Asker, NEW m \in Pool, NEW clears \in BOOLEAN, AskFor(t, m, clears)
      PROVE  UniverseTypeInv'
  <2> DEFINE r == [at |-> IF clears THEN "clear" ELSE "look", market |-> m, value |-> 0]
  <2>1. r.value = 0
    OBVIOUS
  <2>2. ask' = [ask EXCEPT ![t] = r] /\ onFile' = onFile /\ od' = od /\ queries' \in 0..MaxQueries
    BY <1>1, <1>3, <1>5 DEF AskFor
  <2> HIDE DEF r
  <2>3. /\ r.value \in Nat /\ r.value <= onFile
        /\ \A i \in 1..Len(od') : \E k \in 1..Len(od) : od'[i] = od[k]
    BY <1>1, <2>1, <2>2
  <2> QED BY <2>2, <2>3, ValuesTyped
<1>6. ASSUME NEW t \in Asker, ClearFirst(t) \/ LookIn(t) PROVE UniverseTypeInv'
  <2>1. PICK s \in Steps : ask' = [ask EXCEPT ![t] = [ask[t] EXCEPT !.at = s]]
    BY <1>6 DEF ClearFirst, LookIn, Steps
  <2> DEFINE r == [ask[t] EXCEPT !.at = s]
  <2>2. r.value = ask[t].value
    BY <1>2
  <2>3. /\ onFile' = onFile /\ (od' = od \/ od' = <<>>) /\ queries' = queries
    BY <1>6 DEF ClearFirst, LookIn
  <2>4. \A i \in 1..Len(od') : \E k \in 1..Len(od) : od'[i] = od[k]
    BY <1>1, <2>3
  <2> HIDE DEF r
  <2> QED BY <1>1, <1>2, <1>3, <2>1, <2>2, <2>3, <2>4, ValuesTyped DEF r
<1>7. ASSUME NEW t \in Asker, GetItem(t) PROVE UniverseTypeInv'
  <2> DEFINE m == ask[t].market
  <2>1. onFile' = onFile /\ queries' = queries /\ m \in Pool
    BY <1>2, <1>7 DEF GetItem
  <2>2. CASE m \in Keys
    <3> DEFINE e == Entry(m)
               q == Append(Others(m), e)
               r == [at |-> "answered", market |-> m, value |-> e.value]
    <3>1. PlaceOf(m) \in 1..Len(od) /\ od[PlaceOf(m)].key = m
      BY <2>1, <2>2, OthersAre DEF UniverseInv
    <3>2. e \in Items /\ e.key = m /\ e.value \in Nat /\ e.value <= onFile
      <4>1. e = od[PlaceOf(m)]
        BY DEF Entry
      <4>2. e \in Items
        BY <1>1, <3>1, <4>1, ElementOfSeq
      <4> QED BY <3>1, <4>1, <4>2 DEF UniverseTypeInv, Items
    <3>3. od' = q /\ ask' = [ask EXCEPT ![t] = r]
      BY <1>7, <2>2 DEF GetItem
    <3>4. r.value = e.value
      OBVIOUS
    <3> HIDE DEF e, r
    <3>5. \A i \in 1..Len(q) : q[i] = e \/ \E k \in 1..Len(od) : q[i] = od[k]
      BY <2>2, <3>2, LatestItem DEF UniverseInv
    <3>6. \A i \in 1..Len(q) : \E k \in 1..Len(od) : q[i] = od[k]
      BY <3>1, <3>5 DEF e, Entry
    <3> HIDE DEF q
    <3> QED BY <1>3, <2>1, <3>2, <3>3, <3>4, <3>6, ValuesTyped
  <2>3. CASE m \notin Keys
    <3> DEFINE r == [ask[t] EXCEPT !.at = "failed"]
    <3>1. r.value = ask[t].value
      BY <1>2
    <3>2. od' = od /\ ask' = [ask EXCEPT ![t] = r]
      BY <1>7, <2>3 DEF GetItem
    <3> HIDE DEF r
    <3>3. \A i \in 1..Len(od') : \E k \in 1..Len(od) : od'[i] = od[k]
      BY <3>2
    <3> QED BY <1>2, <1>3, <2>1, <3>1, <3>2, <3>3, ValuesTyped
  <2> QED BY <2>2, <2>3
<1>8. ASSUME NEW t \in Asker, LoadFile(t) PROVE UniverseTypeInv'
  <2> DEFINE r == [at |-> "store", market |-> ask[t].market, value |-> onFile]
  <2>1. ask' = [ask EXCEPT ![t] = r] /\ onFile' = onFile /\ od' = od /\ queries' = queries
    BY <1>8 DEF LoadFile
  <2>2. r.value \in Nat /\ r.value <= onFile /\ \A i \in 1..Len(od') : \E k \in 1..Len(od) : od'[i] = od[k]
    BY <1>1, <2>1
  <2> HIDE DEF r
  <2>3. queries' \in 0..MaxQueries
    BY <1>3, <2>1
  <2> QED BY <2>1, <2>2, <2>3, ValuesTyped
<1>9. ASSUME NEW t \in Asker, Store(t) PROVE UniverseTypeInv'
  <2> DEFINE m == ask[t].market
             e == [key |-> m, value |-> ask[t].value]
             q == Append(Others(m), e)
             n == Adjusted(m)
             over == IF SizeLimit > 0 /\ n > SizeLimit THEN n - SizeLimit ELSE 0
             r == [ask[t] EXCEPT !.at = "answered"]
  <2>1. /\ onFile' = onFile /\ queries' = queries /\ ask' = [ask EXCEPT ![t] = r]
        /\ od' = SubSeq(q, over + 1, Len(q))
    BY <1>9 DEF Store
  <2>2. r.value = ask[t].value /\ e \in Items /\ e.key = m /\ e.value = ask[t].value
    BY <1>2 DEF Items
  <2>3. n \in Nat
    BY <1>1 DEF Adjusted, UniverseInv, SizeTrue
  <2> HIDE DEF e, r, n, m
  <2>4. q \in Seq(Items) /\ \A i \in 1..Len(q) : q[i] = e \/ \E k \in 1..Len(od) : q[i] = od[k]
    BY <2>2, LatestItem DEF UniverseInv
  <2>5. Len(q) \in Nat /\ \A i \in 1..Len(q) : q[i] \in Items
    BY <2>4, LenProperties, ElementOfSeq
  <2>6. over \in Nat
    BY <1>1, <2>3
  <2> HIDE DEF q, over
  <2>7. \A i \in 1..Len(od') : \E k \in 1..Len(q) : od'[i] = q[k]
    <3>1. over + 1 \in Int /\ Len(q) \in Int /\ \A i \in (over + 1)..Len(q) : q[i] \in Items
      BY <2>5, <2>6
    <3>2. /\ Len(od') = IF over + 1 <= Len(q) THEN Len(q) - (over + 1) + 1 ELSE 0
          /\ \A i \in 1..(Len(q) - (over + 1) + 1) : od'[i] = q[(over + 1) + i - 1]
      BY <2>1, <3>1, SubSeqProperties
    <3> QED BY <2>5, <2>6, <3>2
  <2>8. \A i \in 1..Len(od') : (\E k \in 1..Len(od) : od'[i] = od[k]) \/ od'[i].value = ask[t].value
    BY <2>2, <2>4, <2>7
  <2> QED BY <1>2, <1>3, <2>1, <2>2, <2>8, ValuesTyped
<1>10. CASE Replace \/ ClearUniverse
  <2>1. /\ onFile' \in {onFile, onFile + 1} /\ onFile' <= MaxVersions
        /\ (od' = od \/ od' = <<>>) /\ ask' = ask /\ queries' = queries
    BY <1>1, <1>10 DEF Replace, ClearUniverse, UniverseTypeInv
  <2>2. \A i \in 1..Len(od') : od'[i].value <= onFile'
    <3>1. \A i \in 1..Len(od) : od[i].value \in Nat /\ od[i].value <= onFile
      <4>1. \A i \in 1..Len(od) : od[i] \in Items
        BY <1>1, ElementOfSeq
      <4> QED BY <4>1 DEF UniverseTypeInv, Items
    <3> QED BY <1>1, <2>1, <3>1
  <2>3. \A t \in Asker : ask'[t].value <= onFile'
    BY <1>1, <1>2, <2>1
  <2> QED BY <1>3, <2>1, <2>2, <2>3 DEF UniverseTypeInv
<1> QED BY <1>4, <1>5, <1>6, <1>7, <1>8, <1>9, <1>10 DEF UniverseNext

LEMMA UniverseTyped == UniverseInv /\ UniverseTypeInv => UniverseTypeOK
<1> SUFFICES ASSUME UniverseInv, UniverseTypeInv PROVE UniverseTypeOK
  OBVIOUS
<1> DEFINE E == [key : Pool, value : Version]
<1>1. MaxVersions \in Nat /\ onFile \in Nat /\ onFile \in Version
  BY UniverseAssumption DEF UniverseAssumption, UniverseInv, UniverseShape, UniverseTypeInv, Version
<1>2. od \in Seq(Items) /\ Len(od) \in Nat /\ od \in [1..Len(od) -> Items]
  BY LenProperties DEF UniverseInv, UniverseShape
<1>3. \A i \in 1..Len(od) : od[i] \in E
  BY <1>1, <1>2 DEF UniverseTypeInv, Items, Version
<1>4. od \in Seq(E)
  <2> DEFINE n == Len(od)
  <2>1. od \in [1..n -> E] /\ n \in Nat
    BY <1>2, <1>3
  <2> HIDE DEF E, n
  <2> QED BY <2>1
<1>5. ask \in [Asker -> [at : Steps, market : Pool, value : Version]]
  BY <1>1 DEF UniverseInv, UniverseShape, UniverseTypeInv, Version
<1>6. least \in [Asker -> Version]
  BY <1>1 DEF UniverseInv, UniverseShape, NothingOlder, UniverseTypeInv, Version
<1>7. size \in Nat
  BY <1>2 DEF UniverseInv, SizeTrue
<1> QED BY <1>1, <1>4, <1>5, <1>6, <1>7 DEF UniverseTypeInv, UniverseTypeOK

\* Every value in the cache, and every value that is asked for, is of a version that the
\* files have had.
THEOREM UniverseTypeCorrect == UniverseSpec => []UniverseTypeOK
BY UniverseIsInductive, UniverseTypeInit, UniverseTypeNext, UniverseTyped, PTL DEF UniverseSpec

-----------------------------------------------------------------------------
(* DiskCache: the types of values, rows and entries.                        *)

\* No file has more than a value, and no index more than an entry, for each of its days.
DiskTypeInv ==
    /\ days <= MaxDays
    /\ \A i \in Instrument : /\ expression[i].cells \in Seq(Cells)
                             /\ Len(expression[i].cells) <= expression[i].last
    /\ table.last \in 0..days
    /\ table.rows \in Seq(Rows)
    /\ table.index \in Seq(Entries) /\ Len(table.index) <= table.last
    /\ held \in Seq(Entries)

LEMMA DayTyped ==
    ASSUME DiskShape, DiskTypeInv
    PROVE  /\ days \in 1..MaxDays /\ MaxDays \in Nat \ {0} /\ Lookahead \in Nat /\ days \in Nat
           /\ \A i \in Instrument : bins[i] \in 1..days
BY CacheAssumption DEF DiskShape, DiskTypeInv, CacheAssumption

LEMMA SeriesTyped ==
    ASSUME DiskShape, DiskTypeInv, NEW i \in Instrument, NEW from \in 1..(days + 1)
    PROVE  /\ Series(i, from, days) \in Seq(Cells) /\ Len(Series(i, from, days)) \in Nat
           /\ Len(Series(i, from, days)) <= days + 1 - from
<1> DEFINE n == Smaller(days, bins[i]) + 1 - from
           m == IF n > 0 THEN n ELSE 0
           s == [k \in 1..n |-> [day |-> from + k - 1, seen |-> Smaller(from + k - 1 + Lookahead, bins[i])]]
<1>1. bins[i] \in 1..days /\ days \in 1..MaxDays /\ Lookahead \in Nat /\ MaxDays \in Nat
  BY DayTyped
<1>2. n \in Int /\ n <= days + 1 - from /\ from + n - 1 <= bins[i]
  BY <1>1 DEF Smaller
<1>3. Series(i, from, days) = s
  BY DEF Series
<1>4. \A k \in 1..n : /\ from + k - 1 \in 1..MaxDays
                      /\ Smaller(from + k - 1 + Lookahead, bins[i]) \in 1..MaxDays
  <2> HIDE DEF n
  <2> TAKE k \in 1..n
  <2>1. from + k - 1 \in 1..MaxDays
    BY <1>1, <1>2
  <2> QED BY <1>1, <2>1 DEF Smaller
<1>5. s \in [1..n -> Cells]
  BY <1>4 DEF Cells
<1> HIDE DEF n, s
<1>6. m \in Nat /\ 1..n = 1..m /\ m <= days + 1 - from
  BY <1>1, <1>2
<1>7. s \in Seq(Cells) /\ Len(s) = m
  <2> HIDE DEF m
  <2>1. s \in [1..m -> Cells]
    BY <1>5, <1>6
  <2>2. s \in Seq(Cells)
    BY <1>6, <2>1
  <2> QED BY <1>6, <2>1, <2>2, LenProperties
<1> QED BY <1>3, <1>6, <1>7

-----------------------------------------------------------------------------
(* Rows.                                                                    *)

\* The rows of a table that begins with day a.
RowsSince(a) == {r \in Rows : r.day \in a..days}

LEMMA SomeOrder ==
    ASSUME NEW S, IsFiniteSet(S)
    PROVE  Cardinality(S) \in Nat /\ SetToSeq(S) \in [1..Cardinality(S) -> S]
<1>1. Cardinality(S) \in Nat
  BY FS_CardinalityType
<1>2. \E f \in [1..Cardinality(S) -> S] : IsInjective(f)
  BY FS_CardinalityType DEF ExistsBijection, Bijection, Injection, IsInjective
<1> QED BY <1>1, <1>2 DEF SetToSeq

LEMMA RowsOfTyped ==
    ASSUME DiskShape, DiskTypeInv, NEW a \in 1..(days + 1), NEW d \in a..days
    PROVE  RowsOf(d) \in Seq(RowsSince(a))
<1> DEFINE S == {i \in Instrument : bins[i] >= d}
           q == SetToSeq(S)
           c == Cardinality(S)
           s == [k \in DOMAIN q |-> [day |-> d, of |-> q[k], seen |-> Smaller(d + Lookahead, bins[q[k]])]]
<1>1. d \in 1..MaxDays /\ Lookahead \in Nat /\ MaxDays \in Nat /\ \A i \in Instrument : bins[i] \in 1..MaxDays
  BY DayTyped
<1>2. c \in Nat /\ q \in [1..c -> S]
  <2>1. IsFiniteSet(S)
    BY CacheAssumption, FS_Subset DEF CacheAssumption
  <2> HIDE DEF S
  <2> QED BY <2>1, SomeOrder
<1>3. RowsOf(d) = s
  BY DEF RowsOf
<1> HIDE DEF q, c
<1>4. \A k \in 1..c : q[k] \in Instrument /\ Smaller(d + Lookahead, bins[q[k]]) \in 1..MaxDays
  BY <1>1, <1>2 DEF Smaller
<1>5. DOMAIN q = 1..c
  BY <1>2
<1>6. s \in [1..c -> RowsSince(a)]
  BY <1>1, <1>4, <1>5 DEF RowsSince, Rows
<1> HIDE DEF s
<1>7. s \in Seq(RowsSince(a))
  BY <1>2, <1>6
<1> QED BY <1>3, <1>7

LEMMA DatasetTyped ==
    ASSUME DiskShape, DiskTypeInv, NEW a \in 1..(days + 1)
    PROVE  Dataset(a, days) \in Seq(RowsSince(a))
<1> DEFINE n == days + 1 - a
           R == RowsSince(a)
           q == [k \in 1..n |-> RowsOf(a + k - 1)]
<1>1. n \in Nat /\ \A k \in 1..n : a + k - 1 \in a..days
  BY DayTyped
<1>2. q \in [1..n -> Seq(R)]
  <2> HIDE DEF n
  <2> QED BY <1>1, RowsOfTyped
<1>3. Dataset(a, days) = FlattenSeq(q)
  BY DEF Dataset
<1> HIDE DEF n, R, q
<1>4. FlattenSeq(q) \in Seq(R)
  <2>1. CASE n = 0
    <3>1. \A k \in 1..n : Len(q[k]) = 0
      BY <2>1
    <3> QED BY <1>1, <1>2, <3>1, FlatIs
  <2>2. CASE n # 0
    <3>1. PICK f \in [1..n -> Seq(R)] : FlattenSeq(q) = f[n]
      BY <1>1, <1>2, <2>2, FlattenIs
    <3> QED BY <1>1, <2>2, <3>1
  <2> QED BY <2>1, <2>2
<1> QED BY <1>3, <1>4 DEF R

\* An index has an entry at most for each day from a on.
LEMMA IndexTyped ==
    ASSUME DiskShape, DiskTypeInv, NEW a \in 1..(days + 1), NEW rows \in Seq(RowsSince(a)), NEW first \in Nat
    PROVE  /\ BuildIndex(rows, first) \in Seq(Entries)
           /\ Len(BuildIndex(rows, first)) \in Nat /\ Len(BuildIndex(rows, first)) <= days + 1 - a
<1> DEFINE P == {rows[k].day : k \in DOMAIN rows}
           c == Cardinality(P)
           present == Sorted(P)
           upTo(d) == first + Cardinality({k \in DOMAIN rows : rows[k].day <= d})
           s == [k \in DOMAIN present |-> [day |-> present[k],
                    start |-> IF k = 1 THEN first ELSE upTo(present[k - 1]), end |-> upTo(present[k])]]
<1>1. days \in 1..MaxDays /\ MaxDays \in Nat
  BY DayTyped
<1>2. Len(rows) \in Nat /\ DOMAIN rows = 1..Len(rows) /\ \A k \in DOMAIN rows : rows[k] \in RowsSince(a)
  BY LenProperties, ElementOfSeq
<1>3. P \in SUBSET (a..days) /\ P \in SUBSET Int
  BY <1>1, <1>2 DEF RowsSince
<1>4. IsFiniteSet(P) /\ c \in Nat /\ c <= days + 1 - a
  <2>0. a \in Int /\ days \in Int /\ a <= days + 1
    BY <1>1
  <2>1. IsFiniteSet(a..days) /\ Cardinality(a..days) = days + 1 - a
    BY <2>0, SortedInterval
  <2> DEFINE D == a..days
  <2>2. P \in SUBSET D /\ IsFiniteSet(D) /\ Cardinality(D) = days + 1 - a
    BY <1>3, <2>1
  <2> HIDE DEF P, D
  <2>3. IsFiniteSet(P) /\ Cardinality(P) \in Nat /\ Cardinality(P) <= Cardinality(D)
    BY <2>2, SizeOfSubset
  <2> QED BY <2>2, <2>3
<1>5. present \in [1..c -> P]
  <2> HIDE DEF P
  <2> QED BY <1>3, <1>4, SortedIs
<1>6. \A d : upTo(d) \in Nat
  <2> TAKE d
  <2> DEFINE B == {k \in DOMAIN rows : rows[k].day <= d}
  <2>1. IsFiniteSet(1..Len(rows)) /\ B \in SUBSET (1..Len(rows))
    BY <1>2, FS_Interval
  <2> HIDE DEF B
  <2>2. Cardinality(B) \in Nat
    BY <2>1, SizeOfSubset
  <2> QED BY <2>2 DEF B
<1>7. BuildIndex(rows, first) = s
  BY DEF BuildIndex
<1> HIDE DEF upTo, present, c
<1>8. s \in [1..c -> Entries]
  <2>1. DOMAIN present = 1..c /\ \A k \in 1..c : present[k] \in 1..MaxDays
    BY <1>1, <1>3, <1>5
  <2>2. \A k \in 1..c : (IF k = 1 THEN first ELSE upTo(present[k - 1])) \in Nat /\ upTo(present[k]) \in Nat
    BY <1>6
  <2> QED BY <2>1, <2>2 DEF Entries
<1> HIDE DEF s
<1>9. s \in Seq(Entries) /\ Len(s) = c
  <2>1. s \in Seq(Entries)
    BY <1>4, <1>8
  <2> QED BY <1>4, <1>8, <2>1, LenProperties
<1> QED BY <1>4, <1>7, <1>9

-----------------------------------------------------------------------------
(* The invariant.                                                           *)

LEMMA RowsFromAre ==
    ASSUME NEW a, NEW s \in Seq(RowsSince(a))
    PROVE  s \in Seq(Rows)
<1>1. RowsSince(a) \subseteq Rows
  BY DEF RowsSince
<1> DEFINE R == RowsSince(a)
<1>2. s \in Seq(R) /\ R \subseteq Rows
  BY <1>1
<1> HIDE DEF R
<1> QED BY <1>2

LEMMA DiskTypeInit == CacheInit => DiskTypeInv
<1> SUFFICES ASSUME CacheInit PROVE DiskTypeInv
  OBVIOUS
<1>1. MaxDays \in Nat \ {0}
  BY CacheAssumption DEF CacheAssumption
<1>2. \A i \in Instrument : expression[i].cells = <<>> /\ expression[i].last = 0
  BY DEF CacheInit
<1>3. days = 1 /\ table.last = 0 /\ table.rows = <<>> /\ table.index = <<>> /\ held = <<>>
  BY DEF CacheInit
<1>4. Len(<<>>) = 0 /\ <<>> \in Seq(Cells) /\ <<>> \in Seq(Rows) /\ <<>> \in Seq(Entries)
  OBVIOUS
<1>5. \A i \in Instrument : /\ expression[i].cells \in Seq(Cells)
                            /\ Len(expression[i].cells) <= expression[i].last
  <2> TAKE i \in Instrument
  <2>1. expression[i].cells = <<>> /\ expression[i].last = 0
    BY <1>2
  <2> QED BY <1>4, <2>1
<1>6. days <= MaxDays /\ table.last \in 0..days /\ Len(table.index) <= table.last
  BY <1>1, <1>3, <1>4
<1> QED BY <1>3, <1>4, <1>5, <1>6 DEF DiskTypeInv

LEMMA NewFileTyped ==
    ASSUME DiskShape, DiskTypeInv, NEW i \in Instrument, NEW c \in Seq(Cells), Len(c) <= days,
           expression' = [expression EXCEPT ![i] = [last |-> days, cells |-> c]],
           UNCHANGED <<days, table, held>>
    PROVE  DiskTypeInv'
<1>1. expression'[i].cells = c /\ expression'[i].last = days
  BY DEF DiskShape
<1>2. \A j \in Instrument \ {i} : expression'[j] = expression[j]
  BY DEF DiskShape
<1>3. \A j \in Instrument : /\ expression'[j].cells \in Seq(Cells)
                            /\ Len(expression'[j].cells) <= expression'[j].last
  BY <1>1, <1>2 DEF DiskTypeInv
<1> QED BY <1>3 DEF DiskTypeInv

LEMMA GenTyped ==
    ASSUME DiskShape, DiskTypeInv, NEW i \in Instrument, GenExpressionCache(i)
    PROVE  DiskTypeInv'
<1> DEFINE c == Series(i, 1, days)
<1>1. days \in Nat /\ 1 \in 1..(days + 1)
  BY DayTyped
<1>2. c \in Seq(Cells) /\ Len(c) \in Nat /\ Len(c) <= days + 1 - 1
  BY <1>1, SeriesTyped
<1>3. expression' = [expression EXCEPT ![i] = [last |-> days, cells |-> c]] /\ UNCHANGED <<days, table, held>>
  BY DEF GenExpressionCache
<1> HIDE DEF c
<1>4. Len(c) <= days
  BY <1>1, <1>2
<1> QED BY <1>2, <1>3, <1>4, NewFileTyped

LEMMA UpdateTyped ==
    ASSUME DiskShape, DiskTypeInv, NEW i \in Instrument, UpdateExpression(i)
    PROVE  DiskTypeInv'
<1> DEFINE old == expression[i].cells
           last == expression[i].last
           n == RemoveN(Len(old))
           from == last + 1 - n
           kept == SubSeq(old, 1, Len(old) - n)
           new == Series(i, from, days)
           c == kept \o new
<1>1. days \in Nat /\ Lookahead \in Nat
  BY DayTyped
<1>2. old \in Seq(Cells) /\ Len(old) \in Nat /\ last \in 1..(days - 1) /\ Len(old) <= last
  BY LenProperties DEF DiskTypeInv, UpdateExpression
<1>3. expression' = [expression EXCEPT ![i] = [last |-> days, cells |-> c]] /\ UNCHANGED <<days, table, held>>
  BY DEF UpdateExpression
<1> HIDE DEF old, last
<1>4. n \in 0..Len(old)
  BY <1>1, <1>2 DEF RemoveN, Smaller
<1> HIDE DEF n
<1>5. from \in 1..(days + 1) /\ days + 1 - from = days - last + n
  BY <1>1, <1>2, <1>4
<1> HIDE DEF from
<1>6. new \in Seq(Cells) /\ Len(new) \in Nat /\ Len(new) <= days + 1 - from
  BY <1>5, SeriesTyped
<1>7. kept \in Seq(Cells) /\ Len(kept) = Len(old) - n
  <2>1. 1 \in Int /\ Len(old) - n \in Int /\ \A k \in 1..(Len(old) - n) : old[k] \in Cells
    BY <1>2, <1>4, ElementOfSeq
  <2>2. /\ kept \in Seq(Cells)
        /\ Len(kept) = IF 1 <= Len(old) - n THEN (Len(old) - n) - 1 + 1 ELSE 0
    BY <2>1, SubSeqProperties
  <2> HIDE DEF kept
  <2> QED BY <1>2, <1>4, <2>2
<1> HIDE DEF kept, new
<1>8. c \in Seq(Cells) /\ Len(c) = Len(kept) + Len(new)
  BY <1>6, <1>7, ConcatProperties
<1> HIDE DEF c
<1>9. Len(c) <= days
  BY <1>1, <1>2, <1>4, <1>5, <1>6, <1>7, <1>8
<1> QED BY <1>3, <1>8, <1>9, NewFileTyped

LEMMA GenDatasetTyped ==
    ASSUME DiskShape, DiskTypeInv, GenDatasetCache
    PROVE  DiskTypeInv'
<1> DEFINE rows == Dataset(1, days)
           index == BuildIndex(rows, 0)
<1>1. days \in Nat /\ 1 \in 1..(days + 1) /\ 0 \in Nat
  BY DayTyped
<1>2. rows \in Seq(RowsSince(1)) /\ rows \in Seq(Rows)
  <2>1. rows \in Seq(RowsSince(1))
    BY <1>1, DatasetTyped
  <2> HIDE DEF rows
  <2> QED BY <2>1, RowsFromAre
<1>3. table' = [last |-> days, rows |-> rows, index |-> index] /\ held' = index /\ UNCHANGED <<days, expression>>
  BY DEF GenDatasetCache
<1> HIDE DEF rows
<1>4. index \in Seq(Entries) /\ Len(index) \in Nat /\ Len(index) <= days + 1 - 1
  BY <1>1, <1>2, IndexTyped
<1> HIDE DEF index
<1>5. table'.last = days /\ table'.rows = rows /\ table'.index = index
  BY <1>3
<1>6. Len(index) <= days /\ days \in 0..days
  BY <1>1, <1>4
<1> QED BY <1>2, <1>3, <1>4, <1>5, <1>6 DEF DiskTypeInv

LEMMA UpdateDatasetTyped ==
    ASSUME DiskShape, DiskTypeInv, UpdateDataset
    PROVE  DiskTypeInv'
<1> DEFINE rows == table.rows
           index == table.index
           l == table.last
           n == RemoveN(Len(index))
           C == {m \in DOMAIN rows : \E k \in DOMAIN index :
                    index[k].day >= (l + 1) - n /\ m \in index[k].start + 1 .. index[k].end}
           lines == Cardinality(C)
           fetched == Dataset((l + 1) - n, days)
           new == Dataset(l + 1, days)
           first == IF index = <<>> THEN 0 ELSE Last(index).end
           kept == SubSeq(rows, 1, Len(rows) - lines)
           more == BuildIndex(new, first)
<1>1. days \in Nat /\ Lookahead \in Nat
  BY DayTyped
<1>2. /\ rows \in Seq(Rows) /\ index \in Seq(Entries) /\ Len(index) <= l /\ l \in 1..(days - 1)
      /\ Len(rows) \in Nat /\ Len(index) \in Nat /\ DOMAIN rows = 1..Len(rows)
  BY LenProperties DEF DiskTypeInv, UpdateDataset
<1>3. /\ table' = [last |-> days, rows |-> kept \o fetched, index |-> index \o more]
      /\ UNCHANGED <<days, expression, held>>
  BY DEF UpdateDataset
<1> HIDE DEF rows, index, l
<1>4. n \in 0..Len(index)
  BY <1>1, <1>2 DEF RemoveN, Smaller
<1> HIDE DEF n
<1>5. (l + 1) - n \in 1..(days + 1) /\ l + 1 \in 1..(days + 1) /\ days + 1 - (l + 1) = days - l
  BY <1>1, <1>2, <1>4
<1>6. fetched \in Seq(Rows)
  <2> DEFINE a == (l + 1) - n
  <2>1. a \in 1..(days + 1)
    BY <1>5
  <2> HIDE DEF a
  <2>2. Dataset(a, days) \in Seq(RowsSince(a))
    BY <2>1, DatasetTyped
  <2>3. Dataset(a, days) \in Seq(Rows)
    BY <2>2, RowsFromAre
  <2> QED BY <2>3 DEF a
<1>7. new \in Seq(RowsSince(l + 1))
  BY <1>5, DatasetTyped
<1>8. lines \in Nat
  <2>1. IsFiniteSet(1..Len(rows)) /\ C \in SUBSET (1..Len(rows))
    BY <1>2, FS_Interval
  <2> HIDE DEF C
  <2> QED BY <2>1, SizeOfSubset
<1>9. first \in Nat
  <2>1. CASE index = <<>>
    BY <2>1
  <2>2. CASE index # <<>>
    <3>1. Len(index) \in 1..Len(index)
      BY <1>2, <2>2
    <3>2. index[Len(index)] \in Entries
      BY <1>2, <3>1, ElementOfSeq
    <3> QED BY <2>2, <3>2 DEF Last, Entries
  <2> QED BY <2>1, <2>2
<1> HIDE DEF fetched, new, lines, first
<1>10. kept \in Seq(Rows)
  <2>1. 1 \in Int /\ Len(rows) - lines \in Int /\ \A k \in 1..(Len(rows) - lines) : rows[k] \in Rows
    BY <1>2, <1>8, ElementOfSeq
  <2> QED BY <2>1, SubSeqProperties
<1> HIDE DEF kept
<1>11. more \in Seq(Entries) /\ Len(more) \in Nat /\ Len(more) <= days + 1 - (l + 1)
  BY <1>5, <1>7, <1>9, IndexTyped
<1> HIDE DEF more
<1>12. kept \o fetched \in Seq(Rows)
  BY <1>6, <1>10, ConcatProperties
<1>13. index \o more \in Seq(Entries) /\ Len(index \o more) = Len(index) + Len(more)
  BY <1>2, <1>11, ConcatProperties
<1>14. Len(index \o more) <= days
  BY <1>1, <1>2, <1>5, <1>11, <1>13
<1>15. table'.last = days /\ table'.rows = kept \o fetched /\ table'.index = index \o more
  BY <1>3
<1>16. days \in 0..days
  BY <1>1
<1> QED BY <1>3, <1>12, <1>13, <1>14, <1>15, <1>16 DEF DiskTypeInv

LEMMA DiskTypeNext ==
    DiskShape /\ DiskTypeInv /\ [CacheNext]_cacheVars => DiskTypeInv'
<1> SUFFICES ASSUME DiskShape, DiskTypeInv, [CacheNext]_cacheVars PROVE DiskTypeInv'
  OBVIOUS
<1>1. days \in 1..MaxDays /\ MaxDays \in Nat
  BY DayTyped
<1>2. CASE NewDay
  <2>1. days' = days + 1 /\ days < MaxDays /\ UNCHANGED <<expression, table, held>>
    BY <1>2 DEF NewDay
  <2>2. table'.last \in 0..days' /\ days' <= MaxDays
    BY <1>1, <2>1 DEF DiskTypeInv
  <2> QED BY <2>1, <2>2 DEF DiskTypeInv
<1>3. ASSUME NEW i \in Instrument, NewBar(i) PROVE DiskTypeInv'
  BY <1>3 DEF NewBar, DiskTypeInv
<1>4. CASE Restart \/ ReadIndex \/ UNCHANGED cacheVars
  <2>1. UNCHANGED <<days, expression, table>> /\ held' \in {<<>>, table.index, held}
    BY <1>4 DEF Restart, ReadIndex, cacheVars
  <2>2. held' \in Seq(Entries)
    <3>1. <<>> \in Seq(Entries) /\ table.index \in Seq(Entries) /\ held \in Seq(Entries)
      BY DEF DiskTypeInv
    <3> QED BY <2>1, <3>1
  <2> QED BY <2>1, <2>2 DEF DiskTypeInv
<1> QED BY <1>2, <1>3, <1>4, GenTyped, UpdateTyped, GenDatasetTyped, UpdateDatasetTyped DEF CacheNext

LEMMA CacheTyped == DiskShape /\ DiskTypeInv => CacheTypeOK
<1> SUFFICES ASSUME DiskShape, DiskTypeInv PROVE CacheTypeOK
  OBVIOUS
<1>1. /\ days \in 1..MaxDays /\ MaxDays \in Nat
      /\ \A i \in Instrument : bins[i] \in 1..MaxDays
  BY DayTyped
<1>2. bins \in [Instrument -> 1..MaxDays] /\ lagging \in BOOLEAN
  BY <1>1 DEF DiskShape
<1>3. \A i \in Instrument : expression[i].last \in 0..MaxDays /\ expression[i].cells \in Seq(Cells)
  <2> TAKE i \in Instrument
  <2>1. expression[i].last \in Nat /\ expression[i].last <= days
    BY DEF DiskShape
  <2> QED BY <1>1, <2>1 DEF DiskTypeInv
<1>4. table.last \in 0..MaxDays
  BY <1>1 DEF DiskTypeInv
<1> QED BY <1>1, <1>2, <1>3, <1>4 DEF DiskTypeInv, CacheTypeOK

\* However the files are made and brought up to date, complete or lagging: every value and
\* every row is of a day of the calendar, and no index starts before its file.
THEOREM CacheTypeCorrect == CacheSpec => []CacheTypeOK
BY DiskIsInductive, DiskTypeInit, DiskTypeNext, CacheTyped, PTL DEF CacheSpec
=============================================================================

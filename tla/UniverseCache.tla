---------------------------- MODULE UniverseCache ----------------------------
(***************************************************************************)
(* H["i"], the memory cache of instrument lists (MemCacheUnit in           *)
(* data/cache.py), as the threads of the UI server use it:                 *)
(* LocalInstrumentProvider.list_instruments looks, gets or loads, and      *)
(* stores in separate calls, each of which takes the lock for itself; the  *)
(* universe check of a prediction clears the cache first; updates replace  *)
(* the files.                                                              *)
(*                                                                         *)
(* The content of the files is known by the number of updates before it.   *)
(***************************************************************************)
EXTENDS Integers, SequencesExt

CONSTANTS
    Asker,        \* threads
    Pool,
    SizeLimit,    \* size_limit; 0 for none
    MaxVersions,  \* bound on the updates of the files
    MaxQueries    \* bound on the queries

ASSUME UniverseAssumption ==
    /\ Pool # {}
    /\ SizeLimit \in Nat /\ MaxVersions \in Nat /\ MaxQueries \in Nat

VARIABLES
    onFile,   \* updates of the instruments files so far
    od,       \* the OrderedDict, oldest first: [key, value]
    size,     \* _size
    ask,      \* ask[t]: where thread t stands, its market, what it has loaded or got
    queries,  \* auxiliary: queries so far
    least     \* auxiliary: least[t]: the oldest content t may be given

universeVars == <<onFile, od, size, ask, queries, least>>

Version == 0..MaxVersions
Steps   == {"idle", "clear", "look", "get", "load", "store", "answered", "failed"}

UniverseTypeOK ==
    /\ onFile \in Version
    /\ od \in Seq([key : Pool, value : Version])
    /\ size \in Nat
    /\ ask \in [Asker -> [at : Steps, market : Pool, value : Version]]
    /\ queries \in 0..MaxQueries
    /\ least \in [Asker -> Version]

UniverseInit ==
    /\ onFile = 0
    /\ od = <<>> /\ size = 0
    /\ ask = [t \in Asker |-> [at |-> "idle", market |-> CHOOSE m \in Pool : TRUE, value |-> 0]]
    /\ queries = 0
    /\ least = [t \in Asker |-> 0]

Keys == {od[i].key : i \in DOMAIN od}
PlaceOf(m) == CHOOSE i \in DOMAIN od : od[i].key = m
Entry(m) == od[PlaceOf(m)]
Others(m) == IF m \in Keys THEN RemoveAt(od, PlaceOf(m)) ELSE od

\* The length unit counts every value as 1.  _adjust_size takes off what it replaces.
Adjusted(m) == IF m \in Keys THEN size ELSE size + 1

\* A query, with or without a clear before it (_expected_universe_for_date).
AskFor(t, m, clears) ==
    /\ ask[t].at \in {"idle", "answered", "failed"}
    /\ queries < MaxQueries
    /\ queries' = queries + 1
    /\ ask' = [ask EXCEPT ![t] = [at |-> IF clears THEN "clear" ELSE "look", market |-> m, value |-> 0]]
    /\ least' = [least EXCEPT ![t] = 0]
    /\ UNCHANGED <<onFile, od, size>>

\* Contents of a market's file that are read already and not yet stored.
InFlight(m) == {ask[t].value : t \in {u \in Asker : ask[u].at = "store" /\ ask[u].market = m}}

\* H["i"].clear(): what is older can only come back through a load under way.
ClearFirst(t) ==
    /\ ask[t].at = "clear"
    /\ od' = <<>> /\ size' = 0
    /\ least' = [least EXCEPT ![t] = Min({onFile} \cup InFlight(ask[t].market))]
    /\ ask' = [ask EXCEPT ![t].at = "look"]
    /\ UNCHANGED <<onFile, queries>>

\* market in H["i"]
LookIn(t) ==
    /\ ask[t].at = "look"
    /\ ask' = [ask EXCEPT ![t].at = IF ask[t].market \in Keys THEN "get" ELSE "load"]
    /\ UNCHANGED <<onFile, od, size, queries, least>>

\* H["i"][market] makes the key the latest one, or raises KeyError when it has gone.
GetItem(t) ==
    LET m == ask[t].market IN
    /\ ask[t].at = "get"
    /\ IF m \in Keys
       THEN /\ od' = Append(Others(m), Entry(m))
            /\ ask' = [ask EXCEPT ![t] = [at |-> "answered", market |-> m, value |-> Entry(m).value]]
       ELSE /\ ask' = [ask EXCEPT ![t].at = "failed"]
            /\ UNCHANGED od
    /\ UNCHANGED <<onFile, size, queries, least>>

\* _load_instruments reads the file.
LoadFile(t) ==
    /\ ask[t].at = "load"
    /\ ask' = [ask EXCEPT ![t] = [at |-> "store", market |-> ask[t].market, value |-> onFile]]
    /\ UNCHANGED <<onFile, od, size, queries, least>>

\* __setitem__: the oldest items go when the unit is over its limit.
Store(t) ==
    LET m    == ask[t].market
        q    == Append(Others(m), [key |-> m, value |-> ask[t].value])
        n    == Adjusted(m)
        over == IF SizeLimit > 0 /\ n > SizeLimit THEN n - SizeLimit ELSE 0
    IN  /\ ask[t].at = "store"
        /\ od' = SubSeq(q, over + 1, Len(q))
        /\ size' = n - over
        /\ ask' = [ask EXCEPT ![t].at = "answered"]
        /\ UNCHANGED <<onFile, queries, least>>

\* An update replaces the files; not every one clears the cache afterwards.
Replace ==
    /\ onFile < MaxVersions
    /\ onFile' = onFile + 1
    /\ UNCHANGED <<od, size, ask, queries, least>>

\* _clear_runtime_universe_caches, and the end of an update of the personal pool.
ClearUniverse ==
    /\ od # <<>>
    /\ od' = <<>> /\ size' = 0
    /\ UNCHANGED <<onFile, ask, queries, least>>

UniverseNext ==
    \/ \E t \in Asker :
          \/ \E m \in Pool, clears \in BOOLEAN : AskFor(t, m, clears)
          \/ ClearFirst(t) \/ LookIn(t) \/ GetItem(t) \/ LoadFile(t) \/ Store(t)
    \/ Replace \/ ClearUniverse

UniverseSpec == UniverseInit /\ [][UniverseNext]_universeVars

-----------------------------------------------------------------------------
\* Properties.

\* The universe a prediction is checked against is no older than the files were when it
\* cleared the cache, or than a list another thread had read by then and not yet stored
\* (model_service.py:324): no older entry survives.
UniverseFresh ==
    \A t \in Asker : ask[t].at = "answered" => ask[t].value >= least[t]

\* The unit counts what it holds, one entry for each key, so that it evicts at its
\* limit and not before, however sets, evictions and clears are interleaved.
SizeTrue ==
    /\ size = Len(od)
    /\ \A i, j \in DOMAIN od : od[i].key = od[j].key => i = j
    /\ SizeLimit > 0 => size <= SizeLimit

UniverseTrue == UniverseFresh /\ SizeTrue
=============================================================================

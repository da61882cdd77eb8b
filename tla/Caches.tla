-------------------------------- MODULE Caches --------------------------------
(***************************************************************************)
(* The caches of the data layer: the files of expressions and datasets,    *)
(* and the lists of instruments in memory.                                 *)
(***************************************************************************)
EXTENDS DiskCache, UniverseCache

\* Caches, on disk and in memory, give what the files hold.
CachesTrue == CacheTrue /\ UniverseTrue
=============================================================================

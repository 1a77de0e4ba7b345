------------------------------- MODULE Caches -------------------------------
(***************************************************************************)
(* The query cache and the managers that hold caches.  CacheManager gives  *)
(* a cache by the identity of its nodes only, and each thread's cache is   *)
(* that thread's own, so that the two are looked at one at a time: the     *)
(* calls of one cache, or the copies of the managers.                      *)
(***************************************************************************)
EXTENDS QueryCache, CacheManager

VARIABLE lookedAt  \* "cache" or "managers"

cachesVars == <<vars, managerVars, lookedAt>>

CachesInit == Init /\ ManagerInit /\ lookedAt \in {"cache", "managers"}

CachesNext ==
  \/ lookedAt = "cache" /\ Next /\ UNCHANGED <<managerVars, lookedAt>>
  \/ lookedAt = "managers" /\ ManagerNext /\ UNCHANGED <<vars, lookedAt>>

\* A cache need not be called; the threads that use the managers run.
CachesSpec == CachesInit /\ [][CachesNext]_cachesVars /\ ThreadsRun
=============================================================================

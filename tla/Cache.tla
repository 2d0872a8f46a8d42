-------------------------------- MODULE Cache --------------------------------
(***************************************************************************)
(* collections/cache.h and cache.cpp: entries that expire.  Every call     *)
(* holds cache_lock to its end, so that one thread stands for all.  The    *)
(* clean-up thread is never started (cache.cpp, line 70), and so nothing   *)
(* is ever removed; first_expire_time is for that thread only.             *)
(*                                                                         *)
(* An entry has a key object, which addEntry makes for it, and a value:    *)
(* both are named by the number of the call.                               *)
(***************************************************************************)
EXTENDS Integers, SequencesExt

CONSTANTS CacheKeys,
          CacheTimes,   \* bound: the time goes from 1 to CacheTimes
          CacheAdds     \* bound: calls of addEntry

ASSUME CacheAssumption == CacheTimes \in Nat /\ CacheAdds \in Nat

VARIABLES cacheNow,       \* the clock
          cacheAdded,     \* the calls of addEntry: [key, expire]; the pool keys
          cacheEntries,   \* entries: [expire, object]
          cacheGot        \* the last getEntry: [key, object, at]; object 0 for out_of_range

cacheVars == <<cacheNow, cacheAdded, cacheEntries, cacheGot>>

CacheNothing == [key |-> "none", object |-> 0, at |-> 0]

CacheInit ==
    /\ cacheNow = 1 /\ cacheAdded = <<>> /\ cacheEntries = <<>>
    /\ cacheGot = CacheNothing

CacheTick ==
    /\ cacheNow < CacheTimes
    /\ cacheNow' = cacheNow + 1
    /\ UNCHANGED <<cacheAdded, cacheEntries, cacheGot>>

(* the loop of addEntry goes on after it inserted: the entry is put before *)
(* each one that expires later, and nowhere when there is none             *)
CacheInsert(entries, new) ==
    IF entries = <<>> THEN <<new>>
    ELSE FlattenSeq([i \in DOMAIN entries |->
           IF entries[i].expire > new.expire THEN <<new, entries[i]>> ELSE <<entries[i]>>])

CacheAdd(expire, key) ==
    /\ Len(cacheAdded) < CacheAdds
    /\ cacheAdded' = Append(cacheAdded, [key |-> key, expire |-> expire])
    /\ cacheEntries' = CacheInsert(cacheEntries, [expire |-> expire, object |-> Len(cacheAdded) + 1])
    /\ UNCHANGED <<cacheNow, cacheGot>>

\* Faulty variant: an entry that expired is returned.
CacheFindAny(object) == {i \in DOMAIN cacheEntries : cacheEntries[i].object = object}

\* generic_cache::getEntry: the entries it may return, which all have the same value
CacheFind(object) ==
    {i \in DOMAIN cacheEntries : cacheEntries[i].object = object /\ ~(cacheNow > cacheEntries[i].expire)}

\* keys.find gives an object that holds key, if there is one
CacheGet(key) ==
    LET objects == {n \in DOMAIN cacheAdded : cacheAdded[n].key = key} IN
    /\ \E object \in IF objects = {} THEN {0} ELSE objects :
         cacheGot' = [key |-> key, at |-> cacheNow,
                      object |-> IF CacheFind(object) = {} THEN 0 ELSE object]
    /\ UNCHANGED <<cacheNow, cacheAdded, cacheEntries>>

CacheNext ==
    \/ CacheTick
    \/ \E expire \in 1..CacheTimes, key \in CacheKeys : CacheAdd(expire, key)
    \/ \E key \in CacheKeys : CacheGet(key)

CacheSpec == CacheInit /\ [][CacheNext]_cacheVars

-----------------------------------------------------------------------------
(* However entries of one key or of several, expired or not, are ordered,  *)
(* repeated or dropped by addEntry: what getEntry returns was added for    *)
(* that key and had not expired when it was returned.                      *)
CacheReturnsFresh ==
    cacheGot.object # 0 =>
        /\ cacheAdded[cacheGot.object].key = cacheGot.key
        /\ cacheGot.at <= cacheAdded[cacheGot.object].expire

\* the entries that calls of addEntry may have made
CacheMade == {[expire |-> cacheAdded[n].expire, object |-> n] : n \in DOMAIN cacheAdded}

CacheTypeOK ==
    /\ cacheNow \in Int
    /\ cacheAdded \in Seq([key : CacheKeys, expire : Int])
    /\ cacheEntries \in Seq(CacheMade)
    /\ cacheGot.object \in {0} \union DOMAIN cacheAdded

\* the inductive invariant: what is in entries carries the time of the call that made it
CacheIInv == CacheTypeOK /\ CacheReturnsFresh
=============================================================================

---------------------------- MODULE SecretGetter ----------------------------
(***************************************************************************)
(* kubeclientSecretGetter (pkg/interceptors/secret_getter.go): secrets of  *)
(* the API server behind a cache with a capacity and a time to live.  The  *)
(* cache is a sequence of entries, the last used one first.                *)
(***************************************************************************)
EXTENDS Integers, Sequences, SequencesExt

CONSTANTS
    SecretRef,   \* <<namespace, name, key>> of the values that triggers refer to
    Value,       \* what a secret may hold
    CacheSize,   \* cacheSize
    TTL          \* ttl

\* The name of a trigger's secret: cacheKey
CacheKey(ns, sr) == <<ns, sr.secretName, sr.secretKey>>

EntriesOf(cache, key) == {i \in DOMAIN cache : cache[i].key = key}

Held(cache, key) == {cache[i] : i \in EntriesOf(cache, key)}

\* The cache without the entry of a key
Others(cache, key) ==
    IF EntriesOf(cache, key) = {} THEN cache ELSE RemoveAt(cache, CHOOSE i \in EntriesOf(cache, key) : TRUE)

\* Get of LRUExpireCache finds an entry that has not expired
Hit(cache, key, now) == {e \in Held(cache, key) : now <= e.expires}

\* It makes that entry the last used one; an expired entry is removed
LRUGet(cache, key, now) ==
    LET hit == Hit(cache, key, now)
    IN  IF hit = {} THEN Others(cache, key)
        ELSE <<CHOOSE e \in hit : TRUE>> \o Others(cache, key)

\* Mutant: nothing is evicted
LRUAddAll(cache, key, value, now) ==
    <<[key |-> key, value |-> value, expires |-> now + TTL]>> \o Others(cache, key)

\* Add of LRUExpireCache evicts the entry that was used least recently
LRUAdd(cache, key, value, now) ==
    LET rest == Others(cache, key)
        room == IF Held(cache, key) = {} /\ Len(cache) >= CacheSize
                THEN SubSeq(rest, 1, Len(rest) - 1) ELSE rest
    IN  <<[key |-> key, value |-> value, expires |-> now + TTL]>> \o room
=============================================================================

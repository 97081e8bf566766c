------------------------------ MODULE LRUCache ------------------------------
(***************************************************************************)
(* src/LRU_with_TTL/LRUCache.cpp: get and put of LRUCacheWithTTL.  The     *)
(* class is used by one thread, so a call is one action; but a call reads  *)
(* the clock more than once, and time may pass between the readings.       *)
(*                                                                         *)
(* key_map is the set of keys that have an entry.  An entry's iterator     *)
(* points at the list node with that key; when there is none it dangles.   *)
(***************************************************************************)
EXTENDS Integers, Sequences

CONSTANTS Key, Value,
          Capacity,     \* constructor argument capacity
          Ttl,          \* constructor argument ttl, in clock ticks
          MaxTime       \* bound: the clock stops here

ASSUME CapacityAssumption == Capacity \in Nat \ {0}
ASSUME TimeAssumption == Ttl \in Nat /\ MaxTime \in Nat

Absent == -1            \* what get returns for a key it does not find
NeverPut == [value |-> Absent, expire |-> -1]

VARIABLES
    now,        \* std::chrono::steady_clock
    cache,      \* the list, most recently used first: key, value, expire_time
    key_map,    \* the keys of the unordered_map
    reply,      \* the last get: its key, its result, the clock when it returned
    corrupt,    \* an erased node has been used as if it were in the list
    \* History, never read by the code:
    misread,    \* line 56 read another key than the one line 55 erased
    last,       \* last[k]: value and expiry of the latest put of k
    recency     \* all keys ever put, the latest put or found first

vars == <<now, cache, key_map, reply, corrupt, misread, last, recency>>

Keys(s) == {s[i].key : i \in 1 .. Len(s)}

(* Where the iterator of k points: k's latest node, the first in the list. *)
At(s, k) == CHOOSE i \in 1 .. Len(s) : s[i].key = k /\ \A j \in 1 .. i - 1 : s[j].key # k

Init ==
    /\ now = 0
    /\ cache = <<>>
    /\ key_map = {}
    /\ reply \in [key : Key, result : {Absent}, at : {0}]   \* no get yet
    /\ corrupt = FALSE /\ misread = FALSE
    /\ last = [k \in Key |-> NeverPut]
    /\ recency = <<>>

Tick ==
    /\ now < MaxTime
    /\ now' = now + 1
    /\ UNCHANGED <<cache, key_map, reply, corrupt, misread, last, recency>>

-----------------------------------------------------------------------------
Expired_late(n, t) == n.expire < t       \* BUG: alive at its expiry time
Expired(n, t) == n.expire <= t           \* is_expired, and line 30

(* The loop of clean_expire(): Survivors(s, t)[i] is what is left of the   *)
(* first i nodes of s when those expired at time t are erased.             *)
Survivors(s, t) ==
    LET f[i \in 0 .. Len(s)] ==
            IF i = 0 THEN <<>>
            ELSE IF Expired(s[i], t) THEN f[i - 1] ELSE Append(f[i - 1], s[i])
    IN  f

(* clean_expire(): list and map without the nodes expired at time t. *)
Cleaned(t) == Survivors(cache, t)[Len(cache)]
CleanedMap_forgotten(t) == key_map       \* BUG: the map keeps expired keys
CleanedMap(t) == key_map \ {n.key : n \in {m \in {cache[i] : i \in 1 .. Len(cache)} : Expired(m, t)}}

(* list::erase: s without its i-th element. *)
Erase(s, i) == [j \in 1 .. Len(s) - 1 |-> IF j < i THEN s[j] ELSE s[j + 1]]
Without(s, k) == Erase(s, At(s, k))

(* recency when k is used. *)
MostRecent(k) ==
    LET old == {i \in 1 .. Len(recency) : recency[i] = k}
    IN  <<k>> \o IF old = {} THEN recency ELSE Erase(recency, CHOOSE i \in old : TRUE)

Touch_none(s, k) == s                    \* BUG: a key that is found stays where it is
Touch(s, k) == <<s[At(s, k)]>> \o Without(s, k)  \* cache.splice(cache.begin(), ...)

Reply(k, r, t) == reply' = [key |-> k, result |-> r, at |-> t]

(* What line 56 may read as the key of the node that line 55 has erased:   *)
(* that key, if the freed memory is still intact, or anything else.        *)
ErasedKey == Key \union {Absent}

(* get of a key whose entry is in the list.  t1 is the clock clean_expire  *)
(* reads, t2 the clock is_expired reads.                                   *)
GetFound(k, t2) ==
    LET c == Cleaned(now)
        m == CleanedMap(now)
        n == c[At(c, k)]
    IN  /\ k \in m /\ k \in Keys(c)
        /\ now' = t2
        /\ IF Expired(n, t2)
           THEN /\ cache' = Without(c, k)
                /\ \E e \in ErasedKey :
                      key_map' = m \ {e} /\ misread' = (misread \/ e # k)
                /\ Reply(k, Absent, t2)
                /\ UNCHANGED recency
           ELSE /\ cache' = Touch(c, k)
                /\ key_map' = m
                /\ Reply(k, n.value, t2)
                /\ recency' = MostRecent(k)
                /\ UNCHANGED misread
        /\ UNCHANGED <<corrupt, last>>

GetMissing(k) ==
    /\ k \notin CleanedMap(now)
    /\ cache' = Cleaned(now)
    /\ key_map' = CleanedMap(now)
    /\ Reply(k, Absent, now)
    /\ UNCHANGED <<now, corrupt, misread, last, recency>>

(* get of a key whose map entry outlived its node: expire_time and value   *)
(* are read from the erased node and the node is spliced into the list.    *)
GetDangling(k) ==
    /\ k \in CleanedMap(now) /\ k \notin Keys(Cleaned(now))
    /\ \E r \in Value \union {Absent} : Reply(k, r, now)
    /\ corrupt' = TRUE
    /\ UNCHANGED <<now, cache, key_map, misread, last, recency>>

IsFull_off(s) == Len(s) > Capacity       \* BUG: room for one node too many
IsFull(s) == Len(s) = Capacity

Evicted(s) == s[Len(s)].key              \* last_key
Dropped(s) == Erase(s, Len(s))           \* cache.pop_back()

(* put of a key that has no entry: evict the last node when the list is    *)
(* full, then insert in front.  t2 is the clock the Node constructor reads.*)
PutNew(k, v, t2) ==
    LET c == Cleaned(now)
        m == CleanedMap(now)
        room == IF IsFull(c) THEN Dropped(c) ELSE c
        left == IF IsFull(c) THEN m \ {Evicted(c)} ELSE m
    IN  /\ k \notin m
        /\ now' = t2
        /\ cache' = <<[key |-> k, value |-> v, expire |-> t2 + Ttl]>> \o room
        /\ key_map' = left \union {k}
        /\ last' = [last EXCEPT ![k] = [value |-> v, expire |-> t2 + Ttl]]
        /\ recency' = MostRecent(k)
        /\ UNCHANGED <<reply, corrupt, misread>>

(* put of a key that has an entry: value and expiry are replaced and the   *)
(* node moves to the front.                                                *)
PutUpdate(k, v, t2) ==
    LET c == Cleaned(now)
    IN  /\ k \in CleanedMap(now) /\ k \in Keys(c)
        /\ now' = t2
        /\ cache' = <<[key |-> k, value |-> v, expire |-> t2 + Ttl]>> \o Without(c, k)
        /\ key_map' = CleanedMap(now)
        /\ last' = [last EXCEPT ![k] = [value |-> v, expire |-> t2 + Ttl]]
        /\ recency' = MostRecent(k)
        /\ UNCHANGED <<reply, corrupt, misread>>

(* put of a key whose map entry outlived its node: line 77 writes to, and  *)
(* line 79 splices, an erased node.                                        *)
PutDangling(k, v) ==
    /\ k \in CleanedMap(now) /\ k \notin Keys(Cleaned(now))
    /\ corrupt' = TRUE
    /\ UNCHANGED <<now, cache, key_map, reply, misread, last, recency>>

-----------------------------------------------------------------------------
(* Once memory has been corrupted nothing more is said about the program. *)
Get(k) ==
    /\ ~corrupt
    /\ \/ \E t2 \in now .. MaxTime : GetFound(k, t2)
       \/ GetMissing(k)
       \/ GetDangling(k)

Put(k, v) ==
    /\ ~corrupt
    /\ \/ \E t2 \in now .. MaxTime : PutNew(k, v, t2) \/ PutUpdate(k, v, t2)
       \/ PutDangling(k, v)

Next == Tick \/ \E k \in Key : Get(k) \/ \E v \in Value : Put(k, v)

Spec == Init /\ [][Next]_vars
-----------------------------------------------------------------------------
TypeOK ==
    /\ now \in 0 .. MaxTime
    /\ \A i \in 1 .. Len(cache) :
          cache[i] \in [key : Key, value : Value, expire : 0 .. (MaxTime + Ttl)]
    /\ key_map \in SUBSET Key
    /\ reply \in [key : Key, result : Value \union {Absent}, at : 0 .. MaxTime]
    /\ corrupt \in BOOLEAN /\ misread \in BOOLEAN
    /\ recency \in Seq(Key)

(* Map and list describe the same entries: every iterator in key_map       *)
(* points into the list, and no key is in the list twice (lines 31-32,     *)
(* 55-56, 71-75), as long as line 56 found the key of the node it erased.  *)
(* So no erased node is used before that happens.                          *)
MapMatchesList ==
    /\ TypeOK
    /\ ~misread =>
          /\ key_map = Keys(cache)
          /\ \A i, j \in 1 .. Len(cache) : cache[i].key = cache[j].key => i = j
          /\ ~corrupt

(* The list never exceeds the capacity, even after a key_map entry has     *)
(* been left behind by the expired branch of get: the test of line 69 is   *)
(* for equality, so it must be met every time before the list grows.       *)
SizeBounded == Len(cache) <= Capacity

(* A get that fails does so for a reason: the key was never put, has       *)
(* expired, or Capacity other keys were used after it (so that only the    *)
(* least recently used key is ever evicted).                               *)
MissHasReason ==
    [][\A k \in Key : ~misread /\ Get(k) /\ reply'.result = Absent =>
          \/ last[k].expire <= now'
          \/ \E i \in 1 .. Len(recency) : recency[i] = k /\ i > Capacity]_vars

(* A get that succeeds returns the value of the latest put of that key,    *)
(* which has not expired: the driver says of a key that has, "返回-1        *)
(* （过期）" (line 98).                                                      *)
HitIsLatest ==
    [][\A k \in Key : ~misread /\ Get(k) /\ reply'.result # Absent =>
          reply'.result = last[k].value /\ last[k].expire > now']_vars
=============================================================================

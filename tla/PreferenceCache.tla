-------------------------- MODULE PreferenceCache --------------------------
(***************************************************************************)
(* services/personalization_service.py: the cache of preference vectors,   *)
(* its TTL, its size limit and the per-member asyncio.Lock that keeps two   *)
(* coroutines from computing the same vector at once.                      *)
(*                                                                         *)
(* The service runs on one event loop, so code between two awaits is one   *)
(* step.  get_preference_vector awaits in three places: on the lock, on    *)
(* the purchase history (a thread) and on the product embeddings.          *)
(***************************************************************************)
EXTENDS Naturals, FiniteSets, SequencesExt

CONSTANTS
    Member,        \* MEMBER_IDs
    Coroutine,     \* requests running get_preference_vector
    Lock,          \* identities of asyncio.Lock objects
    None,          \* no lock, no member
    CacheMax,      \* PERSONALIZATION_CACHE_MAX
    CacheTtl,      \* PERSONALIZATION_CACHE_TTL, in ticks
    MaxTime,       \* bound on the clock
    Cancellation   \* a client that hangs up cancels its coroutine

ASSUME PreferenceCacheAssumption ==
    /\ IsFiniteSet(Member)
    /\ None \notin Member \cup Lock
    /\ CacheMax \in Nat \ {0}
    /\ CacheTtl \in Nat
    /\ MaxTime \in Nat
    /\ Cancellation \in BOOLEAN

VARIABLES
    now,       \* time.time()
    cached,    \* keys of _cache
    stamp,     \* the time a key was stored
    lockOf,    \* _locks: the lock object of a member, None when absent
    locked,    \* lock objects whose _locked flag is set
    waiters,   \* the _waiters deque of every lock object
    woken,     \* coroutines whose waiter future is set, not yet resumed
    pc,        \* where a coroutine is suspended
    who,       \* the member it was called for
    lk         \* the lock object its async with holds or waits for

vars == <<now, cached, stamp, lockOf, locked, waiters, woken, pc, who, lk>>

Pc == {"idle", "wait", "fetch", "embed"}

TypeOK ==
    /\ now \in 0..MaxTime
    /\ cached \in SUBSET Member
    /\ stamp \in [Member -> 0..MaxTime]
    /\ lockOf \in [Member -> Lock \cup {None}]
    /\ locked \in SUBSET Lock
    /\ waiters \in [Lock -> Seq(Coroutine)]
    /\ woken \in SUBSET Coroutine
    /\ pc \in [Coroutine -> Pc]
    /\ who \in [Coroutine -> Member \cup {None}]
    /\ lk \in [Coroutine -> Lock \cup {None}]

Init ==
    /\ now = 0
    /\ cached = {}
    /\ stamp = [m \in Member |-> 0]
    /\ lockOf = [m \in Member |-> None]
    /\ locked = {}
    /\ waiters = [l \in Lock |-> <<>>]
    /\ woken = {}
    /\ pc = [c \in Coroutine |-> "idle"]
    /\ who = [c \in Coroutine |-> None]
    /\ lk = [c \in Coroutine |-> None]

-----------------------------------------------------------------------------
(* The cache.                                                              *)

Expired(m) == now > stamp[m] + CacheTtl

\* _cache_get finds an entry that is still valid.
Hit(m) == m \in cached /\ ~Expired(m)

FullTooLate(keys) == Cardinality(keys) > CacheMax

\* One more key would not fit.
Full(keys) == Cardinality(keys) >= CacheMax

\* The sets _evict_if_needed can leave of a cache: as it is below the limit,
\* else without the expired keys, else also without the oldest ones, as many
\* as make room for one key more.  Keys of one tick go in any order.
EvictIfNeeded(keys) ==
    LET fresh == {m \in keys : ~Expired(m)}
        Oldest(old) == /\ Cardinality(old) = Cardinality(fresh) - CacheMax + 1
                       /\ \A m \in old, n \in fresh \ old : stamp[m] <= stamp[n]
    IN IF ~Full(keys) THEN {keys}
       ELSE IF ~Full(fresh) THEN {fresh}
       ELSE {fresh \ old : old \in {o \in SUBSET fresh : Oldest(o)}}

\* _drop_member also forgets the lock of the key, unless it is held.
DropLocks(dropped) ==
    [m \in Member |->
        IF m \in dropped /\ lockOf[m] \notin locked THEN None ELSE lockOf[m]]

CachePutExpiry(m) ==
    \E kept \in EvictIfNeeded(cached) :
        /\ cached' = kept \cup {m}
        /\ stamp' = [stamp EXCEPT ![m] = now + CacheTtl]
        /\ lockOf' = DropLocks(cached \ kept)

\* _cache_put of a coroutine's member.
CachePut(m) ==
    \E kept \in EvictIfNeeded(cached) :
        /\ cached' = kept \cup {m}
        /\ stamp' = [stamp EXCEPT ![m] = now]
        /\ lockOf' = DropLocks(cached \ kept)

-----------------------------------------------------------------------------
(* asyncio.Lock.                                                           *)

\* A lock object nobody refers to: neither _locks nor a coroutine.
Unused(l) == l \notin {lockOf[m] : m \in Member} \cup {lk[c] : c \in Coroutine}

\* acquire takes a lock at once when it is free and nobody waits for it.
Free(l) == l \notin locked /\ waiters[l] = <<>>

\* _wake_up_first sets the future of the waiter at the head of the queue.
FirstOf(queue) == IF queue = <<>> THEN {} ELSE {Head(queue)}

\* release, at the end of the async with block of a coroutine that returns.
ReleaseAndReturn(c) ==
    /\ locked' = locked \ {lk[c]}
    /\ woken' = woken \cup FirstOf(waiters[lk[c]])
    /\ pc' = [pc EXCEPT ![c] = "idle"]
    /\ lk' = [lk EXCEPT ![c] = None]
    /\ who' = [who EXCEPT ![c] = None]

-----------------------------------------------------------------------------
(* get_preference_vector.                                                  *)

NewLock(m) == {l \in Lock : Unused(l)}

\* _get_lock: the lock in _locks, or a new one that is stored there.
GetLock(m) == IF lockOf[m] # None THEN {lockOf[m]} ELSE {l \in Lock : Unused(l)}

\* A call that finds a valid entry returns it and changes nothing.
CallHit(c, m) ==
    /\ pc[c] = "idle" /\ Hit(m)
    /\ UNCHANGED vars

\* The call that misses drops the expired entry and reaches the lock.  A free
\* lock is entered without an await, so the second look at the cache misses too.
CallMiss(c, m) ==
    /\ pc[c] = "idle" /\ ~Hit(m)
    /\ cached' = cached \ {m}
    /\ \E l \in GetLock(m) :
        /\ lockOf' = [lockOf EXCEPT ![m] = l]
        /\ lk' = [lk EXCEPT ![c] = l]
        /\ IF Free(l)
           THEN /\ locked' = locked \cup {l}
                /\ pc' = [pc EXCEPT ![c] = "fetch"]
                /\ UNCHANGED waiters
           ELSE /\ waiters' = [waiters EXCEPT ![l] = Append(@, c)]
                /\ pc' = [pc EXCEPT ![c] = "wait"]
                /\ UNCHANGED locked
    /\ who' = [who EXCEPT ![c] = m]
    /\ UNCHANGED <<now, stamp, woken>>

\* A woken waiter takes the lock and looks again; what the holder before it
\* stored ends its call, and the lock passes on.
ResumeHit(c) ==
    /\ pc[c] = "wait" /\ c \in woken /\ Hit(who[c])
    /\ waiters' = [waiters EXCEPT ![lk[c]] = Tail(@)]
    /\ woken' = (woken \ {c}) \cup FirstOf(Tail(waiters[lk[c]]))
    /\ pc' = [pc EXCEPT ![c] = "idle"]
    /\ lk' = [lk EXCEPT ![c] = None]
    /\ who' = [who EXCEPT ![c] = None]
    /\ UNCHANGED <<now, cached, stamp, lockOf, locked>>

\* A waiter that computes without looking at the cache again.
ResumeWithoutLooking(c) ==
    /\ pc[c] = "wait" /\ c \in woken
    /\ waiters' = [waiters EXCEPT ![lk[c]] = Tail(@)]
    /\ woken' = woken \ {c}
    /\ locked' = locked \cup {lk[c]}
    /\ pc' = [pc EXCEPT ![c] = "fetch"]
    /\ UNCHANGED <<now, cached, stamp, lockOf, who, lk>>

\* A woken waiter that still misses, at its second look at the cache inside
\* the lock, drops the expired entry and computes the vector itself.
ResumeMiss(c) ==
    /\ pc[c] = "wait" /\ c \in woken /\ ~Hit(who[c])
    /\ waiters' = [waiters EXCEPT ![lk[c]] = Tail(@)]
    /\ woken' = woken \ {c}
    /\ locked' = locked \cup {lk[c]}
    /\ cached' = cached \ {who[c]}
    /\ pc' = [pc EXCEPT ![c] = "fetch"]
    /\ UNCHANGED <<now, stamp, lockOf, who, lk>>

\* The purchase history has something to weigh: on to the embeddings.
HistoryFetched(c) ==
    /\ pc[c] = "fetch"
    /\ pc' = [pc EXCEPT ![c] = "embed"]
    /\ UNCHANGED <<now, cached, stamp, lockOf, locked, waiters, woken, who, lk>>

\* Every way the computation ends caches: an empty or failed history right
\* away, and after the embeddings a failure, no vector or the vector.
ComputationEnds(c) ==
    /\ pc[c] \in {"fetch", "embed"}
    /\ CachePut(who[c])
    /\ ReleaseAndReturn(c)
    /\ UNCHANGED <<now, waiters>>

CancelAndKeepLock(c) ==
    /\ Cancellation
    /\ pc[c] \in {"fetch", "embed"}
    /\ pc' = [pc EXCEPT ![c] = "idle"]
    /\ lk' = [lk EXCEPT ![c] = None]
    /\ who' = [who EXCEPT ![c] = None]
    /\ UNCHANGED <<now, cached, stamp, lockOf, locked, waiters, woken>>

\* CancelledError at an await of the computation passes the except blocks and
\* leaves the async with block: the lock is released and nothing is cached.
CancelHolder(c) ==
    /\ Cancellation
    /\ pc[c] \in {"fetch", "embed"}
    /\ ReleaseAndReturn(c)
    /\ UNCHANGED <<now, cached, stamp, lockOf, waiters>>

\* CancelledError inside acquire: the waiter leaves the queue and, when the
\* lock is free, the next in line is woken instead.
CancelWaiter(c) ==
    /\ Cancellation
    /\ pc[c] = "wait"
    /\ \E k \in DOMAIN waiters[lk[c]] :
        LET rest == RemoveAt(waiters[lk[c]], k) IN
        /\ waiters[lk[c]][k] = c
        /\ waiters' = [waiters EXCEPT ![lk[c]] = rest]
        /\ woken' = (woken \ {c})
                        \cup (IF lk[c] \in locked THEN {} ELSE FirstOf(rest))
    /\ pc' = [pc EXCEPT ![c] = "idle"]
    /\ lk' = [lk EXCEPT ![c] = None]
    /\ who' = [who EXCEPT ![c] = None]
    /\ UNCHANGED <<now, cached, stamp, lockOf, locked>>

Tick ==
    /\ now < MaxTime
    /\ now' = now + 1
    /\ UNCHANGED <<cached, stamp, lockOf, locked, waiters, woken, pc, who, lk>>

Progress(c) ==
    ResumeHit(c) \/ ResumeMiss(c) \/ HistoryFetched(c) \/ ComputationEnds(c)

Next ==
    \/ \E c \in Coroutine :
        \/ \E m \in Member : CallHit(c, m) \/ CallMiss(c, m)
        \/ Progress(c) \/ CancelHolder(c) \/ CancelWaiter(c)
    \/ Tick

Spec == Init /\ [][Next]_vars

\* The loop resumes every runnable coroutine, and the thread and the vector
\* store always answer (an error is an answer).  Two answers may be needed, so
\* both computing steps are fair on their own.
FairSpec ==
    /\ Spec
    /\ \A c \in Coroutine :
        /\ WF_vars(ResumeHit(c) \/ ResumeMiss(c))
        /\ WF_vars(ComputationEnds(c))

-----------------------------------------------------------------------------
(* Safety.                                                                 *)

Computing(c) == pc[c] \in {"fetch", "embed"}

\* The stampede defence: two coroutines never compute the vector of the same
\* member at the same time.
ComputeOnce ==
    \A c, d \in Coroutine :
        (c # d /\ Computing(c) /\ Computing(d)) => who[c] # who[d]

\* No work is done twice in a row either: from its first await to its last, a
\* coroutine computes a vector that the cache does not have.  What it stores at
\* the end was stored by nobody while it waited for the history and the
\* embeddings, and replaces no entry, valid or expired.
ComputedIsMissing == \A c \in Coroutine : Computing(c) => who[c] \notin cached

\* _cache never outgrows CACHE_MAX.
CacheWithinLimit == Cardinality(cached) <= CacheMax

\* A lock flag is set exactly while a coroutine computes inside its block, and
\* a set waiter future always belongs to the head of a free lock's queue.
LockDiscipline ==
    /\ \A l \in Lock : l \in locked <=> \E c \in Coroutine : Computing(c) /\ lk[c] = l
    /\ \A c \in woken : lk[c] \notin locked /\ Head(waiters[lk[c]]) = c

-----------------------------------------------------------------------------
(* Liveness.                                                               *)

\* No call waits forever: every release hands the lock to the next waiter,
\* also when the holder or a waiter in between was cancelled.
EveryCallEnds == \A c \in Coroutine : pc[c] = "wait" ~> pc[c] = "idle"
=============================================================================

----------------------- MODULE PreferenceCacheProofs -----------------------
(***************************************************************************)
(* Theorems about PreferenceCache for any number of members, coroutines    *)
(* and cache entries: the variables keep their types, the cache keeps its  *)
(* limit, locks are held exactly by computing coroutines, and, as long as  *)
(* the cache has room for every member, no vector is computed twice at a   *)
(* time.                                                                   *)
(***************************************************************************)
EXTENDS PreferenceLoop, SequenceTheorems, FiniteSetTheorems, TLAPS

-----------------------------------------------------------------------------
(* Sequences and small sets.                                               *)

\* What asyncio's removal of a waiter leaves: the other waiters, in order.
LEMMA RemoveAtProperties ==
    ASSUME NEW S, NEW q \in Seq(S), NEW k \in 1..Len(q)
    PROVE  /\ RemoveAt(q, k) \in Seq(S)
           /\ Len(RemoveAt(q, k)) = Len(q) - 1
           /\ \A j \in 1..(Len(q) - 1) :
                 RemoveAt(q, k)[j] = q[IF j < k THEN j ELSE j + 1]
<1> DEFINE a == SubSeq(q, 1, k - 1)
           b == SubSeq(q, k + 1, Len(q))
<1>0. Len(q) \in Nat /\ k \in Nat /\ k >= 1 /\ k <= Len(q)
  BY LenProperties
<1>1. a \in Seq(S) /\ Len(a) = k - 1 /\ \A j \in 1..(k - 1) : a[j] = q[j]
  BY <1>0, SubSeqProperties, ElementOfSeq
<1>2. /\ b \in Seq(S) /\ Len(b) = Len(q) - k
      /\ \A j \in 1..(Len(q) - k) : b[j] = q[k + j]
  BY <1>0, SubSeqProperties, ElementOfSeq
<1> HIDE DEF a, b
<1>3. /\ a \o b \in Seq(S)
      /\ Len(a \o b) = Len(a) + Len(b)
      /\ \A j \in 1..(Len(a) + Len(b)) :
            (a \o b)[j] = IF j <= Len(a) THEN a[j] ELSE b[j - Len(a)]
  BY <1>1, <1>2, ConcatProperties
<1>4. RemoveAt(q, k) = a \o b
  BY DEF RemoveAt, a, b
<1>5. ASSUME NEW j \in 1..(Len(q) - 1)
      PROVE  (a \o b)[j] = q[IF j < k THEN j ELSE j + 1]
  <2>1. CASE j < k
    BY <2>1, <1>0, <1>1, <1>2, <1>3
  <2>2. CASE j >= k
    <3>1. (a \o b)[j] = b[j - (k - 1)] /\ j - (k - 1) \in 1..(Len(q) - k)
      BY <2>2, <1>0, <1>1, <1>2, <1>3
    <3>2. b[j - (k - 1)] = q[k + (j - (k - 1))] /\ k + (j - (k - 1)) = j + 1
      BY <3>1, <1>0, <1>2
    <3> QED  BY <3>1, <3>2, <2>2, <1>0
  <2>3. j < k \/ j >= k
    BY <1>0
  <2> QED  BY <2>1, <2>2, <2>3
<1>6. Len(a) + Len(b) = Len(q) - 1
  BY <1>0, <1>1, <1>2
<1>7. \A j \in 1..(Len(q) - 1) : RemoveAt(q, k)[j] = q[IF j < k THEN j ELSE j + 1]
  BY <1>4, <1>5, Zenon
<1> QED  BY <1>3, <1>4, <1>6, <1>7

\* What stays of a cache when room is made is a part of it.
LEMMA EvictionShrinks ==
    ASSUME NEW keys, NEW kept \in EvictIfNeeded(keys)
    PROVE  kept \subseteq keys
BY DEF EvictIfNeeded

\* The head of a queue that is not empty is its first element.
LEMMA HeadIsFirst ==
    ASSUME NEW S, NEW q \in Seq(S), q # <<>>
    PROVE  /\ Len(q) \in Nat \ {0} /\ 1 \in 1..Len(q)
           /\ Head(q) = q[1] /\ Head(q) \in S
BY EmptySeq, HeadTailProperties

\* A coroutine is found at most once, and only as the head, in FirstOf.
LEMMA FirstOfQueue ==
    ASSUME NEW S, NEW q \in Seq(S)
    PROVE  /\ FirstOf(q) \subseteq S
           /\ \A x \in FirstOf(q) : q # <<>> /\ Head(q) = x
BY HeadIsFirst DEF FirstOf

-----------------------------------------------------------------------------
(* The inductive invariant behind the lock.  Types alone are not inductive: *)
(* what _cache_put stores is a member only because a running call has one.  *)

\* A coroutine has a member and a lock exactly while its call runs.
FrameInv ==
    \A c \in Coroutine :
        IF pc[c] = "idle" THEN who[c] = None /\ lk[c] = None
        ELSE who[c] \in Member /\ lk[c] \in Lock

\* The queue of a lock holds coroutines that wait for it, each of them once.
QueueInv ==
    \A l \in Lock : \A j \in 1..Len(waiters[l]) :
        /\ pc[waiters[l][j]] = "wait" /\ lk[waiters[l][j]] = l
        /\ \A k \in 1..Len(waiters[l]) : waiters[l][j] = waiters[l][k] => j = k

\* A set lock flag has one computing coroutine behind it.
HolderInv ==
    /\ \A c \in Coroutine : Computing(c) => lk[c] \in locked
    /\ \A l \in locked : \E c \in Coroutine : Computing(c) /\ lk[c] = l
    /\ \A c, d \in Coroutine :
          Computing(c) /\ Computing(d) /\ lk[c] = lk[d] => c = d

\* A woken coroutine is the head of the queue of a free lock.
WokenInv ==
    \A c \in woken :
        /\ pc[c] = "wait" /\ lk[c] \notin locked
        /\ waiters[lk[c]] # <<>> /\ Head(waiters[lk[c]]) = c

LockInv == TypeOK /\ FrameInv /\ QueueInv /\ HolderInv /\ WokenInv

\* The call that enters a free lock or queues up for one that is not.
LEMMA CallMissKeepsLocks ==
    ASSUME LockInv, NEW c \in Coroutine, NEW m \in Member, CallMiss(c, m)
    PROVE  LockInv'
<1> USE PreferenceCacheAssumption DEF LockInv
<1>1. PICK l \in GetLock(m) :
         /\ lockOf' = [lockOf EXCEPT ![m] = l]
         /\ lk' = [lk EXCEPT ![c] = l]
         /\ IF Free(l)
            THEN /\ locked' = locked \cup {l}
                 /\ pc' = [pc EXCEPT ![c] = "fetch"]
                 /\ UNCHANGED waiters
            ELSE /\ waiters' = [waiters EXCEPT ![l] = Append(@, c)]
                 /\ pc' = [pc EXCEPT ![c] = "wait"]
                 /\ UNCHANGED locked
  BY DEF CallMiss
<1>2. l \in Lock
  BY <1>1 DEF GetLock, TypeOK
<1>3. /\ pc[c] = "idle" /\ cached' = cached \ {m} /\ who' = [who EXCEPT ![c] = m]
      /\ UNCHANGED <<now, stamp, woken>>
  BY DEF CallMiss
<1>4. c \notin woken /\ \A k \in Lock : \A j \in 1..Len(waiters[k]) : waiters[k][j] # c
  BY <1>3 DEF WokenInv, QueueInv
<1>5. \A k \in Lock : waiters[k] \in Seq(Coroutine) /\ Len(waiters[k]) \in Nat
  BY DEF TypeOK
<1>6. CASE Free(l)
  <2>1. /\ locked' = locked \cup {l} /\ pc' = [pc EXCEPT ![c] = "fetch"]
        /\ waiters' = waiters /\ l \notin locked /\ waiters[l] = <<>>
    BY <1>1, <1>6 DEF Free
  <2>2. TypeOK'
    BY <1>1, <1>2, <1>3, <2>1 DEF TypeOK, Pc
  <2>3. FrameInv'
    BY <1>1, <1>2, <1>3, <2>1 DEF FrameInv, TypeOK
  <2>4. QueueInv'
    <3>1. \A k \in Lock : \A j \in 1..Len(waiters[k]) :
             waiters[k][j] \in Coroutine /\ pc'[waiters[k][j]] = "wait"
             /\ lk'[waiters[k][j]] = k
      BY <1>1, <1>4, <1>5, <2>1, ElementOfSeq DEF QueueInv, TypeOK
    <3> QED  BY <2>1, <3>1 DEF QueueInv
  <2>5. HolderInv'
    BY <1>1, <1>2, <1>3, <2>1 DEF HolderInv, Computing, TypeOK
  <2>6. WokenInv'
    BY <1>1, <1>2, <1>3, <1>4, <2>1 DEF WokenInv, TypeOK
  <2> QED  BY <2>2, <2>3, <2>4, <2>5, <2>6
<1>7. CASE ~Free(l)
  <2>1. /\ locked' = locked /\ pc' = [pc EXCEPT ![c] = "wait"]
        /\ waiters' = [waiters EXCEPT ![l] = Append(@, c)]
        /\ l \in locked \/ waiters[l] # <<>>
    BY <1>1, <1>7 DEF Free
  <2>2. TypeOK'
    BY <1>1, <1>2, <1>3, <2>1 DEF TypeOK, Pc
  <2>3. FrameInv'
    BY <1>1, <1>2, <1>3, <2>1 DEF FrameInv, TypeOK
  <2>4. /\ waiters'[l] \in Seq(Coroutine) /\ Len(waiters'[l]) = Len(waiters[l]) + 1
        /\ \A j \in 1..Len(waiters[l]) : waiters'[l][j] = waiters[l][j]
        /\ waiters'[l][Len(waiters[l]) + 1] = c
    BY <1>2, <1>5, <2>1 DEF TypeOK
  <2>5. QueueInv'
    <3>1. \A k \in Lock \ {l} : waiters'[k] = waiters[k]
      BY <2>1 DEF TypeOK
    <3>2. \A k \in Lock : \A j \in 1..Len(waiters[k]) :
             waiters[k][j] \in Coroutine /\ pc'[waiters[k][j]] = "wait"
             /\ lk'[waiters[k][j]] = k
      BY <1>1, <1>4, <1>5, <2>1, ElementOfSeq DEF QueueInv, TypeOK
    <3>3. pc'[c] = "wait" /\ lk'[c] = l
      BY <1>1, <2>1 DEF TypeOK
    <3> SUFFICES ASSUME NEW k \in Lock, NEW j \in 1..Len(waiters'[k]),
                        NEW i \in 1..Len(waiters'[k])
                 PROVE  /\ pc'[waiters'[k][j]] = "wait" /\ lk'[waiters'[k][j]] = k
                        /\ waiters'[k][j] = waiters'[k][i] => j = i
      BY DEF QueueInv
    <3>4. CASE k = l
      <4>1. \A n \in 1..Len(waiters'[l]) :
               n \in 1..Len(waiters[l]) \/ n = Len(waiters[l]) + 1
        BY <1>2, <1>5, <2>4
      <4>2. Len(waiters'[l]) = Len(waiters[l]) + 1 /\ Len(waiters[l]) \in Nat
        BY <1>2, <1>5, <2>4
      <4>3. \A n \in 1..Len(waiters[l]) : waiters'[l][n] # c
        BY <1>2, <1>4, <2>4, <3>2
      <4>4. \A n, z \in 1..Len(waiters[l]) : waiters[l][n] = waiters[l][z] => n = z
        BY <1>2 DEF QueueInv
      <4>5. pc'[waiters'[k][j]] = "wait" /\ lk'[waiters'[k][j]] = k
        <5>1. CASE j \in 1..Len(waiters[l])
          BY <1>2, <2>4, <3>2, <3>4, <5>1
        <5>2. CASE j = Len(waiters[l]) + 1
          BY <2>4, <3>3, <3>4, <5>2
        <5> QED  BY <3>4, <4>1, <5>1, <5>2
      <4>6. waiters'[k][j] = waiters'[k][i] => j = i
        BY <2>4, <3>4, <4>1, <4>3, <4>4
      <4> QED  BY <4>5, <4>6
    <3>5. CASE k # l
      BY <3>1, <3>2, <3>5 DEF QueueInv
    <3> QED  BY <3>4, <3>5
  <2>6. HolderInv'
    BY <1>1, <1>2, <1>3, <2>1 DEF HolderInv, Computing, TypeOK
  <2>7. WokenInv'
    <3> SUFFICES ASSUME NEW d \in woken'
                 PROVE  /\ pc'[d] = "wait" /\ lk'[d] \notin locked'
                        /\ waiters'[lk'[d]] # <<>> /\ Head(waiters'[lk'[d]]) = d
      BY DEF WokenInv
    <3>1. /\ d \in Coroutine /\ d # c /\ pc'[d] = "wait" /\ lk'[d] = lk[d]
          /\ lk[d] \notin locked' /\ lk[d] \in Lock
          /\ waiters[lk[d]] # <<>> /\ Head(waiters[lk[d]]) = d
      BY <1>1, <1>3, <1>4, <2>1 DEF WokenInv, FrameInv, TypeOK
    <3>2. CASE lk[d] = l
      BY <1>2, <1>5, <2>4, <3>1, <3>2, HeadIsFirst, EmptySeq
    <3>3. CASE lk[d] # l
      BY <2>1, <3>1, <3>3 DEF TypeOK
    <3> QED  BY <3>2, <3>3
  <2> QED  BY <2>2, <2>3, <2>5, <2>6, <2>7
<1> QED  BY <1>6, <1>7

\* A woken coroutine is the first of its queue; what stays behind it still waits.
LEMMA WokenQueue ==
    ASSUME LockInv, NEW c \in woken
    PROVE  /\ c \in Coroutine /\ pc[c] = "wait" /\ lk[c] \in Lock /\ who[c] \in Member
           /\ lk[c] \notin locked
           /\ waiters[lk[c]] \in Seq(Coroutine) /\ waiters[lk[c]] # <<>>
           /\ waiters[lk[c]][1] = c
           /\ Tail(waiters[lk[c]]) \in Seq(Coroutine)
           /\ Len(waiters[lk[c]]) \in Nat \ {0}
           /\ Len(Tail(waiters[lk[c]])) = Len(waiters[lk[c]]) - 1
           /\ \A j \in 1..Len(Tail(waiters[lk[c]])) :
                 Tail(waiters[lk[c]])[j] = waiters[lk[c]][j + 1]
<1>1. /\ c \in Coroutine /\ pc[c] = "wait" /\ lk[c] \in Lock /\ who[c] \in Member
      /\ lk[c] \notin locked
      /\ waiters[lk[c]] # <<>> /\ Head(waiters[lk[c]]) = c
      /\ waiters[lk[c]] \in Seq(Coroutine)
  BY DEF LockInv, WokenInv, FrameInv, TypeOK
<1> QED  BY <1>1, HeadIsFirst, HeadTailProperties

\* Removing a coroutine that stops waiting, from whatever place, keeps queues.
LEMMA QueueShrinks ==
    ASSUME LockInv, NEW l \in Lock, NEW k \in 1..Len(waiters[l]), NEW q,
           q \in Seq(Coroutine), Len(q) = Len(waiters[l]) - 1,
           \A j \in 1..(Len(waiters[l]) - 1) :
              q[j] = waiters[l][IF j < k THEN j ELSE j + 1],
           waiters' = [waiters EXCEPT ![l] = q],
           \A d \in Coroutine \ {waiters[l][k]} :
              pc[d] = "wait" => pc'[d] = "wait" /\ lk'[d] = lk[d]
    PROVE  QueueInv'
<1> SUFFICES ASSUME NEW x \in Lock, NEW j \in 1..Len(waiters'[x]),
                    NEW i \in 1..Len(waiters'[x])
             PROVE  /\ pc'[waiters'[x][j]] = "wait" /\ lk'[waiters'[x][j]] = x
                    /\ waiters'[x][j] = waiters'[x][i] => j = i
  BY DEF QueueInv
<1>1. /\ waiters \in [Lock -> Seq(Coroutine)]
      /\ \A y \in Lock : Len(waiters[y]) \in Nat
      /\ \A y \in Lock : \A n \in 1..Len(waiters[y]) : waiters[y][n] \in Coroutine
  BY ElementOfSeq, LenProperties DEF LockInv, TypeOK
<1>2. CASE x = l
  <2> DEFINE Old(n) == IF n < k THEN n ELSE n + 1
  <2>1. waiters'[x] = q
    BY <1>1, <1>2
  <2>2. Old(j) \in 1..Len(waiters[l]) /\ Old(i) \in 1..Len(waiters[l])
        /\ Old(j) # k /\ Old(i) # k /\ (Old(j) = Old(i) => j = i)
    BY <1>1, <1>2, <2>1
  <2>3. waiters'[x][j] = waiters[l][Old(j)] /\ waiters'[x][i] = waiters[l][Old(i)]
    BY <1>1, <1>2, <2>1
  <2> HIDE DEF Old
  <2>4. /\ waiters[l][Old(j)] # waiters[l][k] /\ waiters[l][Old(j)] \in Coroutine
        /\ pc[waiters[l][Old(j)]] = "wait" /\ lk[waiters[l][Old(j)]] = l
        /\ waiters[l][Old(j)] = waiters[l][Old(i)] => Old(j) = Old(i)
    BY <1>1, <2>2 DEF LockInv, QueueInv
  <2>5. pc'[waiters[l][Old(j)]] = "wait" /\ lk'[waiters[l][Old(j)]] = l
    BY <2>4
  <2>6. waiters[l][Old(j)] = waiters[l][Old(i)] => j = i
    BY <2>2, <2>4
  <2> QED  BY <1>2, <2>3, <2>5, <2>6
<1>3. CASE x # l
  <2>1. waiters'[x] = waiters[x]
    BY <1>1, <1>3
  <2>2. /\ waiters[x][j] # waiters[l][k] /\ waiters[x][j] \in Coroutine
        /\ pc[waiters[x][j]] = "wait" /\ lk[waiters[x][j]] = x
        /\ waiters[x][j] = waiters[x][i] => j = i
    <3>1. j \in 1..Len(waiters[x]) /\ i \in 1..Len(waiters[x])
      BY <2>1
    <3>2. /\ waiters[x][j] \in Coroutine
          /\ pc[waiters[x][j]] = "wait" /\ lk[waiters[x][j]] = x
          /\ waiters[x][j] = waiters[x][i] => j = i
      BY <1>1, <3>1 DEF LockInv, QueueInv
    <3>3. lk[waiters[l][k]] = l
      BY <1>1 DEF LockInv, QueueInv
    <3> QED  BY <1>3, <3>2, <3>3
  <2>3. pc'[waiters[x][j]] = "wait" /\ lk'[waiters[x][j]] = x
    BY <2>2
  <2> QED  BY <2>1, <2>2, <2>3
<1> QED  BY <1>2, <1>3

\* A woken waiter that finds the vector leaves and wakes the next one.
LEMMA ResumeHitKeepsLocks ==
    ASSUME LockInv, NEW c \in Coroutine, ResumeHit(c)
    PROVE  LockInv'
<1> DEFINE l == lk[c]
           q == Tail(waiters[l])
<1>1. /\ pc[c] = "wait" /\ c \in woken
      /\ waiters' = [waiters EXCEPT ![l] = q]
      /\ woken' = (woken \ {c}) \cup FirstOf(q)
      /\ pc' = [pc EXCEPT ![c] = "idle"]
      /\ lk' = [lk EXCEPT ![c] = None]
      /\ who' = [who EXCEPT ![c] = None]
      /\ UNCHANGED <<now, cached, stamp, lockOf, locked>>
  BY DEF ResumeHit
<1>2. /\ l \in Lock /\ l \notin locked /\ q \in Seq(Coroutine)
      /\ Len(waiters[l]) \in Nat \ {0} /\ Len(q) = Len(waiters[l]) - 1
      /\ waiters[l][1] = c
      /\ \A j \in 1..Len(q) : q[j] = waiters[l][j + 1]
  BY <1>1, WokenQueue
<1> HIDE DEF l, q
<1>3. FirstOf(q) \subseteq Coroutine /\ \A x \in FirstOf(q) : q # <<>> /\ Head(q) = x
  BY <1>2, FirstOfQueue
<1>4. TypeOK'
  BY <1>1, <1>2, <1>3 DEF LockInv, TypeOK, Pc
<1>5. FrameInv'
  BY <1>1 DEF LockInv, TypeOK, FrameInv
<1>6. QueueInv'
  <2>1. /\ 1 \in 1..Len(waiters[l])
        /\ \A j \in 1..(Len(waiters[l]) - 1) :
              q[j] = waiters[l][IF j < 1 THEN j ELSE j + 1]
    BY <1>2
  <2>2. \A d \in Coroutine \ {waiters[l][1]} :
           pc[d] = "wait" => pc'[d] = "wait" /\ lk'[d] = lk[d]
    BY <1>1, <1>2 DEF LockInv, TypeOK
  <2> QED  BY <1>1, <1>2, <2>1, <2>2, QueueShrinks
<1>7. HolderInv'
  BY <1>1 DEF LockInv, TypeOK, HolderInv, Computing
<1>8. WokenInv'
  <2> SUFFICES ASSUME NEW d \in woken'
               PROVE  /\ pc'[d] = "wait" /\ lk'[d] \notin locked'
                      /\ waiters'[lk'[d]] # <<>> /\ Head(waiters'[lk'[d]]) = d
    BY DEF WokenInv
  <2>1. CASE d \in woken \ {c}
    <3>1. lk[d] # l /\ lk[d] \in Lock /\ d \in Coroutine
      BY <1>1, <1>2, <2>1, WokenQueue DEF l
    <3> QED  BY <1>1, <2>1, <3>1 DEF LockInv, WokenInv, TypeOK
  <2>2. CASE d \in FirstOf(q)
    <3>1. d = q[1] /\ 1 \in 1..Len(q) /\ 2 \in 1..Len(waiters[l]) /\ d = waiters[l][2]
      BY <1>2, <1>3, <2>2, HeadIsFirst
    <3>2. pc[d] = "wait" /\ lk[d] = l /\ d # c /\ d \in Coroutine
      BY <1>2, <1>3, <2>2, <3>1 DEF LockInv, QueueInv
    <3> QED  BY <1>1, <1>2, <1>3, <2>2, <3>2 DEF LockInv, TypeOK
  <2> QED  BY <1>1, <2>1, <2>2
<1> QED  BY <1>4, <1>5, <1>6, <1>7, <1>8 DEF LockInv

\* A woken waiter that still misses takes the lock.
LEMMA ResumeMissKeepsLocks ==
    ASSUME LockInv, NEW c \in Coroutine, ResumeMiss(c)
    PROVE  LockInv'
<1> DEFINE l == lk[c]
           q == Tail(waiters[l])
<1>1. /\ pc[c] = "wait" /\ c \in woken
      /\ waiters' = [waiters EXCEPT ![l] = q]
      /\ woken' = woken \ {c}
      /\ locked' = locked \cup {l}
      /\ cached' = cached \ {who[c]}
      /\ pc' = [pc EXCEPT ![c] = "fetch"]
      /\ UNCHANGED <<now, stamp, lockOf, who, lk>>
  BY DEF ResumeMiss
<1>2. /\ l \in Lock /\ l \notin locked /\ q \in Seq(Coroutine)
      /\ Len(waiters[l]) \in Nat \ {0} /\ Len(q) = Len(waiters[l]) - 1
      /\ waiters[l][1] = c /\ l = lk[c]
      /\ \A j \in 1..Len(q) : q[j] = waiters[l][j + 1]
  BY <1>1, WokenQueue
<1> HIDE DEF l, q
<1>4. TypeOK'
  BY <1>1, <1>2 DEF LockInv, TypeOK, Pc
<1>5. FrameInv'
  BY <1>1 DEF LockInv, TypeOK, FrameInv
<1>6. QueueInv'
  <2>1. /\ 1 \in 1..Len(waiters[l])
        /\ \A j \in 1..(Len(waiters[l]) - 1) :
              q[j] = waiters[l][IF j < 1 THEN j ELSE j + 1]
    BY <1>2
  <2>2. \A d \in Coroutine \ {waiters[l][1]} :
           pc[d] = "wait" => pc'[d] = "wait" /\ lk'[d] = lk[d]
    BY <1>1, <1>2 DEF LockInv, TypeOK
  <2> QED  BY <1>1, <1>2, <2>1, <2>2, QueueShrinks
<1>7. HolderInv'
  <2>1. \A d \in Coroutine : Computing(d) => lk[d] # l
    BY <1>2 DEF LockInv, HolderInv
  <2>2. \A d \in Coroutine : Computing(d)' <=> (Computing(d) \/ d = c)
    BY <1>1 DEF LockInv, TypeOK, Computing
  <2> QED  BY <1>1, <1>2, <2>1, <2>2 DEF LockInv, HolderInv
<1>8. WokenInv'
  <2> SUFFICES ASSUME NEW d \in woken'
               PROVE  /\ pc'[d] = "wait" /\ lk'[d] \notin locked'
                      /\ waiters'[lk'[d]] # <<>> /\ Head(waiters'[lk'[d]]) = d
    BY DEF WokenInv
  <2>1. d \in woken /\ d # c /\ lk[d] # l /\ lk[d] \in Lock /\ d \in Coroutine
    BY <1>1, <1>2, WokenQueue
  <2> QED  BY <1>1, <2>1 DEF LockInv, WokenInv, TypeOK
<1> QED  BY <1>4, <1>5, <1>6, <1>7, <1>8 DEF LockInv

\* A holder that returns frees its lock and wakes the next waiter.
LEMMA ReleaseKeepsLocks ==
    ASSUME LockInv, NEW c \in Coroutine, Computing(c), ReleaseAndReturn(c),
           UNCHANGED waiters
    PROVE  /\ locked' \in SUBSET Lock /\ woken' \in SUBSET Coroutine
           /\ pc' \in [Coroutine -> Pc]
           /\ who' \in [Coroutine -> Member \cup {None}]
           /\ lk' \in [Coroutine -> Lock \cup {None}]
           /\ FrameInv' /\ QueueInv' /\ HolderInv' /\ WokenInv'
<1> DEFINE l == lk[c]
           q == waiters[l]
<1>1. /\ locked' = locked \ {l}
      /\ woken' = woken \cup FirstOf(q)
      /\ pc' = [pc EXCEPT ![c] = "idle"]
      /\ lk' = [lk EXCEPT ![c] = None]
      /\ who' = [who EXCEPT ![c] = None]
      /\ waiters' = waiters
  BY DEF ReleaseAndReturn
<1>2. pc[c] \notin {"idle", "wait"} /\ l \in Lock /\ l = lk[c] /\ q = waiters[l]
      /\ l \in locked /\ q \in Seq(Coroutine)
  BY DEF LockInv, TypeOK, Computing, FrameInv, HolderInv
<1> HIDE DEF l, q
<1>3. FirstOf(q) \subseteq Coroutine /\ \A x \in FirstOf(q) : q # <<>> /\ Head(q) = x
  BY <1>2, FirstOfQueue
<1>4. /\ locked' \in SUBSET Lock /\ woken' \in SUBSET Coroutine
      /\ pc' \in [Coroutine -> Pc]
      /\ who' \in [Coroutine -> Member \cup {None}]
      /\ lk' \in [Coroutine -> Lock \cup {None}]
  BY <1>1, <1>3 DEF LockInv, TypeOK, Pc
<1>5. FrameInv'
  BY <1>1 DEF LockInv, TypeOK, FrameInv
<1>6. QueueInv'
  <2>1. \A k \in Lock : \A j \in 1..Len(waiters[k]) :
           /\ waiters[k][j] \in Coroutine /\ waiters[k][j] # c
           /\ pc[waiters[k][j]] = "wait" /\ lk[waiters[k][j]] = k
    BY <1>2, ElementOfSeq DEF LockInv, TypeOK, QueueInv
  <2>2. \A k \in Lock : \A j \in 1..Len(waiters[k]) :
           pc'[waiters[k][j]] = "wait" /\ lk'[waiters[k][j]] = k
    BY <1>1, <2>1 DEF LockInv, TypeOK
  <2> QED  BY <1>1, <2>2 DEF LockInv, QueueInv
<1>7. HolderInv'
  <2>1. \A d \in Coroutine : Computing(d)' <=> (Computing(d) /\ d # c)
    BY <1>1 DEF LockInv, TypeOK, Computing
  <2>2. \A d \in Coroutine \ {c} : Computing(d) => lk[d] # l /\ lk'[d] = lk[d]
    BY <1>1, <1>2 DEF LockInv, HolderInv, TypeOK
  <2> QED  BY <1>1, <1>2, <2>1, <2>2 DEF LockInv, HolderInv
<1>8. WokenInv'
  <2> SUFFICES ASSUME NEW d \in woken'
               PROVE  /\ pc'[d] = "wait" /\ lk'[d] \notin locked'
                      /\ waiters'[lk'[d]] # <<>> /\ Head(waiters'[lk'[d]]) = d
    BY DEF WokenInv
  <2>1. CASE d \in woken
    <3>1. d # c /\ d \in Coroutine
      BY <1>2, <2>1 DEF LockInv, WokenInv, TypeOK
    <3> QED  BY <1>1, <2>1, <3>1 DEF LockInv, WokenInv, TypeOK
  <2>2. CASE d \in FirstOf(q)
    <3>1. d = waiters[l][1] /\ 1 \in 1..Len(waiters[l])
      BY <1>2, <1>3, <2>2, HeadIsFirst
    <3>2. pc[d] = "wait" /\ lk[d] = l /\ d # c /\ d \in Coroutine
      BY <1>2, <1>3, <2>2, <3>1 DEF LockInv, QueueInv
    <3> QED  BY <1>1, <1>2, <1>3, <2>2, <3>2 DEF LockInv, TypeOK
  <2> QED  BY <1>1, <2>1, <2>2
<1> QED  BY <1>4, <1>5, <1>6, <1>7, <1>8

\* A cancelled waiter leaves the queue; on a free lock the next one is woken.
LEMMA CancelWaiterKeepsLocks ==
    ASSUME LockInv, NEW c \in Coroutine, CancelWaiter(c)
    PROVE  LockInv'
<1> DEFINE l == lk[c]
<1>1. PICK k \in DOMAIN waiters[l] :
         /\ waiters[l][k] = c
         /\ waiters' = [waiters EXCEPT ![l] = RemoveAt(waiters[l], k)]
         /\ woken' = (woken \ {c}) \cup
                (IF l \in locked THEN {} ELSE FirstOf(RemoveAt(waiters[l], k)))
  BY DEF CancelWaiter
<1> DEFINE q == RemoveAt(waiters[l], k)
<1>2. /\ pc[c] = "wait"
      /\ pc' = [pc EXCEPT ![c] = "idle"]
      /\ lk' = [lk EXCEPT ![c] = None]
      /\ who' = [who EXCEPT ![c] = None]
      /\ UNCHANGED <<now, cached, stamp, lockOf, locked>>
  BY DEF CancelWaiter
<1>3. l \in Lock /\ l = lk[c] /\ waiters[l] \in Seq(Coroutine)
  BY <1>2 DEF LockInv, FrameInv, TypeOK
<1>4. /\ k \in 1..Len(waiters[l]) /\ Len(waiters[l]) \in Nat
      /\ q \in Seq(Coroutine) /\ Len(q) = Len(waiters[l]) - 1
      /\ \A j \in 1..(Len(waiters[l]) - 1) :
            q[j] = waiters[l][IF j < k THEN j ELSE j + 1]
  BY <1>3, RemoveAtProperties, LenProperties
<1>5. /\ waiters' = [waiters EXCEPT ![l] = q]
      /\ woken' = (woken \ {c}) \cup (IF l \in locked THEN {} ELSE FirstOf(q))
  BY <1>1
<1> HIDE DEF l, q
<1>6. FirstOf(q) \subseteq Coroutine /\ \A x \in FirstOf(q) : q # <<>> /\ Head(q) = x
  BY <1>4, FirstOfQueue
<1>7. TypeOK'
  BY <1>2, <1>3, <1>4, <1>5, <1>6 DEF LockInv, TypeOK, Pc
<1>8. FrameInv'
  BY <1>2 DEF LockInv, TypeOK, FrameInv
<1>9. QueueInv'
  <2>1. \A d \in Coroutine \ {waiters[l][k]} :
           pc[d] = "wait" => pc'[d] = "wait" /\ lk'[d] = lk[d]
    BY <1>1, <1>2 DEF LockInv, TypeOK
  <2> QED  BY <1>3, <1>4, <1>5, <2>1, QueueShrinks
<1>10. HolderInv'
  BY <1>2 DEF LockInv, TypeOK, HolderInv, Computing
<1>11. WokenInv'
  <2> SUFFICES ASSUME NEW d \in woken'
               PROVE  /\ pc'[d] = "wait" /\ lk'[d] \notin locked'
                      /\ waiters'[lk'[d]] # <<>> /\ Head(waiters'[lk'[d]]) = d
    BY DEF WokenInv
  <2>1. CASE d \in woken \ {c}
    <3>1. /\ d \in Coroutine /\ pc[d] = "wait" /\ lk[d] \in Lock /\ lk[d] \notin locked
          /\ waiters[lk[d]] # <<>> /\ Head(waiters[lk[d]]) = d /\ waiters[lk[d]][1] = d
      BY <2>1, WokenQueue DEF LockInv, WokenInv
    <3>2. pc'[d] = "wait" /\ lk'[d] = lk[d] /\ lk'[d] \notin locked'
      BY <1>2, <2>1, <3>1 DEF LockInv, TypeOK
    <3>3. CASE lk[d] = l
      <4>1. k # 1
        BY <1>1, <2>1, <3>1, <3>3
      <4>2. Len(q) \in Nat \ {0} /\ q[1] = d
        BY <1>4, <3>1, <3>3, <4>1
      <4>3. q # <<>> /\ Head(q) = d
        BY <1>4, <4>2, EmptySeq, HeadIsFirst
      <4> QED  BY <1>3, <1>5, <3>2, <3>3, <4>3 DEF LockInv, TypeOK
    <3>4. CASE lk[d] # l
      BY <1>5, <3>1, <3>2, <3>4 DEF LockInv, TypeOK
    <3> QED  BY <3>3, <3>4
  <2>2. CASE d \in FirstOf(q) /\ l \notin locked
    <3>1. d = q[1] /\ 1 \in 1..Len(q)
      BY <1>4, <1>6, <2>2, HeadIsFirst
    <3>2. PICK n \in 1..Len(waiters[l]) : n # k /\ d = waiters[l][n]
      <4>1. d = waiters[l][IF 1 < k THEN 1 ELSE 1 + 1]
        BY <1>4, <3>1
      <4>2. (IF 1 < k THEN 1 ELSE 1 + 1) \in 1..Len(waiters[l])
            /\ (IF 1 < k THEN 1 ELSE 1 + 1) # k
        BY <1>4, <3>1
      <4> QED  BY <4>1, <4>2
    <3>3. pc[d] = "wait" /\ lk[d] = l /\ d # c /\ d \in Coroutine
      BY <1>1, <1>3, <1>4, <1>6, <2>2, <3>2 DEF LockInv, QueueInv
    <3> QED  BY <1>2, <1>3, <1>5, <1>6, <2>2, <3>3 DEF LockInv, TypeOK
  <2> QED  BY <1>5, <2>1, <2>2
<1> QED  BY <1>7, <1>8, <1>9, <1>10, <1>11 DEF LockInv

\* Every step of the service keeps the lock invariant.
LEMMA LockStep == LockInv /\ [Next]_vars => LockInv'
<1> SUFFICES ASSUME LockInv, [Next]_vars PROVE LockInv'
  OBVIOUS
<1> USE PreferenceCacheAssumption
<1>1. ASSUME NEW c \in Coroutine, HistoryFetched(c)
      PROVE  LockInv'
  <2>1. pc' = [pc EXCEPT ![c] = "embed"] /\ pc[c] = "fetch"
        /\ UNCHANGED <<now, cached, stamp, lockOf, locked, waiters, woken, who, lk>>
    BY <1>1 DEF HistoryFetched
  <2>2. TypeOK' /\ FrameInv'
    BY <2>1 DEF LockInv, TypeOK, FrameInv, Pc
  <2>3. QueueInv'
    <3>1. \A k \in Lock : \A j \in 1..Len(waiters[k]) :
             waiters[k][j] # c /\ waiters[k][j] \in Coroutine
      BY <2>1, ElementOfSeq DEF LockInv, QueueInv, TypeOK
    <3> QED  BY <2>1, <3>1 DEF LockInv, QueueInv, TypeOK
  <2>4. HolderInv' /\ WokenInv'
    BY <2>1 DEF LockInv, TypeOK, HolderInv, WokenInv, Computing
  <2> QED  BY <2>2, <2>3, <2>4 DEF LockInv
<1>2. ASSUME NEW c \in Coroutine, ComputationEnds(c)
      PROVE  LockInv'
  <2>1. /\ Computing(c) /\ ReleaseAndReturn(c) /\ who[c] \in Member
        /\ UNCHANGED <<now, waiters>>
    BY <1>2 DEF ComputationEnds, Computing, LockInv, FrameInv
  <2>2. PICK kept \in EvictIfNeeded(cached) :
           /\ cached' = kept \cup {who[c]}
           /\ stamp' = [stamp EXCEPT ![who[c]] = now]
           /\ lockOf' = DropLocks(cached \ kept)
    BY <1>2 DEF ComputationEnds, CachePut
  <2>3. kept \subseteq cached
    BY <2>2, EvictionShrinks
  <2>4. cached' \in SUBSET Member /\ stamp' \in [Member -> 0..MaxTime]
        /\ lockOf' \in [Member -> Lock \cup {None}]
    BY <2>1, <2>2, <2>3 DEF LockInv, TypeOK, DropLocks
  <2> QED  BY <2>1, <2>4, ReleaseKeepsLocks DEF LockInv, TypeOK
<1>3. ASSUME NEW c \in Coroutine, CancelHolder(c)
      PROVE  LockInv'
  <2>1. /\ Computing(c) /\ ReleaseAndReturn(c)
        /\ UNCHANGED <<now, cached, stamp, lockOf, waiters>>
    BY <1>3 DEF CancelHolder, Computing
  <2> QED  BY <2>1, ReleaseKeepsLocks DEF LockInv, TypeOK
<1>4. CASE Tick
  BY <1>4 DEF Tick, LockInv, TypeOK, FrameInv, QueueInv, HolderInv, WokenInv, Computing
<1>5. CASE UNCHANGED vars
  BY <1>5 DEF vars, LockInv, TypeOK, FrameInv, QueueInv, HolderInv, WokenInv, Computing
<1>6. ASSUME NEW c \in Coroutine, NEW m \in Member, CallHit(c, m)
      PROVE  LockInv'
  BY <1>5, <1>6 DEF CallHit
<1> QED
  BY <1>1, <1>2, <1>3, <1>4, <1>5, <1>6, CallMissKeepsLocks, ResumeHitKeepsLocks,
     ResumeMissKeepsLocks, CancelWaiterKeepsLocks DEF Next, Progress

\* Before the first call nothing is locked and nobody waits.
LEMMA LockInit == Init => LockInv
BY PreferenceCacheAssumption
DEF Init, LockInv, TypeOK, FrameInv, QueueInv, HolderInv, WokenInv, Computing, Pc

\* The locks, their queues and the coroutines that hold, await or are woken on
\* them fit together in every reachable state.
THEOREM LockInvariant == Spec => []LockInv
BY LockInit, LockStep, PTL DEF Spec

\* The variables keep their types, whatever is called, cancelled or expires.
THEOREM TypeCorrect == Spec => []TypeOK
<1>1. LockInv => TypeOK
  BY DEF LockInv
<1> QED  BY <1>1, LockInvariant, PTL

\* get_preference_vector holds the lock of a member exactly while it computes,
\* and a waiter is only woken on a lock that is free for it.
THEOREM LocksFollowComputations == Spec => []LockDiscipline
<1>1. LockInv => LockDiscipline
  BY DEF LockInv, TypeOK, HolderInv, WokenInv, LockDiscipline
<1> QED  BY <1>1, LockInvariant, PTL

-----------------------------------------------------------------------------
(* The size of the cache.                                                  *)

\* _evict_if_needed always leaves room for one more key.
LEMMA EvictionMakesRoom ==
    ASSUME NEW keys \in SUBSET Member, NEW kept \in EvictIfNeeded(keys)
    PROVE  IsFiniteSet(kept) /\ Cardinality(kept) \in Nat /\ Cardinality(kept) < CacheMax
<1> USE PreferenceCacheAssumption
<1> DEFINE fresh == {m \in keys : ~Expired(m)}
           Oldest(old) == /\ Cardinality(old) = Cardinality(fresh) - CacheMax + 1
                          /\ \A m \in old, n \in fresh \ old : stamp[m] <= stamp[n]
<1>1. /\ IsFiniteSet(keys) /\ Cardinality(keys) \in Nat
      /\ IsFiniteSet(fresh) /\ Cardinality(fresh) \in Nat
  <2>1. keys \in SUBSET Member /\ fresh \in SUBSET Member
    OBVIOUS
  <2> QED  BY <2>1, FS_Subset, FS_CardinalityType
<1>2. \/ kept = keys /\ ~Full(keys)
      \/ kept = fresh /\ ~Full(fresh)
      \/ \E old \in SUBSET fresh : kept = fresh \ old /\ Oldest(old)
  BY DEF EvictIfNeeded
<1>3. CASE kept = keys /\ ~Full(keys)
  BY <1>1, <1>3 DEF Full
<1>4. CASE kept = fresh /\ ~Full(fresh)
  BY <1>1, <1>4 DEF Full
<1>5. ASSUME NEW old \in SUBSET fresh, kept = fresh \ old, Oldest(old)
      PROVE  IsFiniteSet(kept) /\ Cardinality(kept) \in Nat
             /\ Cardinality(kept) < CacheMax
  <2> HIDE DEF fresh
  <2>1. IsFiniteSet(old) /\ Cardinality(old) \in Nat
    BY <1>1, FS_Subset, FS_CardinalityType
  <2>2. fresh \cap old = old
    OBVIOUS
  <2>3. /\ IsFiniteSet(fresh \ old)
        /\ Cardinality(fresh \ old) = Cardinality(fresh) - Cardinality(old)
    BY <1>1, <2>1, <2>2, FS_Difference
  <2>4. Cardinality(kept) \in Nat
    BY <1>5, <2>3, FS_CardinalityType
  <2> QED  BY <1>1, <1>5, <2>1, <2>3, <2>4
<1> QED  BY <1>2, <1>3, <1>4, <1>5

\* The cache of preference vectors never holds more than CACHE_MAX entries.
THEOREM CacheStaysWithinLimit == Spec => []CacheWithinLimit
<1>1. Init => CacheWithinLimit
  BY PreferenceCacheAssumption, FS_EmptySet DEF Init, CacheWithinLimit
<1>2. LockInv /\ CacheWithinLimit /\ [Next]_vars => CacheWithinLimit'
  <2> SUFFICES ASSUME LockInv, CacheWithinLimit, [Next]_vars
               PROVE  CacheWithinLimit'
    OBVIOUS
  <2>1. cached \in SUBSET Member /\ IsFiniteSet(cached) /\ Cardinality(cached) \in Nat
    BY PreferenceCacheAssumption, FS_Subset, FS_CardinalityType DEF LockInv, TypeOK
  <2>2. ASSUME NEW gone, cached' = cached \ gone
        PROVE  CacheWithinLimit'
    <3>1. cached' \in SUBSET cached
      BY <2>2
    <3>2. Cardinality(cached') <= Cardinality(cached) /\ Cardinality(cached') \in Nat
      BY <2>1, <3>1, FS_Subset, FS_CardinalityType
    <3> QED  BY <2>1, <3>2, PreferenceCacheAssumption DEF CacheWithinLimit
  <2>3. ASSUME cached' = cached
        PROVE  CacheWithinLimit'
    BY <2>3 DEF CacheWithinLimit
  <2>4. ASSUME NEW c \in Coroutine, ComputationEnds(c)
        PROVE  CacheWithinLimit'
    <3>1. PICK kept \in EvictIfNeeded(cached) : cached' = kept \cup {who[c]}
      BY <2>4 DEF ComputationEnds, CachePut
    <3>2. IsFiniteSet(kept) /\ Cardinality(kept) \in Nat /\ Cardinality(kept) < CacheMax
      BY <2>1, EvictionMakesRoom
    <3>3. Cardinality(cached') \in {Cardinality(kept), Cardinality(kept) + 1}
      <4>1. Cardinality(kept \cup {who[c]}) =
               IF who[c] \in kept THEN Cardinality(kept) ELSE Cardinality(kept) + 1
        BY <3>2, FS_AddElement
      <4> QED  BY <3>1, <4>1
    <3> QED  BY <3>2, <3>3, PreferenceCacheAssumption DEF CacheWithinLimit
  <2>5. ASSUME NEW c \in Coroutine, NEW m \in Member, CallMiss(c, m)
        PROVE  CacheWithinLimit'
    BY <2>2, <2>5 DEF CallMiss
  <2>6. ASSUME NEW c \in Coroutine, ResumeMiss(c)
        PROVE  CacheWithinLimit'
    BY <2>2, <2>6 DEF ResumeMiss
  <2>7. ASSUME NEW c \in Coroutine,
               ResumeHit(c) \/ HistoryFetched(c) \/ CancelHolder(c) \/ CancelWaiter(c)
        PROVE  CacheWithinLimit'
    BY <2>3, <2>7 DEF ResumeHit, HistoryFetched, CancelHolder, CancelWaiter
  <2>8. ASSUME \/ Tick \/ UNCHANGED vars
               \/ \E c \in Coroutine, m \in Member : CallHit(c, m)
        PROVE  CacheWithinLimit'
    BY <2>3, <2>8 DEF Tick, CallHit, vars
  <2> QED  BY <2>4, <2>5, <2>6, <2>7, <2>8 DEF Next, Progress
<1> QED  BY <1>1, <1>2, LockInvariant, PTL DEF Spec

-----------------------------------------------------------------------------
(* The stampede defence, while the cache has room for every member.  Then  *)
(* nothing is evicted, no lock leaves _locks, and every coroutine of a     *)
(* member meets at one lock.                                               *)

\* The calls of a member hold or wait for the lock _locks has for it.
OneLockEach ==
    /\ \A c \in Coroutine : pc[c] # "idle" => lk[c] = lockOf[who[c]]
    /\ \A m, n \in Member : lockOf[m] # None /\ lockOf[m] = lockOf[n] => m = n

RoomyInv == OneLockEach /\ ComputedIsMissing

\* A cache with room for everybody is never full when an entry is missing.
LEMMA RoomForAMissingMember ==
    ASSUME Cardinality(Member) <= CacheMax, NEW keys \in SUBSET Member,
           NEW m \in Member \ keys
    PROVE  EvictIfNeeded(keys) = {keys}
<1>1. /\ IsFiniteSet(Member) /\ Cardinality(Member) \in Nat
      /\ IsFiniteSet(keys) /\ Cardinality(keys) \in Nat
  BY PreferenceCacheAssumption, FS_Subset, FS_CardinalityType
<1>2. Cardinality(keys) <= Cardinality(Member)
      /\ (Cardinality(Member) = Cardinality(keys) => Member = keys)
  BY <1>1, FS_Subset
<1>3. Cardinality(keys) < CacheMax
  BY <1>1, <1>2, PreferenceCacheAssumption
<1> QED  BY <1>1, <1>3, PreferenceCacheAssumption DEF EvictIfNeeded, Full

\* With room for everybody no step starts a second computation of a vector.
LEMMA RoomyStep ==
    ASSUME Cardinality(Member) <= CacheMax, LockInv, RoomyInv, [Next]_vars
    PROVE  RoomyInv'
<1> USE PreferenceCacheAssumption DEF LockInv, RoomyInv
<1>1. ASSUME NEW c \in Coroutine, NEW m \in Member, CallMiss(c, m)
      PROVE  RoomyInv'
  <2>1. PICK l \in GetLock(m) :
           /\ lockOf' = [lockOf EXCEPT ![m] = l]
           /\ lk' = [lk EXCEPT ![c] = l]
           /\ pc' \in {[pc EXCEPT ![c] = "fetch"], [pc EXCEPT ![c] = "wait"]}
    BY <1>1 DEF CallMiss
  <2>2. pc[c] = "idle" /\ cached' = cached \ {m} /\ who' = [who EXCEPT ![c] = m]
    BY <1>1 DEF CallMiss
  <2>3. /\ l \in Lock
        /\ \/ l = lockOf[m]
           \/ /\ lockOf[m] = None
              /\ \A n \in Member : lockOf[n] # l
    BY <2>1 DEF GetLock, Unused, TypeOK
  <2>4. OneLockEach'
    <3>1. ASSUME NEW d \in Coroutine, pc'[d] # "idle"
          PROVE  lk'[d] = lockOf'[who'[d]]
      <4>1. CASE d = c
        BY <2>1, <2>2, <4>1 DEF TypeOK
      <4>2. CASE d # c
        <5>1. pc[d] # "idle" /\ lk'[d] = lk[d] /\ who'[d] = who[d]
          BY <2>1, <2>2, <3>1, <4>2 DEF TypeOK
        <5>2. who[d] \in Member /\ lk[d] \in Lock /\ lk[d] = lockOf[who[d]]
          BY <5>1 DEF FrameInv, OneLockEach
        <5> QED  BY <2>1, <2>3, <5>1, <5>2 DEF TypeOK
      <4> QED  BY <4>1, <4>2
    <3>2. ASSUME NEW n \in Member, NEW o \in Member,
                 lockOf'[n] # None, lockOf'[n] = lockOf'[o]
          PROVE  n = o
      BY <2>1, <2>3, <3>2 DEF TypeOK, OneLockEach
    <3> QED  BY <3>1, <3>2 DEF OneLockEach
  <2>5. ComputedIsMissing'
    BY <2>1, <2>2 DEF ComputedIsMissing, Computing, TypeOK
  <2> QED  BY <2>4, <2>5
<1>2. ASSUME NEW c \in Coroutine, ResumeHit(c)
      PROVE  RoomyInv'
  BY <1>2 DEF ResumeHit, OneLockEach, ComputedIsMissing, Computing, TypeOK
<1>3. ASSUME NEW c \in Coroutine, ResumeMiss(c)
      PROVE  RoomyInv'
  BY <1>3 DEF ResumeMiss, OneLockEach, ComputedIsMissing, Computing, TypeOK
<1>4. ASSUME NEW c \in Coroutine, HistoryFetched(c)
      PROVE  RoomyInv'
  BY <1>4 DEF HistoryFetched, OneLockEach, ComputedIsMissing, Computing, TypeOK
<1>5. ASSUME NEW c \in Coroutine, ComputationEnds(c)
      PROVE  RoomyInv'
  <2>1. /\ Computing(c) /\ who[c] \in Member \ cached
        /\ pc' = [pc EXCEPT ![c] = "idle"]
        /\ lk' = [lk EXCEPT ![c] = None]
        /\ who' = [who EXCEPT ![c] = None]
    BY <1>5 DEF ComputationEnds, ReleaseAndReturn, FrameInv, ComputedIsMissing, Computing
  <2>2. EvictIfNeeded(cached) = {cached}
    BY <2>1, RoomForAMissingMember DEF TypeOK
  <2>3. cached' = cached \cup {who[c]} /\ lockOf' = DropLocks({})
    BY <1>5, <2>2 DEF ComputationEnds, CachePut
  <2>4. lockOf' = lockOf
    BY <2>3 DEF DropLocks, TypeOK
  <2>5. OneLockEach'
    BY <2>1, <2>4 DEF OneLockEach, TypeOK
  <2>6. ASSUME NEW d \in Coroutine, Computing(d)'
        PROVE  who'[d] \notin cached'
    <3>1. d # c /\ Computing(d) /\ who'[d] = who[d]
      BY <2>1, <2>6 DEF Computing, TypeOK
    <3>2. who[d] # who[c]
      BY <2>1, <3>1 DEF HolderInv, OneLockEach, Computing
    <3> QED  BY <2>3, <3>1, <3>2 DEF ComputedIsMissing
  <2> QED  BY <2>5, <2>6 DEF ComputedIsMissing
<1>6. ASSUME NEW c \in Coroutine, CancelHolder(c)
      PROVE  RoomyInv'
  BY <1>6 DEF CancelHolder, ReleaseAndReturn, OneLockEach, ComputedIsMissing, Computing,
              TypeOK
<1>7. ASSUME NEW c \in Coroutine, CancelWaiter(c)
      PROVE  RoomyInv'
  BY <1>7 DEF CancelWaiter, OneLockEach, ComputedIsMissing, Computing, TypeOK
<1>8. ASSUME \/ Tick \/ UNCHANGED vars
             \/ \E c \in Coroutine, m \in Member : CallHit(c, m)
      PROVE  RoomyInv'
  BY <1>8 DEF Tick, CallHit, vars, OneLockEach, ComputedIsMissing, Computing
<1> QED
  BY <1>1, <1>2, <1>3, <1>4, <1>5, <1>6, <1>7, <1>8 DEF Next, Progress

\* While the cache has room for every member, every member keeps one lock and
\* what is being computed stays missing.
LEMMA RoomyInvariant ==
    ASSUME Cardinality(Member) <= CacheMax
    PROVE  Spec => []RoomyInv
<1>1. Init => RoomyInv
  BY DEF Init, RoomyInv, OneLockEach, ComputedIsMissing, Computing
<1>2. LockInv /\ RoomyInv /\ [Next]_vars => RoomyInv'
  BY RoomyStep
<1> QED  BY <1>1, <1>2, LockInvariant, PTL DEF Spec

\* While the cache has room for every member, two coroutines never compute the
\* vector of one member at a time, also when computations are cancelled.
THEOREM NoStampede ==
    ASSUME Cardinality(Member) <= CacheMax
    PROVE  Spec => []ComputeOnce
<1>1. LockInv /\ RoomyInv => ComputeOnce
  BY DEF LockInv, RoomyInv, HolderInv, OneLockEach, ComputeOnce, Computing
<1> QED  BY <1>1, LockInvariant, RoomyInvariant, PTL

\* Under the same condition no vector is computed that the cache has, at any
\* await of the computation: the second look, the lock and the room in the cache
\* together keep everybody else from storing it meanwhile.
THEOREM NothingIsComputedAgain ==
    ASSUME Cardinality(Member) <= CacheMax
    PROVE  Spec => []ComputedIsMissing
<1>1. RoomyInv => ComputedIsMissing
  BY DEF RoomyInv
<1> QED  BY <1>1, RoomyInvariant, PTL

-----------------------------------------------------------------------------
(* The loop.                                                               *)

\* The loop resumes coroutines.
LoopInv == LockInv /\ ready \in Seq(Coroutine)

\* A turn of the loop is a step of PreferenceCache, or only queues a callback.
LEMMA LoopStepIsStep ==
    ASSUME LoopInv, [LoopNext]_loopVars
    PROVE  [Next]_vars
<1>1. ASSUME NEW c \in Coroutine, BecomeReady(c)
      PROVE  UNCHANGED vars
  BY <1>1 DEF BecomeReady
<1>2. CASE RunHead
  <2>1. Head(ready) \in Coroutine
    BY <1>2 DEF RunHead, LoopInv
  <2> QED  BY <1>2, <2>1 DEF RunHead, RunSlice, Next
<1>3. CASE LoopTick
  BY <1>3 DEF LoopTick, Next
<1>4. CASE UNCHANGED loopVars
  BY <1>4 DEF loopVars
<1> QED  BY <1>1, <1>2, <1>3, <1>4 DEF LoopNext

LEMMA LoopInvStep == LoopInv /\ [LoopNext]_loopVars => LoopInv'
<1> SUFFICES ASSUME LoopInv, [LoopNext]_loopVars PROVE LoopInv'
  OBVIOUS
<1>1. LockInv'
  BY LoopStepIsStep, LockStep DEF LoopInv
<1>2. ready' \in Seq(Coroutine)
  <2>0. ready \in Seq(Coroutine) /\ woken' \subseteq Coroutine
    BY <1>1 DEF LoopInv, LockInv, TypeOK
  <2>1. ASSUME NEW c \in Coroutine, BecomeReady(c)
        PROVE  ready' \in Seq(Coroutine)
    BY <2>0, <2>1 DEF BecomeReady
  <2>2. CASE RunHead
    <3>1. PICK tail \in {<<>>} \cup {<<c>> : c \in Newly} : ready' = Tail(ready) \o tail
      BY <2>2 DEF RunHead
    <3>2. Newly \subseteq Coroutine
      BY <2>0 DEF Newly
    <3>3. tail \in Seq(Coroutine)
      <4>1. CASE tail = <<>>
        BY <4>1, EmptySeq
      <4>2. ASSUME NEW c \in Newly, tail = <<c>>
            PROVE  tail \in Seq(Coroutine)
        BY <3>2, <4>2
      <4> QED  BY <4>1, <4>2
    <3>4. ready # <<>>
      BY <2>2 DEF RunHead
    <3> QED  BY <2>0, <3>1, <3>3, <3>4
  <2>3. CASE UNCHANGED ready
    BY <2>0, <2>3
  <2> QED  BY <2>1, <2>2, <2>3 DEF LoopNext, LoopTick, loopVars
<1> QED  BY <1>1, <1>2 DEF LoopInv

\* The event loop resumes coroutines in one of the orders PreferenceCache allows, so what the
\* theorems above say holds on the loop (asyncio's ready queue, get_preference_vector).
THEOREM LoopImplementsCache == LoopSpec => Spec
<1>1. LoopInit => Init /\ LoopInv
  BY LockInit, EmptySeq DEF LoopInit, LoopInv
<1>2. LoopInv /\ [LoopNext]_loopVars => LoopInv' /\ [Next]_vars
  BY LoopInvStep, LoopStepIsStep
<1> QED  BY <1>1, <1>2, PTL DEF LoopSpec, Spec
=============================================================================

------------------------- MODULE LockManagerProofs -------------------------
(***************************************************************************)
(* Proofs about the lock manager of lockManager.c, for any number of       *)
(* messages, transactions and getters: the locks of a transaction are      *)
(* released together (ReleasedTogether), hash chains and scopes list the   *)
(* same locks (ChainsMatchScopes), and an atomic release object lives as   *)
(* long as anyone uses it (ReleaseObjectSafe).                             *)
(*                                                                         *)
(* None of them is inductive alone.  Releasing together needs to know how  *)
(* far the walk of Begin has come (MarkedUpTo); the count of interests     *)
(* needs that nobody waits for a transaction that has not begun to release *)
(* (WaitersPlaced), since its first lock sets the count; and both need     *)
(* that no lock is on two chains, or twice on one (ChainsExact).           *)
(***************************************************************************)
EXTENDS LockManager, FiniteSetTheorems, SequenceTheorems, TLAPS

Scopes == Trans \union {Selection}

\* The blocks of a scope are those on the hash chains with its name, once each.
ChainExact(s) ==
    /\ \A i \in 1..Len(reqs[s]) : lock[reqs[s][i]].scope = s
    /\ \A i, j \in 1..Len(reqs[s]) : reqs[s][i] = reqs[s][j] => i = j
    /\ \A n \in Names : lock[n].scope = s => \E i \in 1..Len(reqs[s]) : reqs[s][i] = n

ChainsExact == \A s \in Scopes : ChainExact(s)

\* Only locks of transactions are marked, and only messages that have been put
\* are locked.
LocksPlaced ==
    \A n \in Names :
        /\ lock[n].releasing => lock[n].scope \in Trans
        /\ n \notin seen => lock[n].scope = Nobody

\* How far a transaction's release has come.
MarkedUpTo(t) ==
    /\ \A i \in 1..Len(reqs[t]) : lock[reqs[t][i]].releasing <=> i <= mark[t]
    /\ tpc[t] = "active" => mark[t] = 0
    /\ tpc[t] = "marking" => mark[t] < Len(reqs[t])
    /\ tpc[t] \in {"memory", "releasing"} => mark[t] >= Len(reqs[t])
    /\ tpc[t] \in {"active", "marking", "memory"} => (current[t] <=> reqs[t] # << >>)
    /\ tpc[t] = "releasing" /\ reqs[t] # << >> => current[t]
    /\ tpc[t] \in {"fire", "ended", "gone"} => reqs[t] = << >> /\ ~current[t]

\* Who waits has registered, with a transaction that has begun to release.
WaitersPlaced ==
    \A g \in Getters :
        /\ pc[g] \in {"check", "asleep", "woken"} <=> waitOn[g] # Nobody
        /\ waitOn[g] \in Trans => tpc[waitOn[g]] # "active"

\* A request is for a message that was put; a selector that has its lock has
\* it alone.
RequestsPlaced ==
    /\ \A g \in Getters :
         /\ pc[g] # "idle" => want[g] \in seen
         /\ pc[g] \in {"spin", "has", "release"} => g \in Selectors
         /\ pc[g] \in {"has", "release"} => lock[want[g]].scope = Selection
    /\ \A g, h \in Getters :
         pc[g] \in {"has", "release"} /\ pc[h] \in {"has", "release"} /\ want[g] = want[h]
             => g = h

\* TypeOK, but for the bound on the count of interests, which InterestCounted
\* implies.
Shape ==
    /\ lock \in [Names -> [scope : Scopes \union {Nobody}, releasing : BOOLEAN]]
    /\ seen \in SUBSET Names
    /\ reqs \in [Scopes -> Seq(Names)]
    /\ current \in [Trans -> BOOLEAN]
    /\ ar \in [Trans -> [interest : Int, fired : BOOLEAN, freed : BOOLEAN]]
    /\ tpc \in [Trans -> {"active", "marking", "memory", "releasing", "fire", "ended", "gone"}]
    /\ mark \in [Trans -> 0 .. Cardinality(Names)]
    /\ latch \in Selectors \union {Nobody}
    /\ pc \in [Getters -> {"idle", "spin", "search", "check", "asleep", "woken", "has", "release"}]
    /\ want \in [Getters -> Names \union {Nobody}]
    /\ waitOn \in [Getters -> Trans \union {Nobody}]

LockInv == /\ Shape
           /\ ChainsExact
           /\ LocksPlaced
           /\ \A t \in Trans : MarkedUpTo(t)
           /\ WaitersPlaced
           /\ RequestsPlaced
           /\ InterestCounted
           /\ NoUseAfterFree

-----------------------------------------------------------------------------
(* Sets, counts and sequences.                                              *)

\* The reserved names are the names of nothing else.
LEMMA Reserved ==
    /\ Selection \notin Trans /\ Nobody \notin Trans /\ Nobody # Selection
    /\ Nobody \notin Scopes /\ Nobody \notin Names /\ Nobody \notin Selectors
    /\ Trans \subseteq Scopes /\ Selection \in Scopes /\ Selectors \subseteq Getters
BY ReservedNames DEF Selection, Nobody, Scopes, Getters

LEMMA GettersFinite == IsFiniteSet(Getters) /\ Cardinality(Getters) \in Nat
<1>1. IsFiniteSet(Getters)
  BY LockSets, FS_Union DEF Getters
<1> QED
  BY <1>1, FS_CardinalityType

LEMMA NamesFinite == IsFiniteSet(Names) /\ Cardinality(Names) \in Nat
BY LockSets, FS_CardinalityType

\* Who has registered with t.
Waiters(t) == {g \in Getters : waitOn[g] = t}

\* What an atomic release object is counted for.
Due(t) == Cardinality(Waiters(t))
              + (IF current[t] THEN 1 ELSE 0) + (IF tpc[t] # "gone" THEN 1 ELSE 0)

LEMMA InterestIsDue == InterestCounted <=> \A t \in Trans : ar[t].interest = Due(t)
BY DEF InterestCounted, Due, Waiters

LEMMA WaitersCount ==
    ASSUME NEW t
    PROVE  /\ IsFiniteSet(Waiters(t)) /\ Cardinality(Waiters(t)) \in Nat
           /\ Cardinality(Waiters(t)) <= Cardinality(Getters)
           /\ Cardinality(Waiters(t)) = 0 <=> Waiters(t) = {}
<1>1. Waiters(t) \in SUBSET Getters
  BY DEF Waiters
<1>2. IsFiniteSet(Waiters(t)) /\ Cardinality(Waiters(t)) <= Cardinality(Getters)
  BY <1>1, GettersFinite, FS_Subset
<1> QED
  BY <1>2, FS_CardinalityType, FS_EmptySet

\* A scope's chain is no longer than there are messages.
LEMMA ChainLength ==
    ASSUME NEW s \in Seq(Names),
           \A i, j \in 1..Len(s) : s[i] = s[j] => i = j
    PROVE  Len(s) <= Cardinality(Names)
<1>1. Len(s) \in Nat /\ s \in [1..Len(s) -> Names]
  OBVIOUS
<1>2. s \in Injection(1..Len(s), Names)
  BY <1>1 DEF Injection, IsInjective
<1>3. Cardinality(1..Len(s)) <= Cardinality(Names)
  BY <1>2, NamesFinite, FS_Injection
<1>4. Cardinality(1..Len(s)) = Len(s)
  BY <1>1, FS_Interval
<1> QED
  BY <1>3, <1>4

\* Unlinking one block moves those behind it up.
LEMMA Unlinked ==
    ASSUME NEW S, NEW s \in Seq(S), NEW k \in 1..Len(s)
    PROVE  /\ RemoveAt(s, k) \in Seq(S) /\ Len(RemoveAt(s, k)) = Len(s) - 1
           /\ \A i \in 1..(Len(s) - 1) :
                RemoveAt(s, k)[i] = IF i < k THEN s[i] ELSE s[i + 1]
<1> DEFINE a == SubSeq(s, 1, k - 1)
           b == SubSeq(s, k + 1, Len(s))
<1>1. Len(s) \in Nat
  OBVIOUS
<1>2. a \in Seq(S) /\ Len(a) = k - 1 /\ \A i \in 1..(k - 1) : a[i] = s[i]
  BY <1>1
<1>3. b \in Seq(S) /\ Len(b) = Len(s) - k /\ \A i \in 1..(Len(s) - k) : b[i] = s[k + i]
  BY <1>1
<1> HIDE DEF a, b
<1>4. a \o b \in Seq(S) /\ Len(a \o b) = Len(s) - 1
  BY <1>1, <1>2, <1>3
<1>5. \A i \in 1..(Len(s) - 1) : (a \o b)[i] = IF i < k THEN a[i] ELSE b[i - (k - 1)]
  BY <1>1, <1>2, <1>3
<1>6. \A i \in 1..(Len(s) - 1) : i >= k => b[i - (k - 1)] = s[i + 1]
  <2> SUFFICES ASSUME NEW i \in 1..(Len(s) - 1), i >= k PROVE b[i - (k - 1)] = s[i + 1]
    OBVIOUS
  <2>1. i - (k - 1) \in 1..(Len(s) - k) /\ k + (i - (k - 1)) = i + 1
    BY <1>1
  <2> QED
    BY <1>3, <2>1
<1>7. \A i \in 1..(Len(s) - 1) : i < k => a[i] = s[i]
  BY <1>1, <1>2
<1>8. RemoveAt(s, k) = a \o b
  BY DEF RemoveAt, a, b
<1> QED
  BY <1>4, <1>5, <1>6, <1>7, <1>8

-----------------------------------------------------------------------------
(* The invariant is inductive.                                              *)

LEMMA LockInit == Init => LockInv
<1> SUFFICES ASSUME Init PROVE LockInv
  OBVIOUS
<1>1. Shape
  BY NamesFinite, Reserved DEF Init, Shape, Free, Scopes
<1>2. ChainsExact
  BY Reserved DEF Init, ChainsExact, ChainExact, Free, Scopes
<1>3. LocksPlaced
  BY DEF Init, LocksPlaced, Free
<1>4. \A t \in Trans : MarkedUpTo(t)
  BY Reserved DEF Init, MarkedUpTo, Scopes
<1>5. WaitersPlaced /\ RequestsPlaced /\ NoUseAfterFree
  BY Reserved DEF Init, WaitersPlaced, RequestsPlaced, NoUseAfterFree
<1>6. \A t \in Trans : Waiters(t) = {} /\ Cardinality(Waiters(t)) = 0
  <2>1. \A t \in Trans : Waiters(t) = {}
    BY Reserved DEF Init, Waiters
  <2> QED
    BY <2>1, FS_EmptySet
<1>7. InterestCounted
  BY <1>6, InterestIsDue DEF Init, Due
<1> QED
  BY <1>1, <1>2, <1>3, <1>4, <1>5, <1>7 DEF LockInv

\* When neither the registrations nor the commit-duration locks change, nor a
\* scope is freed, the count is what it was.
LEMMA CountUnchanged ==
    ASSUME InterestCounted, waitOn' = waitOn, current' = current,
           \A t \in Trans : ar'[t].interest = ar[t].interest,
           \A t \in Trans : tpc'[t] = "gone" <=> tpc[t] = "gone"
    PROVE  InterestCounted'
<1>1. \A t : Waiters(t)' = Waiters(t)
  BY DEF Waiters
<1>2. \A t \in Trans : Due(t)' = Due(t)
  BY <1>1 DEF Due
<1>3. \A t \in Trans : ar[t].interest = Due(t)
  BY InterestIsDue
<1>4. \A t \in Trans : ar'[t].interest = Due(t)'
  BY <1>2, <1>3
<1> QED
  BY <1>4 DEF InterestCounted, Due, Waiters

\* A scope that gains and loses no lock keeps its chain exact ...
LEMMA ChainKept ==
    ASSUME NEW s \in Scopes, Shape, ChainExact(s), reqs'[s] = reqs[s],
           \A m \in Names : lock'[m].scope = s <=> lock[m].scope = s
    PROVE  ChainExact(s)'
<1>1. \A i \in 1..Len(reqs[s]) : reqs[s][i] \in Names
  BY DEF Shape
<1> QED
  BY <1>1 DEF ChainExact

\* ... and a transaction whose marks do not change is where it was.
LEMMA MarksKept ==
    ASSUME NEW u \in Trans, Shape, ChainExact(u), MarkedUpTo(u),
           reqs'[u] = reqs[u], mark'[u] = mark[u], current'[u] = current[u], tpc'[u] = tpc[u],
           \A m \in Names : lock[m].scope = u => (lock'[m].releasing <=> lock[m].releasing)
    PROVE  MarkedUpTo(u)'
<1>1. \A i \in 1..Len(reqs[u]) : reqs[u][i] \in Names /\ lock[reqs[u][i]].scope = u
  BY Reserved DEF Shape, ChainExact
<1>2. \A i \in 1..Len(reqs[u]) : lock'[reqs[u][i]].releasing <=> lock[reqs[u][i]].releasing
  BY <1>1
<1> QED
  BY <1>2 DEF MarkedUpTo

\* A put outside any transaction.
LEMMA PutUnlockedKeeps ==
    ASSUME NEW n \in Names, LockInv, PutUnlocked(n)
    PROVE  LockInv'
<1> USE DEF LockInv
<1>1. UNCHANGED <<lock, reqs, current, ar, tpc, mark, latch, pc, want, waitOn>>
  BY DEF PutUnlocked
<1>2. seen' = seen \union {n}
  BY DEF PutUnlocked
<1>3. Shape'
  BY <1>1, <1>2 DEF Shape
<1>4. ChainsExact' /\ \A t \in Trans : MarkedUpTo(t)'
  BY <1>1 DEF ChainsExact, ChainExact, MarkedUpTo
<1>5. LocksPlaced' /\ WaitersPlaced' /\ RequestsPlaced'
  BY <1>1, <1>2 DEF LocksPlaced, WaitersPlaced, RequestsPlaced
<1>6. NoUseAfterFree'
  BY <1>1 DEF NoUseAfterFree, Owned
<1>7. InterestCounted'
  BY <1>1, CountUnchanged
<1> QED
  BY <1>3, <1>4, <1>5, <1>6, <1>7

\* The first lock that a transaction takes sets the count: nobody waits for it
\* yet.
LEMMA TakeLockKeeps ==
    ASSUME NEW t \in Trans, NEW n \in Names, LockInv, TakeLock(t, n)
    PROVE  LockInv'
<1> USE DEF LockInv
<1>1. /\ UNCHANGED <<tpc, mark, latch, pc, want, waitOn>> /\ tpc[t] = "active"
      /\ n \notin seen /\ seen' = seen \union {n} /\ t \in Scopes
      /\ lock[n].scope = Nobody /\ mark[t] = 0 /\ Nobody \notin Scopes
  BY Reserved DEF TakeLock, LocksPlaced, MarkedUpTo
<1>2. /\ lock'[n] = [scope |-> t, releasing |-> FALSE]
      /\ \A m \in Names : m # n => lock'[m] = lock[m]
      /\ lock' \in [Names -> [scope : Scopes \union {Nobody}, releasing : BOOLEAN]]
  BY <1>1 DEF TakeLock, Shape
<1>3. /\ \A s \in Scopes : s # t => reqs'[s] = reqs[s]
      /\ reqs[t] \in Seq(Names) /\ reqs'[t] = Append(reqs[t], n)
      /\ reqs' \in [Scopes -> Seq(Names)]
  BY <1>1 DEF TakeLock, Shape
<1>4. /\ Len(reqs[t]) \in Nat /\ Len(reqs'[t]) = Len(reqs[t]) + 1 /\ reqs'[t] # << >>
      /\ reqs'[t][Len(reqs[t]) + 1] = n
      /\ \A i \in 1..Len(reqs[t]) : reqs'[t][i] = reqs[t][i] /\ reqs[t][i] \in Names
  BY <1>3
<1>5. \A s \in Scopes : \A i \in 1..Len(reqs[s]) : reqs[s][i] # n /\ reqs[s][i] \in Names
  BY <1>1 DEF ChainsExact, ChainExact, Shape
<1>6. /\ \A u \in Trans : u # t => ar'[u] = ar[u] /\ current'[u] = current[u]
      /\ ar'[t] = FirstCommitLock(t) /\ current'[t] = TRUE
      /\ current' \in [Trans -> BOOLEAN]
  BY DEF TakeLock, Shape
<1>7. /\ ar'[t].interest = (IF current[t] THEN ar[t].interest ELSE 2)
      /\ ar'[t].freed = ar[t].freed
      /\ ar'[t] \in [interest : Int, fired : BOOLEAN, freed : BOOLEAN]
  <2>1. ar[t] \in [interest : Int, fired : BOOLEAN, freed : BOOLEAN]
    BY DEF Shape
  <2>2. ar'[t] = IF current[t] THEN ar[t] ELSE [ar[t] EXCEPT !.interest = 2]
    BY <1>6 DEF FirstCommitLock
  <2>3. CASE current[t]
    BY <2>1, <2>2, <2>3
  <2>4. CASE ~current[t]
    BY <2>1, <2>2, <2>4
  <2> QED
    BY <2>3, <2>4
<1>8. ar' \in [Trans -> [interest : Int, fired : BOOLEAN, freed : BOOLEAN]]
  BY <1>6, <1>7 DEF TakeLock, Shape
<1>9. Shape'
  BY <1>1, <1>2, <1>3, <1>6, <1>8 DEF Shape
<1>10. ChainsExact'
  <2>1. ASSUME NEW s \in Scopes, s # t PROVE ChainExact(s)'
    <3>1. \A m \in Names : lock'[m].scope = s <=> lock[m].scope = s
      BY <1>1, <1>2, <2>1
    <3> QED
      BY <1>3, <2>1, <3>1, ChainKept DEF ChainsExact
  <2>2. \A i \in 1..Len(reqs'[t]) : lock'[reqs'[t][i]].scope = t
    BY <1>1, <1>2, <1>4, <1>5 DEF ChainsExact, ChainExact
  <2>3. \A i, j \in 1..Len(reqs'[t]) : reqs'[t][i] = reqs'[t][j] => i = j
    BY <1>1, <1>4, <1>5, SMTT(60) DEF ChainsExact, ChainExact
  <2>4. \A m \in Names : lock'[m].scope = t => \E i \in 1..Len(reqs'[t]) : reqs'[t][i] = m
    BY <1>1, <1>2, <1>4, <1>5 DEF ChainsExact, ChainExact
  <2> QED
    BY <2>1, <2>2, <2>3, <2>4 DEF ChainsExact, ChainExact
<1>11. LocksPlaced'
  BY <1>1, <1>2 DEF LocksPlaced
<1>12. ASSUME NEW u \in Trans PROVE MarkedUpTo(u)'
  <2>1. CASE u # t
    <3>1. \A m \in Names : lock[m].scope = u => lock'[m] = lock[m]
      BY <1>1, <1>2, Reserved
    <3> QED
      BY <1>1, <1>3, <1>6, <2>1, <3>1, MarksKept, Reserved DEF ChainsExact
  <2>2. CASE u = t
    <3>1. \A i \in 1..Len(reqs'[t]) : lock'[reqs'[t][i]].releasing <=> i <= mark'[t]
      BY <1>1, <1>2, <1>4, <1>5, SMTT(60) DEF MarkedUpTo
    <3> QED
      BY <1>1, <1>4, <1>6, <2>2, <3>1 DEF MarkedUpTo
  <2> QED
    BY <2>1, <2>2
<1>13. WaitersPlaced' /\ RequestsPlaced'
  BY <1>1, <1>2 DEF WaitersPlaced, RequestsPlaced, Shape
<1>14. Waiters(t) = {}
  BY <1>1 DEF Waiters, WaitersPlaced
<1>15. \A u \in Trans : ar'[u].interest = Due(u)'
  <2>1. \A u : Waiters(u)' = Waiters(u)
    BY <1>1 DEF Waiters
  <2>2. \A u \in Trans : ar[u].interest = Due(u)
    BY InterestIsDue
  <2>3. Cardinality(Waiters(t)) = 0
    BY <1>14, FS_EmptySet
  <2>4. ar'[t].interest = Due(t)'
    BY <1>1, <1>6, <1>7, <2>1, <2>2, <2>3 DEF Due
  <2> QED
    BY <1>1, <1>6, <2>1, <2>2, <2>4 DEF Due
<1>16. InterestCounted'
  BY <1>15 DEF InterestCounted, Due, Waiters
<1>17. NoUseAfterFree'
  <2>1. ~ar[t].freed /\ ~ar'[t].freed
    BY <1>1, <1>7 DEF NoUseAfterFree
  <2>2. \A u \in Trans : u # t => Owned(u)' = Owned(u)
    BY <1>1, <1>2, Reserved DEF Owned
  <2> QED
    BY <1>1, <1>6, <2>1, <2>2 DEF NoUseAfterFree
<1> QED
  BY <1>9, <1>10, <1>11, <1>12, <1>13, <1>16, <1>17

\* Begin and Complete start their walks.
LEMMA WalkStartsKeeps ==
    ASSUME NEW t \in Trans, LockInv, ReleaseAllBegin(t) \/ ReleaseAllComplete(t)
    PROVE  LockInv'
<1> USE DEF LockInv
<1>1. /\ UNCHANGED <<lock, seen, reqs, current, ar, mark, latch, pc, want, waitOn>>
      /\ \A u \in Trans : u # t => tpc'[u] = tpc[u]
      /\ tpc' \in [Trans -> {"active", "marking", "memory", "releasing", "fire", "ended", "gone"}]
  BY DEF ReleaseAllBegin, ReleaseAllComplete, Shape
<1>2. \/ tpc[t] = "active" /\ tpc'[t] = IF current[t] THEN "marking" ELSE "memory"
      \/ tpc[t] = "memory" /\ tpc'[t] = "releasing"
  BY DEF ReleaseAllBegin, ReleaseAllComplete, Shape
<1>3. Shape'
  BY <1>1 DEF Shape
<1>4. ChainsExact' /\ LocksPlaced' /\ RequestsPlaced'
  BY <1>1 DEF ChainsExact, ChainExact, LocksPlaced, RequestsPlaced
<1>5. ASSUME NEW u \in Trans PROVE MarkedUpTo(u)'
  <2>1. CASE u # t
    BY <1>1, <2>1 DEF MarkedUpTo
  <2>2. CASE u = t
    <3>1. reqs[t] \in Seq(Names) /\ mark[t] \in Nat
      BY Reserved, NamesFinite DEF Shape
    <3>2. Len(reqs[t]) \in Nat /\ (reqs[t] # << >> <=> Len(reqs[t]) > 0)
      BY <3>1, EmptySeq
    <3> QED
      BY <1>1, <1>2, <2>2, <3>1, <3>2 DEF MarkedUpTo
  <2> QED
    BY <2>1, <2>2
<1>6. WaitersPlaced'
  BY <1>1, <1>2 DEF WaitersPlaced
<1>7. InterestCounted'
  BY <1>1, <1>2, CountUnchanged
<1>8. NoUseAfterFree'
  BY <1>1, <1>2 DEF NoUseAfterFree, Owned
<1> QED
  BY <1>3, <1>4, <1>5, <1>6, <1>7, <1>8

\* Begin marks the next block.
LEMMA MarkReleasingKeeps ==
    ASSUME NEW t \in Trans, LockInv, MarkReleasing(t)
    PROVE  LockInv'
<1> USE DEF LockInv
<1> DEFINE k == mark[t] + 1
           n == reqs[t][k]
<1>1. /\ reqs[t] \in Seq(Names) /\ mark[t] \in Nat /\ Len(reqs[t]) \in Nat
      /\ mark[t] < Len(reqs[t]) /\ tpc[t] = "marking" /\ current[t]
  BY Reserved, NamesFinite, EmptySeq DEF MarkReleasing, Shape, MarkedUpTo
<1>2. k \in 1..Len(reqs[t]) /\ n \in Names /\ lock[n].scope = t
  BY <1>1, Reserved DEF ChainsExact, ChainExact
<1>3. Len(reqs[t]) <= Cardinality(Names)
  BY <1>1, ChainLength, Reserved DEF ChainsExact, ChainExact
<1>4. /\ UNCHANGED <<seen, reqs, current, ar, latch, pc, want, waitOn>>
      /\ mark'[t] = k /\ \A u \in Trans : u # t => mark'[u] = mark[u] /\ tpc'[u] = tpc[u]
      /\ mark' \in [Trans -> 0 .. Cardinality(Names)]
  BY <1>1, <1>3, NamesFinite DEF MarkReleasing, Shape
<1>5. /\ lock' = [lock EXCEPT ![n].releasing = TRUE]
      /\ tpc'[t] = (IF k = Len(reqs[t]) THEN "memory" ELSE "marking")
      /\ tpc' \in [Trans -> {"active", "marking", "memory", "releasing", "fire", "ended", "gone"}]
  BY <1>1, <1>4 DEF MarkReleasing, Shape
<1> HIDE DEF n
<1>6. /\ lock'[n].releasing /\ lock'[n].scope = t
      /\ \A m \in Names : m # n => lock'[m] = lock[m]
      /\ lock' \in [Names -> [scope : Scopes \union {Nobody}, releasing : BOOLEAN]]
  <2> DEFINE L == [scope : Scopes \union {Nobody}, releasing : BOOLEAN]
             b == [lock[n] EXCEPT !.releasing = TRUE]
  <2>1. lock \in [Names -> L] /\ lock[n] \in L
    BY <1>2 DEF Shape
  <2>2. b \in L /\ b.releasing /\ b.scope = t
    BY <1>2, <2>1
  <2>3. lock' = [lock EXCEPT ![n] = b]
    BY <1>5
  <2> HIDE DEF L, b
  <2>4. lock'[n] = b /\ lock' \in [Names -> L] /\ \A m \in Names : m # n => lock'[m] = lock[m]
    BY <1>2, <2>1, <2>2, <2>3
  <2> QED
    BY <2>2, <2>4 DEF L
<1>7. \A m \in Names : lock'[m].scope = lock[m].scope
  BY <1>2, <1>6
<1>8. Shape'
  BY <1>4, <1>5, <1>6 DEF Shape
<1>9. ChainsExact'
  BY <1>4, <1>7, ChainKept DEF ChainsExact
<1>10. LocksPlaced'
  BY <1>2, <1>4, <1>6, <1>7 DEF LocksPlaced
<1>11. ASSUME NEW u \in Trans PROVE MarkedUpTo(u)'
  <2>1. CASE u # t
    <3>1. \A m \in Names : lock[m].scope = u => lock'[m] = lock[m]
      BY <1>2, <1>6, <2>1
    <3> QED
      BY <1>4, <2>1, <3>1, MarksKept, Reserved DEF ChainsExact
  <2>2. CASE u = t
    <3>1. ASSUME NEW i \in 1..Len(reqs[t])
          PROVE  reqs[t][i] \in Names /\ (reqs[t][i] = n <=> i = k)
      <4>1. ChainExact(t) /\ reqs[t] \in Seq(Names) /\ k \in 1..Len(reqs[t]) /\ n = reqs[t][k]
        BY <1>1, <1>2, Reserved DEF ChainsExact, n, Shape
      <4>2. \A j \in 1..Len(reqs[t]) : reqs[t][i] = reqs[t][j] => i = j
        BY <4>1 DEF ChainExact
      <4> QED
        BY <4>1, <4>2
    <3>2. ASSUME NEW i \in 1..Len(reqs[t]) PROVE lock'[reqs[t][i]].releasing <=> i <= k
      <4>1. lock[reqs[t][i]].releasing <=> i <= mark[t]
        BY DEF MarkedUpTo
      <4>2. CASE i = k
        BY <1>1, <1>6, <3>1, <4>2
      <4>3. CASE i # k
        <5>1. lock'[reqs[t][i]] = lock[reqs[t][i]]
          BY <1>6, <3>1, <4>3
        <5> QED
          BY <1>1, <4>1, <4>3, <5>1
      <4> QED
        BY <4>2, <4>3
    <3>3. reqs[t] # << >>
      BY <1>1
    <3> QED
      BY <1>1, <1>2, <1>4, <1>5, <2>2, <3>2, <3>3 DEF MarkedUpTo
  <2> QED
    BY <2>1, <2>2
<1>12. WaitersPlaced'
  BY <1>1, <1>4, <1>5 DEF WaitersPlaced
<1>13. RequestsPlaced'
  BY <1>4, <1>7 DEF RequestsPlaced, Shape
<1>14. InterestCounted'
  BY <1>1, <1>4, <1>5, CountUnchanged
<1>15. NoUseAfterFree'
  <2>1. \A u \in Trans : Owned(u)' = Owned(u)
    BY <1>7 DEF Owned
  <2> QED
    BY <1>1, <1>4, <1>5, <2>1 DEF NoUseAfterFree
<1> QED
  BY <1>8, <1>9, <1>10, <1>11, <1>12, <1>13, <1>14, <1>15

\* Complete unlinks the newest block: it was the scope's, and marked.
LEMMA UnlinkKeeps ==
    ASSUME NEW t \in Trans, LockInv, Unlink(t)
    PROVE  LockInv'
<1> USE DEF LockInv
<1> DEFINE k == Len(reqs[t])
           n == reqs[t][k]
<1>1. /\ reqs[t] \in Seq(Names) /\ k \in Nat /\ k >= 1 /\ tpc[t] = "releasing"
      /\ reqs[t] # << >> /\ current[t]
  BY Reserved, EmptySeq DEF Unlink, Shape, MarkedUpTo
<1>2. k \in 1..k /\ n \in Names /\ lock[n].scope = t
  BY <1>1, Reserved DEF ChainsExact, ChainExact
<1>3. /\ UNCHANGED <<seen, current, ar, tpc, mark, latch, pc, want, waitOn>>
      /\ lock' = [lock EXCEPT ![n] = Free]
      /\ reqs'[t] = SubSeq(reqs[t], 1, k - 1)
      /\ \A s \in Scopes : s # t => reqs'[s] = reqs[s]
  BY Reserved DEF Unlink, Shape
<1>4. /\ SubSeq(reqs[t], 1, k - 1) \in Seq(Names) /\ Len(SubSeq(reqs[t], 1, k - 1)) = k - 1
      /\ \A i \in 1..(k - 1) : SubSeq(reqs[t], 1, k - 1)[i] = reqs[t][i]
  BY <1>1
<1>5. reqs' \in [Scopes -> Seq(Names)]
  BY <1>4 DEF Unlink, Shape
<1> HIDE DEF n
<1>6. /\ lock'[n] = Free
      /\ \A m \in Names : m # n => lock'[m] = lock[m]
      /\ lock' \in [Names -> [scope : Scopes \union {Nobody}, releasing : BOOLEAN]]
  BY <1>2, <1>3 DEF Shape, Free
<1>7. lock'[n].scope = Nobody /\ lock'[n].releasing = FALSE
  BY <1>6 DEF Free
<1>8. Shape'
  BY <1>3, <1>5, <1>6 DEF Shape
<1>9. \A i \in 1..k : reqs[t][i] \in Names /\ lock[reqs[t][i]].scope = t
                      /\ (reqs[t][i] = n <=> i = k)
  BY <1>1, <1>2, Reserved DEF ChainsExact, ChainExact, n
<1>10. Len(reqs'[t]) = k - 1 /\ \A i \in 1..(k - 1) : reqs'[t][i] = reqs[t][i] /\ reqs'[t][i] # n
  BY <1>1, <1>3, <1>4, <1>9
<1>11. ChainsExact'
  <2>1. ASSUME NEW s \in Scopes, s # t PROVE ChainExact(s)'
    <3>1. \A m \in Names : lock'[m].scope = s <=> lock[m].scope = s
      BY <1>2, <1>6, <1>7, <2>1, Reserved
    <3> QED
      BY <1>3, <2>1, <3>1, ChainKept DEF ChainsExact
  <2>2. ASSUME NEW i \in 1..(k - 1) PROVE lock'[reqs'[t][i]].scope = t
    <3>1. i \in 1..k
      BY <1>1
    <3>2. /\ reqs'[t][i] = reqs[t][i] /\ reqs[t][i] # n
          /\ reqs[t][i] \in Names /\ lock[reqs[t][i]].scope = t
      BY <1>9, <1>10, <3>1
    <3> QED
      BY <1>6, <3>2
  <2>3. \A i, j \in 1..(k - 1) : reqs'[t][i] = reqs'[t][j] => i = j
    BY <1>1, <1>10, Reserved DEF ChainsExact, ChainExact
  <2>4. ASSUME NEW m \in Names, lock'[m].scope = t PROVE \E i \in 1..(k - 1) : reqs'[t][i] = m
    <3>1. m # n /\ lock[m].scope = t
      BY <1>6, <1>7, <2>4, Reserved
    <3>2. PICK i \in 1..k : reqs[t][i] = m
      BY <3>1, Reserved DEF ChainsExact, ChainExact
    <3> QED
      BY <1>1, <1>9, <1>10, <3>1, <3>2
  <2>5. ChainExact(t)'
    BY <1>10, <2>2, <2>3, <2>4 DEF ChainExact
  <2> QED
    BY <2>1, <2>5 DEF ChainsExact
<1>12. LocksPlaced'
  BY <1>3, <1>6, <1>7 DEF LocksPlaced
<1>13. ASSUME NEW u \in Trans PROVE MarkedUpTo(u)'
  <2>1. CASE u # t
    <3>1. \A m \in Names : lock[m].scope = u => lock'[m] = lock[m]
      BY <1>2, <1>6, <2>1
    <3> QED
      BY <1>3, <2>1, <3>1, MarksKept, Reserved DEF ChainsExact
  <2>2. CASE u = t
    <3>1. ASSUME NEW i \in 1..(k - 1) PROVE lock'[reqs'[t][i]].releasing <=> i <= mark[t]
      <4>1. i \in 1..k
        BY <1>1
      <4>2. reqs'[t][i] = reqs[t][i] /\ reqs[t][i] # n /\ reqs[t][i] \in Names
        BY <1>9, <1>10, <4>1
      <4>3. lock'[reqs'[t][i]] = lock[reqs[t][i]]
        BY <1>6, <4>2
      <4>4. lock[reqs[t][i]].releasing <=> i <= mark[t]
        BY <1>1, <4>1 DEF MarkedUpTo
      <4> QED
        BY <4>3, <4>4
    <3>2. mark[t] >= k /\ mark[t] \in Nat
      BY <1>1, NamesFinite DEF MarkedUpTo, Shape
    <3>3. mark'[t] >= Len(reqs'[t]) /\ mark'[t] = mark[t] /\ tpc'[t] = "releasing" /\ current'[t]
      BY <1>1, <1>3, <1>10, <3>2
    <3>4. \A i \in 1..Len(reqs'[t]) : lock'[reqs'[t][i]].releasing <=> i <= mark'[t]
      BY <1>10, <3>1, <3>3
    <3> QED
      BY <2>2, <3>3, <3>4 DEF MarkedUpTo
  <2> QED
    BY <2>1, <2>2
<1>14. WaitersPlaced'
  BY <1>3 DEF WaitersPlaced
<1>15. RequestsPlaced'
  <2>1. \A m \in Names : lock[m].scope = Selection => lock'[m] = lock[m]
    BY <1>2, <1>6, Reserved
  <2> QED
    BY <1>3, <2>1 DEF RequestsPlaced, Shape
<1>16. InterestCounted'
  BY <1>3, CountUnchanged
<1>17. NoUseAfterFree'
  <2>1. \A u \in Trans : Owned(u)' \subseteq Owned(u)
    BY <1>6, <1>7, Reserved DEF Owned
  <2> QED
    BY <1>3, <2>1 DEF NoUseAfterFree
<1> QED
  BY <1>8, <1>11, <1>12, <1>13, <1>14, <1>15, <1>16, <1>17

\* With all blocks unlinked the locks' own interest goes.
LEMMA AllUnlinkedKeeps ==
    ASSUME NEW t \in Trans, LockInv, AllUnlinked(t)
    PROVE  LockInv'
<1> USE DEF LockInv
<1> DEFINE R == [interest : Int, fired : BOOLEAN, freed : BOOLEAN]
<1>1. /\ UNCHANGED <<lock, seen, reqs, mark, latch, pc, want, waitOn>>
      /\ tpc[t] = "releasing" /\ reqs[t] = << >>
  BY DEF AllUnlinked
<1>2. /\ current' \in [Trans -> BOOLEAN] /\ current'[t] = FALSE
      /\ \A u \in Trans : u # t => current'[u] = current[u]
  BY DEF AllUnlinked, Shape
<1>3. ar \in [Trans -> R] /\ ar[t] \in R
  BY DEF Shape
<1>4. /\ ar' \in [Trans -> R] /\ ar'[t].freed = ar[t].freed
      /\ \A u \in Trans : u # t => ar'[u] = ar[u]
      /\ ar'[t].interest = IF current[t] THEN ar[t].interest - 1 ELSE ar[t].interest
  <2> DEFINE b == [ar[t] EXCEPT !.interest = ar[t].interest - 1]
  <2>1. b \in R /\ b.freed = ar[t].freed /\ b.interest = ar[t].interest - 1
    BY <1>3
  <2>2. ar' = IF current[t] THEN [ar EXCEPT ![t] = b] ELSE ar
    BY DEF AllUnlinked
  <2> HIDE DEF b, R
  <2>3. CASE current[t]
    BY <1>3, <2>1, <2>2, <2>3
  <2>4. CASE ~current[t]
    BY <1>3, <2>2, <2>4
  <2> QED
    BY <2>3, <2>4
<1>5. /\ tpc' \in [Trans -> {"active", "marking", "memory", "releasing", "fire", "ended", "gone"}]
      /\ tpc'[t] \in {"fire", "ended"}
      /\ \A u \in Trans : u # t => tpc'[u] = tpc[u]
  BY DEF AllUnlinked, Shape
<1>6. Shape'
  BY <1>1, <1>2, <1>4, <1>5 DEF Shape
<1>7. ChainsExact' /\ LocksPlaced' /\ RequestsPlaced'
  BY <1>1 DEF ChainsExact, ChainExact, LocksPlaced, RequestsPlaced
<1>8. ASSUME NEW u \in Trans PROVE MarkedUpTo(u)'
  <2>1. CASE u # t
    BY <1>1, <1>2, <1>5, <2>1 DEF MarkedUpTo
  <2>2. CASE u = t
    BY <1>1, <1>2, <1>5, <2>2 DEF MarkedUpTo
  <2> QED
    BY <2>1, <2>2
<1>9. WaitersPlaced'
  BY <1>1, <1>5 DEF WaitersPlaced
<1>10. \A u \in Trans : ar'[u].interest = Due(u)'
  <2>1. \A u : Waiters(u)' = Waiters(u)
    BY <1>1 DEF Waiters
  <2>2. \A u \in Trans : ar[u].interest = Due(u)
    BY InterestIsDue
  <2>3. Cardinality(Waiters(t)) \in Nat
    BY WaitersCount
  <2>4. ar'[t].interest = Due(t)'
    BY <1>1, <1>2, <1>4, <1>5, <2>1, <2>2, <2>3 DEF Due
  <2> QED
    BY <1>2, <1>4, <1>5, <2>1, <2>2, <2>4 DEF Due
<1>11. InterestCounted'
  BY <1>10 DEF InterestCounted, Due, Waiters
<1>12. NoUseAfterFree'
  <2>1. ~ar[t].freed /\ ~ar'[t].freed
    BY <1>1, <1>4 DEF NoUseAfterFree
  <2>2. \A u \in Trans : u # t => Owned(u)' = Owned(u)
    BY <1>1 DEF Owned
  <2> QED
    BY <1>1, <1>4, <1>5, <2>1, <2>2 DEF NoUseAfterFree
<1> QED
  BY <1>6, <1>7, <1>8, <1>9, <1>11, <1>12

\* The event wakes all who sleep on it.
LEMMA FireEventKeeps ==
    ASSUME NEW t \in Trans, LockInv, FireEvent(t)
    PROVE  LockInv'
<1> USE DEF LockInv
<1> DEFINE R == [interest : Int, fired : BOOLEAN, freed : BOOLEAN]
<1>1. UNCHANGED <<lock, seen, reqs, current, mark, latch, want, waitOn>> /\ tpc[t] = "fire"
  BY DEF FireEvent
<1>2. /\ tpc' \in [Trans -> {"active", "marking", "memory", "releasing", "fire", "ended", "gone"}]
      /\ tpc'[t] = "ended" /\ \A u \in Trans : u # t => tpc'[u] = tpc[u]
  BY DEF FireEvent, Shape
<1>3. \A g \in Getters : IF g \in Sleepers(t) THEN pc[g] = "asleep" /\ pc'[g] = "woken"
                                              ELSE pc'[g] = pc[g]
  BY DEF FireEvent, Sleepers
<1>4. pc' \in [Getters -> {"idle", "spin", "search", "check", "asleep", "woken", "has", "release"}]
  BY DEF FireEvent, Shape
<1>5. ar' \in [Trans -> R] /\ \A u \in Trans : /\ ar'[u].freed = ar[u].freed
                                               /\ ar'[u].interest = ar[u].interest
  <2> DEFINE b == [ar[t] EXCEPT !.fired = TRUE]
  <2>1. ar \in [Trans -> R] /\ ar[t] \in R
    BY DEF Shape
  <2>2. b \in R /\ b.freed = ar[t].freed /\ b.interest = ar[t].interest
    BY <2>1
  <2>3. ar' = [ar EXCEPT ![t] = b]
    BY DEF FireEvent
  <2> HIDE DEF b, R
  <2>4. ar' \in [Trans -> R] /\ ar'[t] = b /\ \A u \in Trans : u # t => ar'[u] = ar[u]
    BY <2>1, <2>2, <2>3
  <2> QED
    BY <2>2, <2>4
<1>6. Shape'
  BY <1>1, <1>2, <1>4, <1>5 DEF Shape
<1>7. ChainsExact' /\ LocksPlaced'
  BY <1>1 DEF ChainsExact, ChainExact, LocksPlaced
<1>8. ASSUME NEW u \in Trans PROVE MarkedUpTo(u)'
  BY <1>1, <1>2 DEF MarkedUpTo
<1>9. WaitersPlaced'
  BY <1>1, <1>2, <1>3 DEF WaitersPlaced
<1>10. RequestsPlaced'
  BY <1>1, <1>3 DEF RequestsPlaced
<1>11. InterestCounted'
  BY <1>1, <1>2, <1>5, CountUnchanged
<1>12. NoUseAfterFree'
  BY <1>1, <1>2, <1>5 DEF NoUseAfterFree, Owned
<1> QED
  BY <1>6, <1>7, <1>8, <1>9, <1>10, <1>11, <1>12

LEMMA ObjectUpdated ==
    ASSUME NEW a \in [interest : Int, fired : BOOLEAN, freed : BOOLEAN],
           NEW i \in Int, NEW v \in BOOLEAN
    PROVE  /\ [a EXCEPT !.interest = i, !.freed = v]
                  \in [interest : Int, fired : BOOLEAN, freed : BOOLEAN]
           /\ [a EXCEPT !.interest = i, !.freed = v].interest = i
           /\ [a EXCEPT !.interest = i, !.freed = v].freed = v
OBVIOUS

\* What giving up an interest does to an object.
LEMMA LessInterestProps ==
    ASSUME NEW a \in [interest : Int, fired : BOOLEAN, freed : BOOLEAN]
    PROVE  /\ LessInterest(a) \in [interest : Int, fired : BOOLEAN, freed : BOOLEAN]
           /\ LessInterest(a).interest = a.interest - 1
           /\ LessInterest(a).freed <=> a.freed \/ a.interest = 1
<1> DEFINE b == a.freed \/ a.interest = 1
<1>1. b \in BOOLEAN /\ a.interest - 1 \in Int
  OBVIOUS
<1>2. LessInterest(a) = [a EXCEPT !.interest = a.interest - 1, !.freed = b]
  BY DEF LessInterest
<1> HIDE DEF b
<1>3. /\ LessInterest(a) \in [interest : Int, fired : BOOLEAN, freed : BOOLEAN]
      /\ LessInterest(a).interest = a.interest - 1
      /\ LessInterest(a).freed = b
  BY <1>1, <1>2, ObjectUpdated, ZenonT(60)
<1> QED
  BY <1>3 DEF b

\* The transaction's own interest goes with its scope.
LEMMA FreeLockScopeKeeps ==
    ASSUME NEW t \in Trans, LockInv, FreeLockScope(t)
    PROVE  LockInv'
<1> USE DEF LockInv
<1> DEFINE R == [interest : Int, fired : BOOLEAN, freed : BOOLEAN]
<1>1. /\ UNCHANGED <<lock, seen, reqs, current, mark, latch, pc, want, waitOn>>
      /\ tpc[t] = "ended" /\ reqs[t] = << >> /\ ~current[t]
  BY DEF FreeLockScope, MarkedUpTo
<1>2. /\ tpc' \in [Trans -> {"active", "marking", "memory", "releasing", "fire", "ended", "gone"}]
      /\ tpc'[t] = "gone" /\ \A u \in Trans : u # t => tpc'[u] = tpc[u]
  BY DEF FreeLockScope, Shape
<1>3. ar \in [Trans -> R] /\ ar[t] \in R
  BY DEF Shape
<1>4. /\ ar' \in [Trans -> R] /\ ar'[t] = LessInterest(ar[t])
      /\ \A u \in Trans : u # t => ar'[u] = ar[u]
  BY <1>3, LessInterestProps DEF FreeLockScope
<1>5. Shape'
  BY <1>1, <1>2, <1>4 DEF Shape
<1>6. ChainsExact' /\ LocksPlaced' /\ RequestsPlaced'
  BY <1>1 DEF ChainsExact, ChainExact, LocksPlaced, RequestsPlaced
<1>7. ASSUME NEW u \in Trans PROVE MarkedUpTo(u)'
  BY <1>1, <1>2 DEF MarkedUpTo
<1>8. WaitersPlaced'
  BY <1>1, <1>2 DEF WaitersPlaced
<1>9. \A u : Waiters(u)' = Waiters(u)
  BY <1>1 DEF Waiters
<1>10. \A u \in Trans : ar[u].interest = Due(u)
  BY InterestIsDue
<1>11. /\ Cardinality(Waiters(t)) \in Nat /\ Due(t) = Cardinality(Waiters(t)) + 1
       /\ Due(t)' = Cardinality(Waiters(t))
  BY <1>1, <1>2, <1>9, WaitersCount DEF Due
<1>12. ar'[t].interest = Due(t)'
  BY <1>3, <1>4, <1>10, <1>11, LessInterestProps
<1>13. InterestCounted'
  <2>1. \A u \in Trans : ar'[u].interest = Due(u)'
    BY <1>1, <1>2, <1>4, <1>9, <1>10, <1>12 DEF Due
  <2> QED
    BY <2>1 DEF InterestCounted, Due, Waiters
<1>14. NoUseAfterFree'
  <2>1. ~ar[t].freed
    BY <1>1 DEF NoUseAfterFree
  <2>2. ar'[t].freed => Waiters(t) = {}
    BY <1>3, <1>4, <1>10, <1>11, <2>1, LessInterestProps, WaitersCount
  <2>3. ar'[t].freed => \A g \in Getters : waitOn'[g] # t
    BY <1>1, <2>2 DEF Waiters
  <2>4. Owned(t)' = {}
    BY <1>1, Reserved DEF Owned, ChainsExact, ChainExact
  <2>5. \A u \in Trans : u # t => Owned(u)' = Owned(u)
    BY <1>1 DEF Owned
  <2> QED
    BY <1>1, <1>2, <1>4, <2>3, <2>4, <2>5 DEF NoUseAfterFree
<1> QED
  BY <1>5, <1>6, <1>7, <1>8, <1>13, <1>14

\* Steps in which a getter only moves on.
LEMMA GetterMoves ==
    ASSUME LockInv, UNCHANGED <<lock, seen, reqs, current, ar, tpc, mark, waitOn>>,
           latch' \in Selectors \union {Nobody},
           pc' \in [Getters -> {"idle", "spin", "search", "check", "asleep", "woken",
                                "has", "release"}],
           want' \in [Getters -> Names \union {Nobody}],
           WaitersPlaced', RequestsPlaced'
    PROVE  LockInv'
<1> USE DEF LockInv
<1>1. Shape'
  BY DEF Shape
<1>2. ChainsExact' /\ LocksPlaced'
  BY DEF ChainsExact, ChainExact, LocksPlaced
<1>3. \A t \in Trans : MarkedUpTo(t)'
  BY DEF MarkedUpTo
<1>4. InterestCounted'
  BY CountUnchanged
<1>5. NoUseAfterFree'
  BY DEF NoUseAfterFree, Owned
<1> QED
  BY <1>1, <1>2, <1>3, <1>4, <1>5

LEMMA RequestLockKeeps ==
    ASSUME NEW g \in Getters, NEW n \in Names, LockInv, RequestLock(g, n)
    PROVE  LockInv'
<1> USE DEF LockInv
<1>1. /\ UNCHANGED <<lock, seen, reqs, current, ar, tpc, mark, latch, waitOn>>
      /\ pc[g] = "idle" /\ n \in seen
      /\ want' = [want EXCEPT ![g] = n]
      /\ pc' = [pc EXCEPT ![g] = IF g \in Selectors THEN "spin" ELSE "search"]
  BY DEF RequestLock
<1>2. WaitersPlaced'
  BY <1>1 DEF WaitersPlaced, Shape
<1>3. RequestsPlaced'
  BY <1>1 DEF RequestsPlaced, Shape
<1>4. latch \in Selectors \union {Nobody} /\ want' \in [Getters -> Names \union {Nobody}]
  BY <1>1 DEF Shape
<1>5. pc' \in [Getters -> {"idle", "spin", "search", "check", "asleep", "woken", "has", "release"}]
  BY <1>1 DEF Shape
<1> QED
  BY <1>1, <1>2, <1>3, <1>4, <1>5, GetterMoves

LEMMA LatchScopeKeeps ==
    ASSUME NEW g \in Getters, LockInv, LatchScope(g)
    PROVE  LockInv'
<1> USE DEF LockInv
<1>1. /\ UNCHANGED <<lock, seen, reqs, current, ar, tpc, mark, want, waitOn>>
      /\ pc[g] \in {"spin", "release"} /\ latch' = g /\ g \in Selectors
      /\ pc' = [pc EXCEPT ![g] = IF pc[g] = "spin" THEN "search" ELSE pc[g]]
  BY DEF LatchScope, RequestsPlaced
<1>2. WaitersPlaced'
  BY <1>1 DEF WaitersPlaced, Shape
<1>3. RequestsPlaced'
  BY <1>1 DEF RequestsPlaced, Shape
<1>4. latch' \in Selectors \union {Nobody} /\ want' \in [Getters -> Names \union {Nobody}]
  BY <1>1 DEF Shape
<1>5. pc' \in [Getters -> {"idle", "spin", "search", "check", "asleep", "woken", "has", "release"}]
  BY <1>1 DEF Shape
<1> QED
  BY <1>1, <1>2, <1>3, <1>4, <1>5, GetterMoves

LEMMA BouncedKeeps ==
    ASSUME NEW g \in Getters, LockInv, Bounced(g)
    PROVE  LockInv'
<1> USE DEF LockInv
<1>1. /\ UNCHANGED <<lock, seen, reqs, current, ar, tpc, mark, waitOn>>
      /\ pc[g] = "search" /\ (latch' = latch \/ latch' = Nobody)
      /\ pc' = [pc EXCEPT ![g] = "idle"] /\ want' = [want EXCEPT ![g] = Nobody]
  BY DEF Bounced
<1>2. WaitersPlaced'
  BY <1>1 DEF WaitersPlaced, Shape
<1>3. RequestsPlaced'
  BY <1>1 DEF RequestsPlaced, Shape
<1>4. latch' \in Selectors \union {Nobody} /\ want' \in [Getters -> Names \union {Nobody}]
  BY <1>1 DEF Shape
<1>5. pc' \in [Getters -> {"idle", "spin", "search", "check", "asleep", "woken", "has", "release"}]
  BY <1>1 DEF Shape
<1> QED
  BY <1>1, <1>2, <1>3, <1>4, <1>5, GetterMoves

LEMMA CheckEventKeeps ==
    ASSUME NEW g \in Getters, LockInv, CheckEvent(g)
    PROVE  LockInv'
<1> USE DEF LockInv
<1>1. /\ UNCHANGED <<lock, seen, reqs, current, ar, tpc, mark, latch, want, waitOn>>
      /\ pc[g] = "check"
      /\ pc' = [pc EXCEPT ![g] = IF ar[waitOn[g]].fired THEN "woken" ELSE "asleep"]
  BY DEF CheckEvent
<1>2. WaitersPlaced'
  BY <1>1 DEF WaitersPlaced, Shape
<1>3. RequestsPlaced'
  BY <1>1 DEF RequestsPlaced, Shape
<1>4. latch' \in Selectors \union {Nobody} /\ want' \in [Getters -> Names \union {Nobody}]
  BY <1>1 DEF Shape
<1>5. pc' \in [Getters -> {"idle", "spin", "search", "check", "asleep", "woken", "has", "release"}]
  BY <1>1 DEF Shape
<1> QED
  BY <1>1, <1>2, <1>3, <1>4, <1>5, GetterMoves

LEMMA StartReleaseKeeps ==
    ASSUME NEW g \in Getters, LockInv, StartRelease(g)
    PROVE  LockInv'
<1> USE DEF LockInv
<1>1. /\ UNCHANGED <<lock, seen, reqs, current, ar, tpc, mark, latch, want, waitOn>>
      /\ pc[g] = "has" /\ pc' = [pc EXCEPT ![g] = "release"]
  BY DEF StartRelease
<1>2. WaitersPlaced'
  BY <1>1 DEF WaitersPlaced, Shape
<1>3. RequestsPlaced'
  BY <1>1 DEF RequestsPlaced, Shape
<1>4. latch' \in Selectors \union {Nobody} /\ want' \in [Getters -> Names \union {Nobody}]
  BY <1>1 DEF Shape
<1>5. pc' \in [Getters -> {"idle", "spin", "search", "check", "asleep", "woken", "has", "release"}]
  BY <1>1 DEF Shape
<1> QED
  BY <1>1, <1>2, <1>3, <1>4, <1>5, GetterMoves

\* Who meets a marked lock registers with the transaction whose lock it is,
\* which cannot have been freed.
LEMMA RegisterInterestKeeps ==
    ASSUME NEW g \in Getters, LockInv, RegisterInterest(g)
    PROVE  LockInv'
<1> USE DEF LockInv
<1> DEFINE R == [interest : Int, fired : BOOLEAN, freed : BOOLEAN]
<1>A. pc[g] = "search" /\ lock[want[g]].releasing /\ want[g] \in Names
  BY DEF RegisterInterest, RequestsPlaced, Shape
<1>B. PICK t \in Trans : lock[want[g]].scope = t
  BY <1>A DEF LocksPlaced
<1>1. /\ UNCHANGED <<lock, seen, reqs, current, tpc, mark, latch, want>>
      /\ pc' = [pc EXCEPT ![g] = "check"] /\ waitOn' = [waitOn EXCEPT ![g] = t]
      /\ ar' = [ar EXCEPT ![t].interest = @ + 1]
  BY <1>B DEF RegisterInterest
<1>2. waitOn[g] = Nobody
  BY <1>A DEF WaitersPlaced
<1>3. tpc[t] # "active" /\ want[g] \in Owned(t)
  <2>1. PICK i \in 1..Len(reqs[t]) : reqs[t][i] = want[g]
    BY <1>A, <1>B, Reserved DEF ChainsExact, ChainExact
  <2>2. i <= mark[t] /\ i \in Nat /\ i >= 1
    BY <1>A, <2>1 DEF MarkedUpTo
  <2> QED
    BY <1>A, <1>B, <2>2 DEF MarkedUpTo, Owned
<1>4. ar \in [Trans -> R] /\ ar[t] \in R
  BY <1>2 DEF Shape
<1>5. /\ ar' \in [Trans -> R] /\ ar'[t].freed = ar[t].freed
      /\ \A u \in Trans : u # t => ar'[u] = ar[u]
      /\ ar'[t].interest = ar[t].interest + 1
  <2> DEFINE b == [ar[t] EXCEPT !.interest = ar[t].interest + 1]
  <2>1. b \in R /\ b.freed = ar[t].freed /\ b.interest = ar[t].interest + 1
    BY <1>4
  <2>2. ar' = [ar EXCEPT ![t] = b]
    BY <1>1
  <2> HIDE DEF b, R
  <2> QED
    BY <1>2, <1>4, <2>1, <2>2
<1>6. /\ waitOn'[g] = t /\ \A h \in Getters : h # g => waitOn'[h] = waitOn[h]
      /\ waitOn' \in [Getters -> Trans \union {Nobody}]
  BY <1>1, <1>2 DEF Shape
<1>7. Shape'
  BY <1>1, <1>5, <1>6 DEF Shape
<1>8. ChainsExact' /\ LocksPlaced' /\ \A u \in Trans : MarkedUpTo(u)'
  BY <1>1 DEF ChainsExact, ChainExact, LocksPlaced, MarkedUpTo
<1>9. WaitersPlaced'
  BY <1>A, <1>1, <1>2, <1>3, <1>6, Reserved DEF WaitersPlaced, Shape
<1>10. RequestsPlaced'
  BY <1>A, <1>1 DEF RequestsPlaced, Shape
<1>11. /\ Waiters(t)' = Waiters(t) \cup {g} /\ g \notin Waiters(t)
       /\ \A u \in Trans : u # t => Waiters(u)' = Waiters(u)
  BY <1>2, <1>6, Reserved DEF Waiters
<1>12. Cardinality(Waiters(t)') = Cardinality(Waiters(t)) + 1 /\ Cardinality(Waiters(t)) \in Nat
  BY <1>11, WaitersCount, FS_AddElement
<1>13. \A u \in Trans : ar[u].interest = Due(u)
  BY InterestIsDue
<1>14. InterestCounted'
  <2>1. ar'[t].interest = Due(t)'
    BY <1>1, <1>2, <1>5, <1>12, <1>13 DEF Due
  <2>2. \A u \in Trans : ar'[u].interest = Due(u)'
    BY <1>1, <1>5, <1>11, <1>13, <2>1, ZenonT(60) DEF Due
  <2> QED
    BY <2>2 DEF InterestCounted, Due, Waiters
<1>15. NoUseAfterFree'
  <2>1. ~ar[t].freed /\ ~ar'[t].freed
    BY <1>2, <1>3, <1>5 DEF NoUseAfterFree
  <2>2. \A u \in Trans : Owned(u)' = Owned(u)
    BY <1>1 DEF Owned
  <2> QED
    BY <1>1, <1>5, <1>6, <2>1, <2>2 DEF NoUseAfterFree
<1> QED
  BY <1>7, <1>8, <1>9, <1>10, <1>14, <1>15

\* The last of those it was counted for frees the object, and nobody before.
LEMMA DropInterestKeeps ==
    ASSUME NEW g \in Getters, LockInv, DropInterest(g)
    PROVE  LockInv'
<1> USE DEF LockInv
<1> DEFINE R == [interest : Int, fired : BOOLEAN, freed : BOOLEAN]
<1>1. pc[g] = "woken" /\ waitOn[g] \in Trans
  BY DEF DropInterest, WaitersPlaced, Shape
<1>2. PICK t \in Trans : waitOn[g] = t
  BY <1>1
<1>3. /\ UNCHANGED <<lock, seen, reqs, current, tpc, mark, latch, want>>
      /\ pc' = [pc EXCEPT ![g] = "search"] /\ waitOn' = [waitOn EXCEPT ![g] = Nobody]
      /\ ar' = [ar EXCEPT ![t] = LessInterest(ar[t])]
  BY <1>2 DEF DropInterest
<1>4. ar \in [Trans -> R] /\ ar[t] \in R
  BY DEF Shape
<1>5. /\ ar' \in [Trans -> R] /\ ar'[t] = LessInterest(ar[t])
      /\ \A u \in Trans : u # t => ar'[u] = ar[u]
  BY <1>3, <1>4, LessInterestProps
<1>6. /\ waitOn'[g] = Nobody /\ \A h \in Getters : h # g => waitOn'[h] = waitOn[h]
      /\ waitOn' \in [Getters -> Trans \union {Nobody}]
  BY <1>3 DEF Shape
<1>7. Shape'
  BY <1>3, <1>5, <1>6 DEF Shape
<1>8. ChainsExact' /\ LocksPlaced' /\ \A u \in Trans : MarkedUpTo(u)'
  BY <1>3 DEF ChainsExact, ChainExact, LocksPlaced, MarkedUpTo
<1>9. WaitersPlaced'
  BY <1>1, <1>3, <1>6, Reserved DEF WaitersPlaced, Shape
<1>10. RequestsPlaced'
  BY <1>1, <1>3 DEF RequestsPlaced, Shape
<1>11. /\ Waiters(t)' = Waiters(t) \ {g} /\ g \in Waiters(t)
       /\ \A u \in Trans : u # t => Waiters(u)' = Waiters(u)
  BY <1>2, <1>6, Reserved DEF Waiters
<1>12. Cardinality(Waiters(t)') = Cardinality(Waiters(t)) - 1 /\ Cardinality(Waiters(t)) \in Nat
  BY <1>11, WaitersCount, FS_RemoveElement
<1>13. \A u \in Trans : ar[u].interest = Due(u)
  BY InterestIsDue
<1>14. ar'[t].interest = ar[t].interest - 1
       /\ (ar'[t].freed <=> ar[t].freed \/ ar[t].interest = 1)
  BY <1>4, <1>5, LessInterestProps
<1>15. InterestCounted'
  <2>1. ar'[t].interest = Due(t)'
    BY <1>3, <1>12, <1>13, <1>14 DEF Due
  <2>2. \A u \in Trans : ar'[u].interest = Due(u)'
    BY <1>3, <1>5, <1>11, <1>13, <2>1 DEF Due
  <2> QED
    BY <2>2 DEF InterestCounted, Due, Waiters
<1>16. NoUseAfterFree'
  <2>1. ~ar[t].freed
    BY <1>2 DEF NoUseAfterFree
  <2>2. ASSUME ar'[t].freed
        PROVE  /\ \A h \in Getters : waitOn'[h] # t
               /\ tpc[t] = "gone" /\ Owned(t)' = {}
    <3>1. Due(t) = 1 /\ Cardinality(Waiters(t)) >= 1
      BY <1>11, <1>12, <1>13, <1>14, <2>1, <2>2, WaitersCount
    <3>2. tpc[t] = "gone" /\ Cardinality(Waiters(t)) = 1
      BY <1>12, <3>1 DEF Due
    <3>3. Waiters(t)' = {}
      <4>1. IsFiniteSet(Waiters(t)')
        BY <1>11, WaitersCount, FS_RemoveElement
      <4> QED
        BY <1>12, <3>2, <4>1, FS_EmptySet
    <3>4. \A h \in Getters : waitOn'[h] # t
      BY <3>3 DEF Waiters
    <3>5. Owned(t)' = {}
      <4>1. reqs[t] = << >>
        BY <3>2 DEF MarkedUpTo
      <4> QED
        BY <1>3, <4>1, Reserved DEF Owned, ChainsExact, ChainExact
    <3> QED
      BY <3>2, <3>4, <3>5
  <2>3. \A u \in Trans : u # t => Owned(u)' = Owned(u)
    BY <1>3 DEF Owned
  <2>4. \A u \in Trans : \A h \in Getters : u # t /\ waitOn'[h] = u => waitOn[h] = u
    BY <1>6, Reserved
  <2> QED
    BY <1>3, <1>5, <2>2, <2>3, <2>4 DEF NoUseAfterFree
<1> QED
  BY <1>7, <1>8, <1>9, <1>10, <1>15, <1>16

\* A selector's block joins its chain and the selection scope; an instant
\* getter only goes on.
LEMMA GrantedKeeps ==
    ASSUME NEW g \in Getters, LockInv, Granted(g)
    PROVE  LockInv'
<1> USE DEF LockInv
<1>1. /\ UNCHANGED <<seen, current, ar, tpc, mark, waitOn>>
      /\ pc[g] = "search" /\ want[g] \in Names /\ want[g] \in seen
      /\ lock[want[g]] = Free
  BY DEF Granted, RequestsPlaced, Shape
<1>2. CASE g \notin Selectors
  <2>1. /\ UNCHANGED <<lock, reqs, latch>>
        /\ pc' = [pc EXCEPT ![g] = "idle"] /\ want' = [want EXCEPT ![g] = Nobody]
    BY <1>2 DEF Granted
  <2>2. WaitersPlaced'
    BY <1>1, <2>1 DEF WaitersPlaced, Shape
  <2>3. RequestsPlaced'
    BY <1>1, <2>1 DEF RequestsPlaced, Shape
  <2>4. latch' \in Selectors \union {Nobody} /\ want' \in [Getters -> Names \union {Nobody}]
    BY <2>1 DEF Shape
  <2>5. pc' \in [Getters -> {"idle", "spin", "search", "check", "asleep", "woken", "has", "release"}]
    BY <2>1 DEF Shape
  <2> QED
    BY <1>1, <2>1, <2>2, <2>3, <2>4, <2>5, GetterMoves
<1>3. CASE g \in Selectors
  <2>1. PICK n \in Names : n = want[g]
    BY <1>1
  <2>2. /\ lock' = [lock EXCEPT ![n] = [scope |-> Selection, releasing |-> FALSE]]
        /\ reqs' = [reqs EXCEPT ![Selection] = Append(reqs[Selection], n)]
        /\ pc' = [pc EXCEPT ![g] = "has"] /\ latch' = Nobody /\ want' = want
    BY <1>3, <2>1 DEF Granted
  <2>3. lock[n].scope = Nobody /\ n \in seen
    BY <1>1, <2>1 DEF Free
  <2>4. /\ lock'[n].scope = Selection /\ lock'[n].releasing = FALSE
        /\ \A m \in Names : m # n => lock'[m] = lock[m]
        /\ lock' \in [Names -> [scope : Scopes \union {Nobody}, releasing : BOOLEAN]]
    BY <2>2, Reserved DEF Shape
  <2>5. /\ \A s \in Scopes : s # Selection => reqs'[s] = reqs[s]
        /\ reqs[Selection] \in Seq(Names) /\ reqs'[Selection] = Append(reqs[Selection], n)
        /\ reqs' \in [Scopes -> Seq(Names)]
    BY <2>2, Reserved DEF Shape
  <2> DEFINE k == Len(reqs[Selection])
  <2>6. /\ k \in Nat /\ Len(reqs'[Selection]) = k + 1 /\ reqs'[Selection][k + 1] = n
        /\ \A i \in 1..k : reqs'[Selection][i] = reqs[Selection][i]
    BY <2>5
  <2>7. \A i \in 1..k : /\ reqs[Selection][i] \in Names /\ reqs[Selection][i] # n
                        /\ lock[reqs[Selection][i]].scope = Selection
    BY <2>3, <2>5, Reserved DEF ChainsExact, ChainExact
  <2>8. Shape'
    BY <1>1, <2>2, <2>4, <2>5 DEF Shape
  <2>9. ChainsExact'
    <3>1. ASSUME NEW s \in Scopes, s # Selection PROVE ChainExact(s)'
      <4>1. \A m \in Names : lock'[m].scope = s <=> lock[m].scope = s
        BY <2>3, <2>4, <3>1, Reserved
      <4> QED
        BY <2>5, <3>1, <4>1, ChainKept DEF ChainsExact
    <3>2. \A i \in 1..(k + 1) : lock'[reqs'[Selection][i]].scope = Selection
      BY <2>4, <2>6, <2>7
    <3>3. \A i, j \in 1..(k + 1) : reqs'[Selection][i] = reqs'[Selection][j] => i = j
      <4>1. \A i, j \in 1..k : reqs[Selection][i] = reqs[Selection][j] => i = j
        BY Reserved DEF ChainsExact, ChainExact
      <4>2. \A i \in 1..(k + 1) : IF i = k + 1 THEN reqs'[Selection][i] = n
                                  ELSE i \in 1..k /\ reqs'[Selection][i] = reqs[Selection][i]
        BY <2>6
      <4> HIDE DEF k
      <4> QED
        BY <2>6, <2>7, <4>1, <4>2
    <3>4. \A m \in Names : lock'[m].scope = Selection =>
              \E i \in 1..(k + 1) : reqs'[Selection][i] = m
      BY <2>4, <2>6, <2>7, Reserved, SMTT(60) DEF ChainsExact, ChainExact
    <3>5. ChainExact(Selection)'
      <4>1. Len(reqs'[Selection]) = k + 1
        BY <2>6
      <4> HIDE DEF k
      <4> QED
        BY <3>2, <3>3, <3>4, <4>1 DEF ChainExact
    <3> QED
      BY <3>1, <3>5 DEF ChainsExact
  <2>10. LocksPlaced'
    BY <1>1, <2>3, <2>4 DEF LocksPlaced
  <2>11. ASSUME NEW u \in Trans PROVE MarkedUpTo(u)'
    <3>1. \A m \in Names : lock[m].scope = u => lock'[m] = lock[m]
      BY <2>3, <2>4, Reserved
    <3> QED
      BY <1>1, <2>5, <3>1, MarksKept, Reserved DEF ChainsExact
  <2>12. WaitersPlaced'
    BY <1>1, <2>2 DEF WaitersPlaced, Shape
  <2>13. RequestsPlaced'
    <3>1. \A h \in Getters : pc[h] \in {"has", "release"} => want[h] # n /\ want[h] \in Names
      BY <2>3, Reserved DEF RequestsPlaced, Shape
    <3>2. \A h \in Getters : h # g => pc'[h] = pc[h]
      BY <2>2 DEF Shape
    <3>3. pc'[g] = "has" /\ want[g] = n
      BY <2>1, <2>2 DEF Shape
    <3> QED
      BY <1>1, <1>3, <2>2, <2>3, <2>4, <3>1, <3>2, <3>3 DEF RequestsPlaced
  <2>14. InterestCounted'
    BY <1>1, CountUnchanged
  <2>15. NoUseAfterFree'
    <3>1. \A u \in Trans : Owned(u)' = Owned(u)
      BY <2>3, <2>4, Reserved DEF Owned
    <3> QED
      BY <1>1, <3>1 DEF NoUseAfterFree
  <2> QED
    BY <2>8, <2>9, <2>10, <2>11, <2>12, <2>13, <2>14, <2>15
<1> QED
  BY <1>2, <1>3

\* A selector unlinks its own block, which no one else has.
LEMMA ReleaseLockKeeps ==
    ASSUME NEW g \in Getters, LockInv, ReleaseLock(g)
    PROVE  LockInv'
<1> USE DEF LockInv
<1>1. /\ UNCHANGED <<seen, current, ar, tpc, mark, waitOn>>
      /\ pc[g] = "release" /\ want[g] \in Names /\ lock[want[g]].scope = Selection
  BY DEF ReleaseLock, RequestsPlaced, Shape
<1>2. PICK n \in Names : n = want[g]
  BY <1>1
<1>3. PICK q \in Seq(Names) : q = reqs[Selection]
  BY Reserved DEF Shape
<1>4. \E i \in 1..Len(q) : q[i] = n
  BY <1>1, <1>2, <1>3, Reserved DEF ChainsExact, ChainExact
<1>5. PICK k \in 1..Len(q) : k = Position(q, n) /\ q[k] = n
  <2>1. DOMAIN q = 1..Len(q)
    OBVIOUS
  <2> QED
    BY <1>4, <2>1 DEF Position
<1>6. /\ lock' = [lock EXCEPT ![n] = Free] /\ reqs' = [reqs EXCEPT ![Selection] = RemoveAt(q, k)]
      /\ latch' = Nobody /\ pc' = [pc EXCEPT ![g] = "idle"]
      /\ want' = [want EXCEPT ![g] = Nobody]
  BY <1>2, <1>3, <1>5 DEF ReleaseLock
<1> DEFINE back(i) == IF i < k THEN i ELSE i + 1
<1>7. PICK r \in Seq(Names) :
          /\ r = RemoveAt(q, k) /\ Len(r) = Len(q) - 1
          /\ \A i \in 1..(Len(q) - 1) : r[i] = IF i < k THEN q[i] ELSE q[i + 1]
  <2>1. /\ RemoveAt(q, k) \in Seq(Names) /\ Len(RemoveAt(q, k)) = Len(q) - 1
        /\ \A i \in 1..(Len(q) - 1) : RemoveAt(q, k)[i] = IF i < k THEN q[i] ELSE q[i + 1]
    BY Unlinked
  <2> QED
    BY <2>1
<1>8. /\ Len(q) \in Nat /\ Len(r) = Len(q) - 1
      /\ \A i \in 1..Len(r) : back(i) \in 1..Len(q) /\ back(i) # k /\ r[i] = q[back(i)]
  BY <1>7
<1>9. /\ lock'[n].scope = Nobody /\ lock'[n].releasing = FALSE
      /\ \A m \in Names : m # n => lock'[m] = lock[m]
      /\ lock' \in [Names -> [scope : Scopes \union {Nobody}, releasing : BOOLEAN]]
  BY <1>6 DEF Shape, Free
<1>10. /\ \A s \in Scopes : s # Selection => reqs'[s] = reqs[s]
       /\ reqs'[Selection] = r /\ reqs' \in [Scopes -> Seq(Names)]
  BY <1>6, <1>7, Reserved DEF Shape
<1>11. Shape'
  BY <1>1, <1>6, <1>9, <1>10 DEF Shape
<1>12. ChainsExact'
  <2>1. ASSUME NEW s \in Scopes, s # Selection PROVE ChainExact(s)'
    <3>1. \A m \in Names : lock'[m].scope = s <=> lock[m].scope = s
      BY <1>1, <1>2, <1>9, <2>1, Reserved
    <3> QED
      BY <1>10, <2>1, <3>1, ChainKept DEF ChainsExact
  <2>2. /\ \A i \in 1..Len(q) : q[i] \in Names /\ lock[q[i]].scope = Selection
        /\ \A i, j \in 1..Len(q) : q[i] = q[j] => i = j
        /\ \A m \in Names : lock[m].scope = Selection => \E i \in 1..Len(q) : q[i] = m
    BY <1>3, Reserved DEF ChainsExact, ChainExact
  <2>4. \A i \in 1..Len(r) : r[i] # n /\ r[i] \in Names /\ lock[r[i]].scope = Selection
    <3> HIDE DEF back
    <3> QED
      BY <1>5, <1>8, <2>2
  <2>5. \A i \in 1..Len(r) : lock'[r[i]].scope = Selection
    BY <1>9, <2>4
  <2>6. ASSUME NEW i \in 1..Len(r), NEW j \in 1..Len(r), r[i] = r[j] PROVE i = j
    <3>1. back(i) = back(j)
      <4> HIDE DEF back
      <4>1. back(i) \in 1..Len(q) /\ back(j) \in 1..Len(q)
        BY <1>8
      <4>2. q[back(i)] = q[back(j)]
        BY <1>8, <2>6
      <4> QED
        BY <2>2, <4>1, <4>2
    <3> QED
      BY <1>8, <3>1
  <2>7. ASSUME NEW m \in Names, lock'[m].scope = Selection PROVE \E i \in 1..Len(r) : r[i] = m
    <3>1. m # n /\ lock[m].scope = Selection
      BY <1>9, <2>7, Reserved
    <3>2. PICK i \in 1..Len(q) : q[i] = m
      BY <2>2, <3>1
    <3>3. i # k
      BY <1>5, <3>1, <3>2
    <3>4. CASE i < k
      BY <1>7, <3>2, <3>4
    <3>5. CASE i > k
      <4>1. i - 1 \in 1..Len(r) /\ ~(i - 1 < k) /\ (i - 1) + 1 = i
        BY <1>7, <3>5
      <4>2. r[i - 1] = m
        BY <1>7, <3>2, <4>1
      <4> QED
        BY <4>1, <4>2
    <3> QED
      BY <3>3, <3>4, <3>5
  <2>8. ChainExact(Selection)'
    BY <1>10, <2>5, <2>6, <2>7 DEF ChainExact
  <2> QED
    BY <2>1, <2>8 DEF ChainsExact
<1>13. LocksPlaced'
  BY <1>1, <1>9 DEF LocksPlaced
<1>14. ASSUME NEW u \in Trans PROVE MarkedUpTo(u)'
  <2>1. \A m \in Names : lock[m].scope = u => lock'[m] = lock[m]
    BY <1>1, <1>2, <1>9, Reserved
  <2> QED
    BY <1>1, <1>10, <2>1, MarksKept, Reserved DEF ChainsExact
<1>15. WaitersPlaced'
  BY <1>1, <1>6 DEF WaitersPlaced, Shape
<1>16. RequestsPlaced'
  <2>1. /\ pc'[g] = "idle"
        /\ \A h \in Getters : h # g => pc'[h] = pc[h] /\ want'[h] = want[h]
    BY <1>6 DEF Shape
  <2>2. \A h \in Getters : h # g /\ pc[h] \in {"has", "release"} => want[h] # n /\ want[h] \in Names
    BY <1>1, <1>2 DEF RequestsPlaced, Shape
  <2>3. \A h \in Getters : h # g => /\ pc'[h] # "idle" => want'[h] \in seen'
                                    /\ pc'[h] \in {"spin", "has", "release"} => h \in Selectors
    BY <1>1, <2>1 DEF RequestsPlaced
  <2>4. \A h \in Getters : h # g /\ pc'[h] \in {"has", "release"} =>
            lock'[want'[h]].scope = Selection
    BY <1>9, <2>1, <2>2 DEF RequestsPlaced
  <2>5. \A h, f \in Getters :
            pc'[h] \in {"has", "release"} /\ pc'[f] \in {"has", "release"} /\ want'[h] = want'[f]
                => h = f
    BY <2>1 DEF RequestsPlaced
  <2> QED
    BY <2>1, <2>3, <2>4, <2>5 DEF RequestsPlaced
<1>17. InterestCounted'
  BY <1>1, CountUnchanged
<1>18. NoUseAfterFree'
  <2>1. \A u \in Trans : Owned(u)' \subseteq Owned(u)
    BY <1>9, Reserved DEF Owned
  <2> QED
    BY <1>1, <2>1 DEF NoUseAfterFree
<1> QED
  BY <1>11, <1>12, <1>13, <1>14, <1>15, <1>16, <1>17, <1>18

LEMMA LockStep == LockInv /\ [Next]_vars => LockInv'
<1> SUFFICES ASSUME LockInv, [Next]_vars PROVE LockInv'
  OBVIOUS
<1>1. ASSUME NEW n \in Names, PutUnlocked(n) PROVE LockInv'
  BY <1>1, PutUnlockedKeeps
<1>2. ASSUME NEW t \in Trans, TranStep(t) PROVE LockInv'
  BY <1>2, TakeLockKeeps, WalkStartsKeeps, MarkReleasingKeeps, UnlinkKeeps, AllUnlinkedKeeps,
     FireEventKeeps, FreeLockScopeKeeps DEF TranStep, TranReleases
<1>3. ASSUME NEW g \in Getters, GetterStep(g) PROVE LockInv'
  BY <1>3, RequestLockKeeps, LatchScopeKeeps, GrantedKeeps, BouncedKeeps, RegisterInterestKeeps,
     CheckEventKeeps, DropInterestKeeps, StartReleaseKeeps, ReleaseLockKeeps
  DEF GetterStep, InRequest
<1>4. CASE UNCHANGED vars
  <2>1. UNCHANGED <<lock, seen, reqs, current, ar, tpc, mark, latch, pc, want, waitOn>>
    BY <1>4 DEF vars
  <2>2. WaitersPlaced' /\ RequestsPlaced'
    BY <2>1 DEF LockInv, WaitersPlaced, RequestsPlaced
  <2>3. /\ latch' \in Selectors \union {Nobody} /\ want' \in [Getters -> Names \union {Nobody}]
        /\ pc' \in [Getters -> {"idle", "spin", "search", "check", "asleep", "woken",
                                "has", "release"}]
    BY <2>1 DEF LockInv, Shape
  <2> QED
    BY <2>1, <2>2, <2>3, GetterMoves
<1> QED
  BY <1>1, <1>2, <1>3, <1>4 DEF Next

LEMMA LockInvariant == Spec => []LockInv
BY LockInit, LockStep, PTL DEF Spec

-----------------------------------------------------------------------------
(* What the lock manager promises.                                          *)

\* ielm_releaseAllLocksBegin and Complete: once a transaction has begun to
\* unlink its locks, no request meets one of them unmarked and is refused.
THEOREM LocksReleasedTogether == Spec => []ReleasedTogether
<1>1. LockInv => ReleasedTogether
  <2> SUFFICES ASSUME LockInv, NEW t \in Trans,
                      tpc[t] \in {"releasing", "fire", "ended", "gone"}, NEW n \in Owned(t)
               PROVE  lock[n].releasing
    BY DEF ReleasedTogether
  <2>1. n \in Names /\ lock[n].scope = t
    BY DEF Owned
  <2>2. PICK i \in 1..Len(reqs[t]) : reqs[t][i] = n
    BY <2>1, Reserved DEF LockInv, ChainsExact, ChainExact
  <2>3. mark[t] \in Nat /\ Len(reqs[t]) \in Nat /\ reqs[t] # << >>
    BY <2>2, Reserved, NamesFinite DEF LockInv, Shape
  <2> QED
    BY <2>2, <2>3 DEF LockInv, MarkedUpTo
<1> QED
  BY <1>1, LockInvariant, PTL

\* _local_releaseAllCompleteInternal, ielm_releaseLock: a lock on a hash chain
\* is listed by the scope it names, and a scope lists nothing else.
THEOREM ScopesMatchChains == Spec => []ChainsMatchScopes
<1>1. LockInv => ChainsMatchScopes
  <2> SUFFICES ASSUME LockInv, NEW s \in Scopes
               PROVE  {n \in Names : lock[n].scope = s} = {reqs[s][i] : i \in DOMAIN reqs[s]}
    BY DEF ChainsMatchScopes, Scopes
  <2>1. /\ DOMAIN reqs[s] = 1..Len(reqs[s])
        /\ \A i \in 1..Len(reqs[s]) : reqs[s][i] \in Names
    BY DEF LockInv, Shape
  <2> QED
    BY <2>1 DEF LockInv, ChainsExact, ChainExact
<1> QED
  BY <1>1, LockInvariant, PTL

\* ielm_reduceAtomicReleaseInterestCount: an atomic release object is counted
\* for exactly those who use it, so it is freed by the last of them: never
\* under a thread that sleeps on its event, before the event is fired, or while
\* a marked lock still leads to it.
THEOREM ReleaseObjectLives == Spec => []ReleaseObjectSafe
<1>1. LockInv => ReleaseObjectSafe
  <2> SUFFICES ASSUME LockInv PROVE TypeOK
    BY DEF LockInv, ReleaseObjectSafe
  <2>1. \A t \in Trans : ar[t] \in AtomicRelease
    <3> SUFFICES ASSUME NEW t \in Trans PROVE ar[t] \in AtomicRelease
      OBVIOUS
    <3>1. ar[t] \in [interest : Int, fired : BOOLEAN, freed : BOOLEAN]
      BY DEF LockInv, Shape
    <3>2. ar[t].interest = Due(t)
      BY InterestIsDue DEF LockInv
    <3>3. /\ Cardinality(Waiters(t)) \in Nat /\ Cardinality(Waiters(t)) <= Cardinality(Getters)
          /\ Cardinality(Getters) \in Nat
      BY WaitersCount, GettersFinite
    <3>4. ar[t].interest \in 0 .. (2 + Cardinality(Getters))
      BY <3>2, <3>3 DEF Due
    <3> QED
      BY <3>1, <3>4 DEF AtomicRelease
  <2>2. ar \in [Trans -> AtomicRelease]
    BY <2>1 DEF LockInv, Shape
  <2> QED
    BY <2>2 DEF LockInv, Shape, TypeOK, Scopes
<1> QED
  BY <1>1, LockInvariant, PTL
=============================================================================

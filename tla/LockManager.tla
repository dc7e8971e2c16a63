---------------------------- MODULE LockManager ----------------------------
(***************************************************************************)
(* The lock manager (server_engine/src/lockManager.c).  A transaction owns *)
(* a commit-capable lock scope; it takes commit-duration locks on messages *)
(* nobody else can see yet and releases all of them together: Begin marks  *)
(* each lock as being released, Complete unlinks them one by one and then  *)
(* fires an event.  Anyone who meets a marked lock registers its interest  *)
(* in the transaction's "atomic release" object and sleeps on that event   *)
(* instead of being bounced.                                               *)
(*                                                                         *)
(* Requesters are of two kinds.  Selectors lock a message for the length   *)
(* of a request, through one scope they share (Q->selectionLockScope) and  *)
(* whose latch they keep while they sleep; instant getters run a callback  *)
(* under the hash chain's latch and own nothing.                           *)
(*                                                                         *)
(* What is done under one hash-chain latch is one step, and so is what a   *)
(* transaction does under the latch of its own scope, which no other       *)
(* thread takes.  A lock request block is known by its lock's name.        *)
(***************************************************************************)
EXTENDS Naturals, Sequences, FiniteSets, SequencesExt

CONSTANTS
    Names,      \* the messages that can be locked
    Trans,      \* the transactions, each with its own lock scope
    Selectors,  \* threads that lock through the shared selection scope
    Instant     \* threads that take instant locks

ASSUME LockSets ==
    /\ IsFiniteSet(Names) /\ IsFiniteSet(Trans)
    /\ IsFiniteSet(Selectors) /\ IsFiniteSet(Instant)
    /\ Trans \cap Selectors = {} /\ Trans \cap Instant = {} /\ Selectors \cap Instant = {}

Getters == Selectors \union Instant

Selection == "selection"
Nobody == "nobody"

ASSUME ReservedNames == {Selection, Nobody} \cap (Names \union Trans \union Getters) = {}

VARIABLES
    lock,    \* lock[n]: the request block on n's hash chain: its scope and its mark
    seen,    \* messages that have been put, so that others may look for them
    reqs,    \* reqs[s]: the request blocks chained to scope s, oldest first
    current, \* current[t]: t holds commit-duration locks (pCurrentAtomicRelease)
    ar,      \* ar[t]: t's atomic release object
    tpc,     \* tpc[t]: where transaction t is
    mark,    \* mark[t]: how many of t's blocks Begin has passed
    latch,   \* who holds the latch of the selection scope
    pc,      \* pc[g]: where getter g is
    want,    \* want[g]: the message g is asking for
    waitOn   \* waitOn[g]: the atomic release object g has registered with

vars == <<lock, seen, reqs, current, ar, tpc, mark, latch, pc, want, waitOn>>

Free == [scope |-> Nobody, releasing |-> FALSE]

AtomicRelease == [interest : 0 .. (2 + Cardinality(Getters)), fired : BOOLEAN, freed : BOOLEAN]

(***************************************************************************)
(* Type correctness.                                                       *)
(***************************************************************************)
TypeOK ==
    /\ lock \in [Names -> [scope : Trans \union {Selection, Nobody}, releasing : BOOLEAN]]
    /\ seen \in SUBSET Names
    /\ reqs \in [Trans \union {Selection} -> Seq(Names)]
    /\ current \in [Trans -> BOOLEAN]
    /\ ar \in [Trans -> AtomicRelease]
    /\ tpc \in [Trans -> {"active", "marking", "memory", "releasing", "fire", "ended", "gone"}]
    /\ mark \in [Trans -> 0 .. Cardinality(Names)]
    /\ latch \in Selectors \union {Nobody}
    /\ pc \in [Getters -> {"idle", "spin", "search", "check", "asleep", "woken", "has", "release"}]
    /\ want \in [Getters -> Names \union {Nobody}]
    /\ waitOn \in [Getters -> Trans \union {Nobody}]

(* Scopes are allocated with the atomic release object already in place,   *)
(* its one interest meaning "not destroyed yet".                           *)
Init ==
    /\ lock = [n \in Names |-> Free]
    /\ seen = {}
    /\ reqs = [s \in Trans \union {Selection} |-> << >>]
    /\ current = [t \in Trans |-> FALSE]
    /\ ar = [t \in Trans |-> [interest |-> 1, fired |-> FALSE, freed |-> FALSE]]
    /\ tpc = [t \in Trans |-> "active"]
    /\ mark = [t \in Trans |-> 0]
    /\ latch = Nobody
    /\ pc = [g \in Getters |-> "idle"]
    /\ want = [g \in Getters |-> Nobody]
    /\ waitOn = [g \in Getters |-> Nobody]

----------------------------------------------------------------------------
(* Interest in an atomic release object.                                   *)

(* Mutant: the object is freed at the last interest but one.               *)
LessInterestFreesEarly(a) ==
    [a EXCEPT !.interest = @ - 1, !.freed = @ \/ a.interest <= 2]

(* An interest less; the last one to go frees the object.                  *)
LessInterest(a) ==
    [a EXCEPT !.interest = @ - 1, !.freed = @ \/ a.interest = 1]

(* The first commit-duration lock of a scope sets the count: one for "not  *)
(* destroyed", one for the locks.                                          *)
FirstCommitLock(t) ==
    IF current[t] THEN ar[t] ELSE [ar[t] EXCEPT !.interest = 2]

----------------------------------------------------------------------------
(* Transactions                                                            *)

(* ielm_takeLock: the message is not on the queue yet, so the chain is not *)
(* searched.                                                               *)
TakeLock(t, n) ==
    /\ tpc[t] = "active"
    /\ n \notin seen
    /\ lock' = [lock EXCEPT ![n] = [scope |-> t, releasing |-> FALSE]]
    /\ reqs' = [reqs EXCEPT ![t] = Append(@, n)]
    /\ ar' = [ar EXCEPT ![t] = FirstCommitLock(t)]
    /\ current' = [current EXCEPT ![t] = TRUE]
    /\ seen' = seen \union {n}
    /\ UNCHANGED <<tpc, mark, latch, pc, want, waitOn>>

(* A put outside any transaction: no lock.                                 *)
PutUnlocked(n) ==
    /\ n \notin seen
    /\ seen' = seen \union {n}
    /\ UNCHANGED <<lock, reqs, current, ar, tpc, mark, latch, pc, want, waitOn>>

(* ielm_releaseAllLocksBegin, called when the transaction is committed or  *)
(* rolled back; the scope's commit-duration blocks are marked in turn.     *)
ReleaseAllBegin(t) ==
    /\ tpc[t] = "active"
    /\ tpc' = [tpc EXCEPT ![t] = IF current[t] THEN "marking" ELSE "memory"]
    /\ UNCHANGED <<lock, seen, reqs, current, ar, mark, latch, pc, want, waitOn>>

(* Mutant: the walk stops one block early.                                 *)
MarkAllButLast(t) ==
    /\ tpc[t] = "marking"
    /\ mark' = [mark EXCEPT ![t] = @ + 1]
    /\ lock' = [lock EXCEPT ![reqs[t][mark'[t]]].releasing = mark'[t] < Len(reqs[t])]
    /\ tpc' = [tpc EXCEPT ![t] = IF mark'[t] = Len(reqs[t]) THEN "memory" ELSE @]
    /\ UNCHANGED <<seen, reqs, current, ar, latch, pc, want, waitOn>>

MarkReleasing(t) ==
    /\ tpc[t] = "marking"
    /\ mark' = [mark EXCEPT ![t] = @ + 1]
    /\ lock' = [lock EXCEPT ![reqs[t][mark'[t]]].releasing = TRUE]
    /\ tpc' = [tpc EXCEPT ![t] = IF mark'[t] = Len(reqs[t]) THEN "memory" ELSE @]
    /\ UNCHANGED <<seen, reqs, current, ar, latch, pc, want, waitOn>>

(* The memory phase of the soft log runs between Begin and Complete; then  *)
(* Complete unlinks the blocks, newest first.                              *)
ReleaseAllComplete(t) ==
    /\ tpc[t] = "memory"
    /\ tpc' = [tpc EXCEPT ![t] = "releasing"]
    /\ UNCHANGED <<lock, seen, reqs, current, ar, mark, latch, pc, want, waitOn>>

(* Mutant: only the newest block is unlinked.                              *)
UnlinkLastOnly(t) ==
    /\ tpc[t] = "releasing"
    /\ reqs[t] # << >>
    /\ lock' = [lock EXCEPT ![reqs[t][Len(reqs[t])]] = Free]
    /\ reqs' = [reqs EXCEPT ![t] = << >>]
    /\ UNCHANGED <<seen, current, ar, tpc, mark, latch, pc, want, waitOn>>

Unlink(t) ==
    /\ tpc[t] = "releasing"
    /\ reqs[t] # << >>
    /\ lock' = [lock EXCEPT ![reqs[t][Len(reqs[t])]] = Free]
    /\ reqs' = [reqs EXCEPT ![t] = SubSeq(@, 1, Len(@) - 1)]
    /\ UNCHANGED <<seen, current, ar, tpc, mark, latch, pc, want, waitOn>>

(* With every block gone the locks' own interest is dropped; if any other  *)
(* is left, and the one for "not destroyed" always is, the event is fired. *)
AllUnlinked(t) ==
    /\ tpc[t] = "releasing"
    /\ reqs[t] = << >>
    /\ current' = [current EXCEPT ![t] = FALSE]
    /\ ar' = IF current[t] THEN [ar EXCEPT ![t].interest = @ - 1] ELSE ar
    /\ tpc' = [tpc EXCEPT ![t] =
                 IF current[t] /\ ar'[t].interest > 0 THEN "fire" ELSE "ended"]
    /\ UNCHANGED <<lock, seen, reqs, mark, latch, pc, want, waitOn>>

Sleepers(t) == {g \in Getters : pc[g] = "asleep" /\ waitOn[g] = t}

(* Mutant: one sleeper is signalled instead of all.                        *)
SignalOne(t) ==
    /\ tpc[t] = "fire"
    /\ ar' = [ar EXCEPT ![t].fired = TRUE]
    /\ pc' = IF Sleepers(t) = {} THEN pc
             ELSE [pc EXCEPT ![CHOOSE g \in Sleepers(t) : TRUE] = "woken"]
    /\ tpc' = [tpc EXCEPT ![t] = "ended"]
    /\ UNCHANGED <<lock, seen, reqs, current, mark, latch, want, waitOn>>

FireEvent(t) ==
    /\ tpc[t] = "fire"
    /\ ar' = [ar EXCEPT ![t].fired = TRUE]
    /\ pc' = [g \in Getters |-> IF g \in Sleepers(t) THEN "woken" ELSE pc[g]]
    /\ tpc' = [tpc EXCEPT ![t] = "ended"]
    /\ UNCHANGED <<lock, seen, reqs, current, mark, latch, want, waitOn>>

(* ielm_freeLockScope, when the transaction itself is freed.               *)
FreeLockScope(t) ==
    /\ tpc[t] = "ended"
    /\ ar' = [ar EXCEPT ![t] = LessInterest(@)]
    /\ tpc' = [tpc EXCEPT ![t] = "gone"]
    /\ UNCHANGED <<lock, seen, reqs, current, mark, latch, pc, want, waitOn>>

----------------------------------------------------------------------------
(* Getters                                                                 *)

(* Selectors first spin on the latch of their scope.                       *)
RequestLock(g, n) ==
    /\ pc[g] = "idle"
    /\ n \in seen
    /\ want' = [want EXCEPT ![g] = n]
    /\ pc' = [pc EXCEPT ![g] = IF g \in Selectors THEN "spin" ELSE "search"]
    /\ UNCHANGED <<lock, seen, reqs, current, ar, tpc, mark, latch, waitOn>>

LatchScope(g) ==
    /\ pc[g] \in {"spin", "release"}
    /\ latch = Nobody
    /\ latch' = g
    /\ pc' = [pc EXCEPT ![g] = IF @ = "spin" THEN "search" ELSE @]
    /\ UNCHANGED <<lock, seen, reqs, current, ar, tpc, mark, want, waitOn>>

(* Not on the chain: a selector's block is chained to the hash chain and   *)
(* to the scope; an instant getter runs its callback and is done.          *)
Granted(g) ==
    /\ pc[g] = "search"
    /\ lock[want[g]] = Free
    /\ IF g \in Selectors
       THEN /\ lock' = [lock EXCEPT ![want[g]] = [scope |-> Selection, releasing |-> FALSE]]
            /\ reqs' = [reqs EXCEPT ![Selection] = Append(@, want[g])]
            /\ pc' = [pc EXCEPT ![g] = "has"]
            /\ latch' = Nobody
            /\ UNCHANGED want
       ELSE /\ pc' = [pc EXCEPT ![g] = "idle"]
            /\ want' = [want EXCEPT ![g] = Nobody]
            /\ UNCHANGED <<lock, reqs, latch>>
    /\ UNCHANGED <<seen, current, ar, tpc, mark, waitOn>>

(* On the chain and not being released: the request is refused.            *)
Bounced(g) ==
    /\ pc[g] = "search"
    /\ lock[want[g]] # Free /\ ~lock[want[g]].releasing
    /\ latch' = IF g \in Selectors THEN Nobody ELSE latch
    /\ pc' = [pc EXCEPT ![g] = "idle"]
    /\ want' = [want EXCEPT ![g] = Nobody]
    /\ UNCHANGED <<lock, seen, reqs, current, ar, tpc, mark, waitOn>>

(* Being released: register, under the chain's latch, and wait.            *)
RegisterInterest(g) ==
    /\ pc[g] = "search"
    /\ lock[want[g]].releasing
    /\ LET t == lock[want[g]].scope
       IN /\ ar' = [ar EXCEPT ![t].interest = @ + 1]
          /\ waitOn' = [waitOn EXCEPT ![g] = t]
    /\ pc' = [pc EXCEPT ![g] = "check"]
    /\ UNCHANGED <<lock, seen, reqs, current, tpc, mark, latch, want>>

(* Under the object's latch: sleep unless the event has fired.             *)
CheckEvent(g) ==
    /\ pc[g] = "check"
    /\ pc' = [pc EXCEPT ![g] = IF ar[waitOn[g]].fired THEN "woken" ELSE "asleep"]
    /\ UNCHANGED <<lock, seen, reqs, current, ar, tpc, mark, latch, want, waitOn>>

(* ielm_reduceAtomicReleaseInterestCount, and try again.                   *)
DropInterest(g) ==
    /\ pc[g] = "woken"
    /\ ar' = [ar EXCEPT ![waitOn[g]] = LessInterest(@)]
    /\ waitOn' = [waitOn EXCEPT ![g] = Nobody]
    /\ pc' = [pc EXCEPT ![g] = "search"]
    /\ UNCHANGED <<lock, seen, reqs, current, tpc, mark, latch, want>>

(* ielm_releaseLock of a request-duration lock: the block is unlinked from *)
(* the scope's chain, wherever in it it is.                                *)
Position(s, n) == CHOOSE i \in DOMAIN s : s[i] = n

StartRelease(g) ==
    /\ pc[g] = "has"
    /\ pc' = [pc EXCEPT ![g] = "release"]
    /\ UNCHANGED <<lock, seen, reqs, current, ar, tpc, mark, latch, want, waitOn>>

ReleaseLock(g) ==
    /\ pc[g] = "release"
    /\ latch = g
    /\ reqs' = [reqs EXCEPT ![Selection] = RemoveAt(@, Position(@, want[g]))]
    /\ lock' = [lock EXCEPT ![want[g]] = Free]
    /\ latch' = Nobody
    /\ pc' = [pc EXCEPT ![g] = "idle"]
    /\ want' = [want EXCEPT ![g] = Nobody]
    /\ UNCHANGED <<seen, current, ar, tpc, mark, waitOn>>

TranReleases(t) ==
    MarkReleasing(t) \/ ReleaseAllComplete(t) \/ Unlink(t) \/ AllUnlinked(t) \/ FireEvent(t)

TranStep(t) ==
    \/ \E n \in Names : TakeLock(t, n)
    \/ ReleaseAllBegin(t) \/ TranReleases(t) \/ FreeLockScope(t)

InRequest(g) ==
    Granted(g) \/ Bounced(g) \/ RegisterInterest(g) \/ CheckEvent(g) \/ DropInterest(g)

GetterStep(g) ==
    \/ \E n \in Names : RequestLock(g, n)
    \/ LatchScope(g) \/ InRequest(g) \/ StartRelease(g) \/ ReleaseLock(g)

Next ==
    \/ \E n \in Names : PutUnlocked(n)
    \/ \E t \in Trans : TranStep(t)
    \/ \E g \in Getters : GetterStep(g)

Spec == Init /\ [][Next]_vars

(* A thread inside the lock manager is never descheduled for ever.  Nothing *)
(* makes a transaction end, a request start or a spinning thread win.       *)
Fairness ==
    /\ \A t \in Trans : WF_vars(TranReleases(t))
    /\ \A g \in Getters : WF_vars(InRequest(g)) /\ WF_vars(ReleaseLock(g))

FairSpec == Spec /\ Fairness

----------------------------------------------------------------------------
Owned(t) == {n \in Names : lock[n].scope = t}

(***************************************************************************)
(* ielm_releaseAllLocksBegin/Complete: the locks of a transaction go       *)
(* together.  Once one of them can be granted to somebody, no request for  *)
(* another is refused: it is granted or made to wait.                      *)
(***************************************************************************)
ReleasedTogether ==
    \A t \in Trans :
        (tpc[t] \in {"releasing", "fire", "ended", "gone"})
            => \A n \in Owned(t) : lock[n].releasing

(***************************************************************************)
(* ielmAtomicRelease_t.InterestCount counts its users: the scope until it  *)
(* is freed, the locks until they are released, and each thread that       *)
(* registered and has not dropped its interest.                            *)
(***************************************************************************)
InterestCounted ==
    \A t \in Trans :
        ar[t].interest =
            Cardinality({g \in Getters : waitOn[g] = t})
              + (IF current[t] THEN 1 ELSE 0) + (IF tpc[t] # "gone" THEN 1 ELSE 0)

(***************************************************************************)
(* ielm_reduceAtomicReleaseInterestCount: an atomic release object is not  *)
(* freed while somebody sleeps on its event or is about to look at it,     *)
(* while the releasing thread has yet to fire it, or while a lock on a     *)
(* chain leads to it.                                                      *)
(***************************************************************************)
NoUseAfterFree ==
    \A t \in Trans :
        ar[t].freed => /\ \A g \in Getters : waitOn[g] # t
                       /\ tpc[t] = "gone"
                       /\ Owned(t) = {}

(***************************************************************************)
(* _local_releaseAllCompleteInternal: a lock on a hash chain belongs to a  *)
(* scope that still lists it, so nothing stays locked after its            *)
(* transaction has gone; the list holds nothing else.                      *)
(***************************************************************************)
ChainsMatchScopes ==
    \A s \in Trans \union {Selection} :
        {n \in Names : lock[n].scope = s} = {reqs[s][i] : i \in DOMAIN reqs[s]}

(***************************************************************************)
(* ielm_requestLock, ielm_instantLockWithCallback: a thread that looks for *)
(* a lock is answered, even though it may sleep holding the latch of the   *)
(* selection scope: the releasing transaction needs nothing it holds.      *)
(***************************************************************************)
RequestsAnswered ==
    \A g \in Getters : pc[g] = "search" ~> pc[g] \in {"idle", "has"}

(***************************************************************************)
(* An atomic release object is freed by the last of those it was counted   *)
(* for, and by nobody before.                                              *)
(***************************************************************************)
ReleaseObjectSafe == TypeOK /\ InterestCounted /\ NoUseAfterFree
=============================================================================

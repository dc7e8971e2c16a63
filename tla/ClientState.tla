---------------------------- MODULE ClientState ----------------------------
(***************************************************************************)
(* The client states of one client id: creation, stealing the id from a    *)
(* connected client, taking over a zombie, destruction, expiry, removal    *)
(* by the administrator, and what a restart makes of the record on disk    *)
(* (clientState.c, clientStateUtils.c, clientStateExpiry.c and the client  *)
(* state calls of engine.c).                                               *)
(*                                                                         *)
(* A client state is counted by UseCount.  Whoever takes over an id waits  *)
(* for the last reference of its victim: the thread that gives it up hands *)
(* the durable state (the client state record, CSR) over or destroys it,   *)
(* and then completes the thief's creation.  UseCountLock guards the       *)
(* decision which of these happens, the engine's mutex the decrement to    *)
(* zero; between the two the thread holds neither, so the decrement is an  *)
(* action of its own ("late").                                             *)
(*                                                                         *)
(* A completion is reported by the return code or by the callback,         *)
(* whichever the code picks; both are one report here.  Non-durable        *)
(* clients own no durable objects, and the store always has room.          *)
(***************************************************************************)
EXTENDS Naturals, FiniteSets, TLC

CONSTANTS
  Clients,     \* identities of client states, all of the same client id
  NoClient,    \* no client state, no record
  Requests,    \* the creation requests that occur
  Wills,       \* what will message a client leaves at its destruction
  Discards,    \* whether a destruction discards the durable state
  Expires,     \* whether disconnected durable clients expire
  Removes,     \* whether the administrator removes zombies
  MaxFinds,    \* bound: lookups of the client by other parts of the engine
  MaxCrashes   \* bound: crashes

DurabilityKinds == {"durable", "nondurable", "inheritOrDurable", "inheritOrNonDurable"}
WillKinds == {"none", "now", "delayed"}

ASSUME ClientsAssumption == IsFiniteSet(Clients) /\ NoClient \notin Clients
ASSUME RequestsAssumption ==
  Requests \subseteq [dur : DurabilityKinds, clean : BOOLEAN, steal : BOOLEAN]
ASSUME WillsAssumption == Wills \subseteq WillKinds
ASSUME FlagsAssumption ==
  Discards \subseteq BOOLEAN /\ Expires \in BOOLEAN /\ Removes \in BOOLEAN
ASSUME BoundsAssumption == MaxFinds \in Nat /\ MaxCrashes \in Nat

VARIABLES
  cs,      \* [Clients -> ClientRecord]: the client states in memory
  disk,    \* [Clients -> DiskStates]: the CSR each client wrote
  subs,    \* the subscriptions of the client id
  finds,   \* lookups so far
  crashes  \* crashes so far

vars == <<cs, disk, subs, finds, crashes>>

Zombies == {"Zombie", "ZombieRemoval", "ZombieExpiry", "ZombieCleanup"}
Alive == {"Active", "Disconnecting", "NonDurableCleanup"} \cup Zombies
OpStates == {"none", "Freeing", "freed"} \cup Alive
DiskStates == {"absent", "connected", "disconnected", "deleted"}
MaybeClient == Clients \cup {NoClient}
Subscriptions == [owner : Clients, durable : BOOLEAN]

(***************************************************************************)
(* The fields after "expires" say how far the operations under way on a    *)
(* client state have come, the last three what its owner was told.         *)
(***************************************************************************)
ClientRecord ==
  [st : OpStates, uses : Nat, thief : MaybeClient, csr : MaybeClient,
   durable : BOOLEAN, clean : BOOLEAN, discard : BOOLEAN, resumed : BOOLEAN,
   pend : BOOLEAN,      \* pPendingCreateCallbackFn is set
   stealFn : BOOLEAN,   \* pStealCallbackFn is set
   will : WillKinds,
   willTimed : BOOLEAN, \* WillDelayExpiryTime is set
   expires : BOOLEAN,   \* ExpiryTime is set
   add : {"no", "store", "lct", "tell", "release", "self"},
   own : BOOLEAN,       \* the creation holds a reference to its own client
   dst : {"no", "closing", "finish"},
   sess : BOOLEAN,
   cln : {"no", "will", "mark", "subs", "zombie"},
   left : SUBSET Subscriptions,
   late : Nat,          \* threads between the decision and the late decrement
   cmp : {"no", "csr", "store", "report", "tell", "release"},
   reap : SUBSET {"will", "expiry"},  \* what the reaper has still to do
   disc : BOOLEAN,      \* a removal has still to release its reference
   removed : BOOLEAN,   \* history: the administrator removed the client
   refs : Nat,          \* references of lookups
   told : BOOLEAN, reports : Nat,
   due : BOOLEAN]       \* pPendingDestroyCallbackFn is set

Blank ==
  [st |-> "none", uses |-> 0, thief |-> NoClient, csr |-> NoClient,
   durable |-> FALSE, clean |-> FALSE, discard |-> FALSE, resumed |-> FALSE,
   pend |-> FALSE, stealFn |-> FALSE, will |-> "none", willTimed |-> FALSE,
   expires |-> FALSE, add |-> "no", own |-> FALSE, dst |-> "no",
   sess |-> FALSE, cln |-> "no", left |-> {}, late |-> 0, cmp |-> "no",
   reap |-> {}, disc |-> FALSE, removed |-> FALSE, refs |-> 0, told |-> FALSE,
   reports |-> 0, due |-> FALSE]

Init ==
  /\ cs = [c \in Clients |-> Blank]
  /\ disk = [c \in Clients |-> "absent"]
  /\ subs = {}
  /\ finds = 0
  /\ crashes = 0

(***************************************************************************)
(* The client table: a client state is in it until its last reference is   *)
(* given up.  The scans for a clash pass over entries that have a thief.   *)
(***************************************************************************)
InTable(c) == cs[c].st \in Alive
Owners == {c \in Clients : InTable(c) /\ cs[c].thief = NoClient}
Victim(c) == CHOOSE v \in Clients : cs[v].thief = c

(***************************************************************************)
(* Releasing a reference.  T is the record of the thief (Blank, without    *)
(* one: the conditions below then do not look at it).                      *)
(***************************************************************************)
ThiefOf(c) == IF cs[c].thief = NoClient THEN Blank ELSE cs[cs[c].thief]

DropsDurableState(r, T) ==
  /\ r.csr # NoClient
  /\ r.thief = NoClient \/ T.clean \/ r.durable # T.durable

\* The durable state goes: mark the record, destroy every subscription.
StartZombieCleanup(r) ==
  [r EXCEPT !.uses = 1, !.discard = TRUE, !.st = "ZombieCleanup", !.cln = "mark"]

LateDecrementDue(r) == [r EXCEPT !.uses = 1, !.late = @ + 1]

Released(r, T) ==
  CASE r.uses = 1 ->
         IF r.st = "NonDurableCleanup" /\ DropsDurableState(r, T)
         THEN StartZombieCleanup(r)
         ELSE LateDecrementDue(r)
    [] r.uses = 2 /\ r.st = "Disconnecting" ->
         [r EXCEPT !.uses = 1, !.st = "NonDurableCleanup", !.cln = "will"]
    [] r.uses = 2 /\ r.st \in {"ZombieRemoval", "ZombieExpiry"} ->
         IF DropsDurableState(r, T) THEN StartZombieCleanup(r) ELSE LateDecrementDue(r)
    [] OTHER -> [r EXCEPT !.uses = @ - 1]

\* The record of c once the change r has been made to it and a reference is given up.
ReleasedAs(c, r) == Released(r, ThiefOf(c))

-----------------------------------------------------------------------------
(***************************************************************************)
(* Creation.  The whole decision is taken under the engine's mutex.        *)
(***************************************************************************)
WantsDurable(q) == q.dur \in {"durable", "inheritOrDurable"}

\* What durability a request gets that clashes with the record r.
ResolvedDurability(q, r) ==
  IF q.dur \in {"durable", "nondurable"} \/ q.clean \/ r.st = "ZombieCleanup"
  THEN WantsDurable(q)
  ELSE r.durable

NewClient(q, durable) ==
  [Blank EXCEPT !.st = "Active", !.uses = 1, !.durable = durable,
                !.clean = q.clean, !.stealFn = q.steal]

\* No clash: a durable client has to be stored, any other is there at once.
CreateNew(c, q) ==
  /\ cs[c].st = "none"
  /\ Owners = {}
  /\ LET r == NewClient(q, WantsDurable(q)) IN
     cs' = [cs EXCEPT ![c] =
              IF WantsDurable(q)
              THEN [r EXCEPT !.uses = 2, !.own = TRUE, !.csr = c, !.add = "store"]
              ELSE [r EXCEPT !.reports = 1]]
  /\ UNCHANGED <<disk, subs, finds, crashes>>

TakeZombie_Resumes(c, q, v, expired) ==
  LET r == cs[v]
      durable == ResolvedDurability(q, r)
      resumes == durable /\ r.durable /\ ~q.clean
  IN
  /\ cs[c].st = "none" /\ v \in Owners /\ r.st \in Zombies /\ ~expired
  /\ cs' = [cs EXCEPT
       ![c] = [NewClient(q, durable) EXCEPT
                 !.uses = IF resumes THEN 3 ELSE 2, !.own = resumes, !.pend = TRUE,
                 !.resumed = resumes, !.add = IF resumes THEN "lct" ELSE "release"],
       ![v] = [r EXCEPT !.thief = c, !.uses = @ + 1,
                        !.st = IF @ = "Zombie" THEN "ZombieRemoval" ELSE @]]
  /\ UNCHANGED <<disk, subs, finds, crashes>>

\* A zombie's state can be taken; expired says whether its time has passed.
TakeZombie(c, q, v, expired) ==
  LET r == cs[v]
      durable == ResolvedDurability(q, r)
      clean == q.clean \/ (durable /\ (~r.durable \/ expired))
      resumes == /\ durable /\ ~clean /\ ~r.discard
                 /\ r.st # "ZombieCleanup"
  IN
  /\ cs[c].st = "none"
  /\ v \in Owners
  /\ r.st \in Zombies
  /\ expired => durable /\ ~q.clean /\ r.durable /\ ~r.discard /\ r.expires
  /\ cs' = [cs EXCEPT
       ![c] = [NewClient(q, durable) EXCEPT
                 !.uses = IF resumes THEN 3 ELSE 2, !.own = resumes,
                 !.clean = clean, !.pend = TRUE, !.resumed = resumes,
                 !.add = IF resumes THEN "lct" ELSE "release"],
       ![v] = [r EXCEPT
                 !.thief = c, !.uses = @ + 1,
                 !.st = CASE @ # "Zombie" -> @
                          [] expired -> "ZombieExpiry"
                          [] OTHER -> "ZombieRemoval",
                 !.expires = IF r.st = "Zombie" THEN FALSE ELSE @]]
  /\ UNCHANGED <<disk, subs, finds, crashes>>

\* A client whose creation is still pending is told of the theft later, by
\* the thread that completes its creation.
StealActive(c, q, v) ==
  LET r == cs[v]
      durable == ResolvedDurability(q, r)
  IN
  /\ cs[c].st = "none"
  /\ v \in Owners
  /\ r.st \notin Zombies
  /\ q.steal /\ r.stealFn
  /\ cs' = [cs EXCEPT
       ![c] = [NewClient(q, durable) EXCEPT
                 !.uses = 2, !.pend = TRUE,
                 !.resumed = durable /\ ~q.clean /\ ~r.discard /\ r.durable,
                 !.add = IF r.pend THEN "release" ELSE "tell"],
       ![v] = [r EXCEPT !.thief = c, !.uses = @ + 1, !.stealFn = r.pend]]
  /\ UNCHANGED <<disk, subs, finds, crashes>>

\* The CSR of a new client is committed: it is there.
FinishStore(c) ==
  /\ cs[c].add = "store"
  /\ disk' = [disk EXCEPT ![c] = "connected"]
  /\ cs' = [cs EXCEPT ![c].reports = @ + 1, ![c].add = "self"]
  /\ UNCHANGED <<subs, finds, crashes>>

\* The CSR of the zombie is committed as connected again.
MarkConnected(c) ==
  LET v == Victim(c) IN
  /\ cs[c].add = "lct"
  /\ disk' = [disk EXCEPT ![cs[v].csr] = "connected"]
  /\ cs' = [cs EXCEPT ![v].expires = FALSE, ![c].add = "release"]
  /\ UNCHANGED <<subs, finds, crashes>>

\* The steal callback of the victim.
TellVictim(c) ==
  /\ cs[c].add = "tell"
  /\ cs' = [cs EXCEPT ![Victim(c)].told = TRUE, ![c].add = "release"]
  /\ UNCHANGED <<disk, subs, finds, crashes>>

ReleaseVictim_Reports(c) ==
  LET v == Victim(c) IN
  /\ cs[c].add = "release"
  /\ cs' = [cs EXCEPT ![v] = ReleasedAs(v, cs[v]),
                      ![c].pend = FALSE, ![c].reports = 1,
                      ![c].add = IF cs[c].own THEN "self" ELSE "no"]
  /\ UNCHANGED <<disk, subs, finds, crashes>>

ReleaseVictim(c) ==
  LET v == Victim(c) IN
  /\ cs[c].add = "release"
  /\ cs' = [cs EXCEPT ![v] = ReleasedAs(v, cs[v]),
                      ![c].add = IF cs[c].own THEN "self" ELSE "no"]
  /\ UNCHANGED <<disk, subs, finds, crashes>>

\* The last part of an asynchronous creation.
ReleaseSelf(c) ==
  /\ cs[c].add = "self"
  /\ cs' = [cs EXCEPT ![c] = ReleasedAs(c, [cs[c] EXCEPT !.add = "no", !.own = FALSE])]
  /\ UNCHANGED <<disk, subs, finds, crashes>>

-----------------------------------------------------------------------------
(***************************************************************************)
(* What a connected client does: sessions, subscriptions, and its end,     *)
(* which the protocol asks for on its own account or because it was told   *)
(* of a theft.                                                             *)
(***************************************************************************)
Connected(c) == cs[c].st = "Active" /\ cs[c].reports > 0

CreateSession(c) ==
  /\ Connected(c) /\ ~cs[c].sess
  /\ cs' = [cs EXCEPT ![c].sess = TRUE, ![c].uses = @ + 1]
  /\ UNCHANGED <<disk, subs, finds, crashes>>

Subscribe(c) ==
  LET s == [owner |-> c, durable |-> cs[c].durable] IN
  /\ Connected(c) /\ s \notin subs
  /\ subs' = subs \cup {s}
  /\ UNCHANGED <<cs, disk, finds, crashes>>

Destroy(c, discard, will) ==
  /\ Connected(c)
  /\ cs' = [cs EXCEPT ![c].st = "Disconnecting", ![c].uses = @ + 1,
                      ![c].discard = discard, ![c].due = TRUE,
                      ![c].will = will, ![c].dst = "closing"]
  /\ UNCHANGED <<disk, subs, finds, crashes>>

\* Whether the time of the disconnection is worth remembering.
KeepsDisconnectTime(c) ==
  /\ cs[c].durable \/ cs[c].will = "delayed"
  /\ cs[c].thief = NoClient \/ ~ThiefOf(c).clean
  /\ ~cs[c].discard

MarkDisconnected(c) ==
  /\ cs[c].dst = "closing"
  /\ LET r == [cs[c] EXCEPT !.dst = "finish"]
         timed == r.will = "delayed"
     IN IF KeepsDisconnectTime(c)
        THEN /\ cs' = [cs EXCEPT ![c] =
                         [r EXCEPT !.willTimed = timed,
                                   !.expires = IF r.durable THEN Expires ELSE timed]]
             /\ disk' = IF r.csr = NoClient THEN disk
                        ELSE [disk EXCEPT ![r.csr] = "disconnected"]
        ELSE cs' = [cs EXCEPT ![c] = r] /\ UNCHANGED disk
  /\ UNCHANGED <<subs, finds, crashes>>

FinishDestroy(c) ==
  /\ cs[c].dst = "finish"
  /\ cs' = [cs EXCEPT ![c] = ReleasedAs(c, [cs[c] EXCEPT !.dst = "no"])]
  /\ UNCHANGED <<disk, subs, finds, crashes>>

\* A session of a client being destroyed lets go of it when its deliveries end.
EndSession(c) ==
  /\ cs[c].sess /\ cs[c].st # "Active"
  /\ cs' = [cs EXCEPT ![c] = ReleasedAs(c, [cs[c] EXCEPT !.sess = FALSE])]
  /\ UNCHANGED <<disk, subs, finds, crashes>>

-----------------------------------------------------------------------------
(***************************************************************************)
(* Cleaning up: the will message, the subscriptions, and then a zombie or  *)
(* the end.                                                                *)
(***************************************************************************)
\* A will message that has no time set is published now.
PublishAndList(c) ==
  /\ cs[c].cln = "will"
  /\ cs' = [cs EXCEPT ![c].will = IF cs[c].willTimed THEN @ ELSE "none",
                      ![c].left = {s \in subs : ~s.durable},
                      ![c].cln = "subs"]
  /\ UNCHANGED <<disk, subs, finds, crashes>>

MarkDeleted_NonDurable(c) ==
  /\ cs[c].cln = "mark"
  /\ disk' = [disk EXCEPT ![cs[c].csr] = "deleted"]
  /\ cs' = [cs EXCEPT ![c].left = {s \in subs : ~s.durable}, ![c].cln = "subs"]
  /\ UNCHANGED <<subs, finds, crashes>>

\* The record is marked, so that a restart completes the removal.
MarkDeleted(c) ==
  /\ cs[c].cln = "mark"
  /\ disk' = [disk EXCEPT ![cs[c].csr] = "deleted"]
  /\ cs' = [cs EXCEPT ![c].left = subs, ![c].cln = "subs"]
  /\ UNCHANGED <<subs, finds, crashes>>

DestroySubscription(c) ==
  /\ cs[c].cln = "subs"
  /\ \E s \in cs[c].left :
       /\ subs' = subs \ {s}
       /\ cs' = [cs EXCEPT ![c].left = @ \ {s}]
  /\ UNCHANGED <<disk, finds, crashes>>

MakesZombie(r) ==
  /\ r.durable \/ r.will # "none"
  /\ ~r.discard
  /\ r.thief = NoClient
  /\ r.st = "NonDurableCleanup"

CompleteCleanup(c) ==
  /\ cs[c].cln = "subs" /\ cs[c].left = {}
  /\ cs' = [cs EXCEPT ![c] =
       IF MakesZombie(cs[c])
       THEN [cs[c] EXCEPT !.uses = @ + 1, !.st = "Zombie", !.stealFn = FALSE,
                          !.due = FALSE, !.cln = "zombie"]
       ELSE ReleasedAs(c, [cs[c] EXCEPT !.cln = "no"])]
  /\ UNCHANGED <<disk, subs, finds, crashes>>

ReleaseZombie(c) ==
  /\ cs[c].cln = "zombie"
  /\ cs' = [cs EXCEPT ![c] = ReleasedAs(c, [cs[c] EXCEPT !.cln = "no"])]
  /\ UNCHANGED <<disk, subs, finds, crashes>>

(***************************************************************************)
(* The late decrement, under the mutex: at zero the client leaves the      *)
(* table and what is left of its durable state becomes the thief's.        *)
(***************************************************************************)
HandsOver(r, T) ==
  r.st # "ZombieCleanup" /\ r.thief # NoClient /\ r.durable = T.durable

LateDecrement(c) ==
  LET r == [cs[c] EXCEPT !.uses = @ - 1, !.late = @ - 1]
      gone == [r EXCEPT !.st = "Freeing", !.cmp = "csr"]
  IN
  /\ cs[c].late > 0 /\ cs[c].uses > 0
  /\ cs' = CASE r.uses > 0 -> [cs EXCEPT ![c] = r]
             [] HandsOver(r, ThiefOf(c)) ->
                  [cs EXCEPT ![c] = [gone EXCEPT !.csr = NoClient],
                             ![r.thief].csr = r.csr]
             [] OTHER -> [cs EXCEPT ![c] = gone]
  /\ UNCHANGED <<disk, subs, finds, crashes>>

\* Of a freed client, who took it over, whether it was removed, and whether
\* its will was dropped is remembered.
Freed(r) == [Blank EXCEPT !.st = "freed", !.thief = r.thief, !.removed = r.removed,
                          !.will = r.will, !.late = r.late]

\* The record is deleted and the caller of the destroy is answered.
DeleteRecord(c) ==
  LET r == [cs[c] EXCEPT !.csr = NoClient, !.due = FALSE, !.cmp = "store"] IN
  /\ cs[c].cmp = "csr"
  /\ disk' = IF cs[c].csr = NoClient THEN disk
             ELSE [disk EXCEPT ![cs[c].csr] = "absent"]
  /\ cs' = [cs EXCEPT ![c] = IF r.thief = NoClient THEN Freed(r) ELSE r]
  /\ UNCHANGED <<subs, finds, crashes>>

\* A durable thief that inherited no record gets one.
StoreThief(c) ==
  LET t == cs[c].thief IN
  /\ cs[c].cmp = "store"
  /\ IF cs[t].durable /\ cs[t].csr = NoClient
     THEN /\ disk' = [disk EXCEPT ![t] = "connected"]
          /\ cs' = [cs EXCEPT ![t].csr = t, ![c].cmp = "report"]
     ELSE /\ cs' = [cs EXCEPT ![c].cmp = "report"]
          /\ UNCHANGED disk
  /\ UNCHANGED <<subs, finds, crashes>>

\* The thief's create callback; if its id has been stolen in turn, its
\* steal callback is the next to be called.
ReportThief(c) ==
  LET t == cs[c].thief
      stolen == cs[t].pend /\ cs[t].thief # NoClient
  IN
  /\ cs[c].cmp = "report"
  /\ cs' = [cs EXCEPT
       ![t] = [@ EXCEPT !.reports = IF cs[t].pend THEN @ + 1 ELSE @, !.pend = FALSE,
                        !.stealFn = IF stolen THEN FALSE ELSE @],
       ![c].cmp = IF stolen /\ cs[t].stealFn THEN "tell" ELSE "release"]
  /\ UNCHANGED <<disk, subs, finds, crashes>>

TellThief(c) ==
  /\ cs[c].cmp = "tell"
  /\ cs' = [cs EXCEPT ![cs[c].thief].told = TRUE, ![c].cmp = "release"]
  /\ UNCHANGED <<disk, subs, finds, crashes>>

FreeVictim(c) ==
  LET t == cs[c].thief IN
  /\ cs[c].cmp = "release"
  /\ cs' = [cs EXCEPT ![t] = ReleasedAs(t, cs[t]), ![c] = Freed(cs[c])]
  /\ UNCHANGED <<disk, subs, finds, crashes>>

-----------------------------------------------------------------------------
(***************************************************************************)
(* Others that act on a zombie or hold a client: the reaper (expiry and    *)
(* delayed will messages), the administrator, and lookups by client id.    *)
(* The reaper publishes a will message before, or when, the client expires.*)
(***************************************************************************)
Expire(c) ==
  /\ cs[c].st = "Zombie" /\ cs[c].expires /\ ~cs[c].willTimed
  /\ cs' = [cs EXCEPT ![c].uses = @ + 1, ![c].st = "ZombieExpiry",
                      ![c].expires = FALSE, ![c].reap = @ \cup {"expiry"}]
  /\ UNCHANGED <<disk, subs, finds, crashes>>

\* same: the will message is due at the very time the client expires.
WillDue(c, same) ==
  /\ cs[c].st = "Zombie" /\ cs[c].willTimed
  /\ same => cs[c].durable /\ cs[c].expires
  /\ cs' = [cs EXCEPT
       ![c].uses = @ + 1, ![c].willTimed = FALSE, ![c].reap = @ \cup {"will"},
       ![c].st = CASE ~cs[c].durable -> "ZombieRemoval"
                   [] same -> "ZombieExpiry"
                   [] OTHER -> @,
       ![c].expires = @ /\ cs[c].durable /\ ~same]
  /\ UNCHANGED <<disk, subs, finds, crashes>>

\* Both ways the reaper goes on: it publishes the will message, if that is
\* what it came for, and gives up its reference.  A publication may have to
\* wait for the store, and the client expire before it is done.
ReaperRelease(c) ==
  /\ \E why \in cs[c].reap :
       cs' = [cs EXCEPT ![c] =
         ReleasedAs(c, [cs[c] EXCEPT !.reap = @ \ {why},
                                     !.will = IF why = "will" THEN "none" ELSE @])]
  /\ UNCHANGED <<disk, subs, finds, crashes>>

RemoveZombie(c) ==
  /\ Removes
  /\ c \in Owners /\ cs[c].st = "Zombie"
  /\ cs' = [cs EXCEPT ![c].uses = @ + 1, ![c].st = "ZombieRemoval",
                      ![c].expires = FALSE, ![c].due = TRUE, ![c].disc = TRUE,
                      ![c].removed = TRUE]
  /\ UNCHANGED <<disk, subs, finds, crashes>>

ReleaseRemoved(c) ==
  /\ cs[c].disc
  /\ cs' = [cs EXCEPT ![c] = ReleasedAs(c, [cs[c] EXCEPT !.disc = FALSE])]
  /\ UNCHANGED <<disk, subs, finds, crashes>>

\* A lookup finds the victim with the most thieves, unless it is a zombie.
Find(c) ==
  /\ finds < MaxFinds
  /\ InTable(c) /\ cs[c].st # "Zombie"
  /\ \A v \in Clients : InTable(v) => cs[v].thief # c
  /\ cs' = [cs EXCEPT ![c].uses = @ + 1, ![c].refs = @ + 1]
  /\ finds' = finds + 1
  /\ UNCHANGED <<disk, subs, crashes>>

ReleaseFound(c) ==
  /\ cs[c].refs > 0
  /\ cs' = [cs EXCEPT ![c] = ReleasedAs(c, [cs[c] EXCEPT !.refs = @ - 1])]
  /\ UNCHANGED <<disk, subs, finds, crashes>>

(***************************************************************************)
(* A crash and the recovery that follows it, up to the point where the     *)
(* engine accepts clients.  A record becomes a zombie: one whose removal   *)
(* has been started again if the record is marked deleted, else one that   *)
(* was disconnected when the server last ran.  Of several records at most  *)
(* one may be unmarked; it keeps what belongs to the client id, and the    *)
(* others are deleted without touching it (fLeaveResourcesAtRestart).      *)
(***************************************************************************)
Records == {r \in Clients : disk[r] # "absent"}
Unmarked == {r \in Records : disk[r] # "deleted"}

Recovered(r) ==
  LET z == [Blank EXCEPT !.st = "Zombie", !.uses = 1, !.durable = TRUE, !.csr = r]
  IN IF disk[r] = "deleted"
     THEN [z EXCEPT !.discard = TRUE, !.st = "ZombieCleanup", !.cln = "mark"]
     ELSE [z EXCEPT !.expires = Expires]

CrashAndRecover ==
  /\ crashes < MaxCrashes
  /\ crashes' = crashes + 1
  /\ \E kept \in IF Records = {} THEN {NoClient}
                 ELSE IF Unmarked = {} THEN Records ELSE Unmarked :
       /\ cs' = [c \in Clients |-> IF c = kept THEN Recovered(c) ELSE Blank]
       /\ disk' = [c \in Clients |->
                     CASE c # kept -> "absent"
                       [] disk[c] = "deleted" -> "deleted"
                       [] OTHER -> "disconnected"]
       /\ subs' = IF \E s \in subs : s.durable /\ kept # NoClient
                  THEN {[owner |-> kept, durable |-> TRUE]} ELSE {}
  /\ UNCHANGED finds

-----------------------------------------------------------------------------
Create(c, q) ==
  \/ CreateNew(c, q)
  \/ \E v \in Clients, expired \in BOOLEAN : TakeZombie(c, q, v, expired)
  \/ \E v \in Clients : StealActive(c, q, v)

Creation(c) ==
  \/ FinishStore(c) \/ MarkConnected(c) \/ TellVictim(c) \/ ReleaseVictim(c)
  \/ ReleaseSelf(c)

Destruction(c) ==
  \/ MarkDisconnected(c) \/ FinishDestroy(c) \/ EndSession(c)
  \/ PublishAndList(c) \/ MarkDeleted(c) \/ DestroySubscription(c)
  \/ CompleteCleanup(c) \/ ReleaseZombie(c)
  \/ LateDecrement(c) \/ DeleteRecord(c) \/ StoreThief(c) \/ ReportThief(c)
  \/ TellThief(c) \/ FreeVictim(c)

Releases(c) == ReaperRelease(c) \/ ReleaseRemoved(c) \/ ReleaseFound(c)

EndClient(c) == \E d \in Discards, w \in Wills : Destroy(c, d, w)

Next ==
  \/ \E c \in Clients :
       \/ \E q \in Requests : Create(c, q)
       \/ Creation(c) \/ Destruction(c) \/ Releases(c)
       \/ CreateSession(c) \/ Subscribe(c) \/ EndClient(c)
       \/ Expire(c) \/ \E same \in BOOLEAN : WillDue(c, same)
       \/ RemoveZombie(c) \/ Find(c)
  \/ CrashAndRecover

Spec == Init /\ [][Next]_vars

-----------------------------------------------------------------------------
TypeOK ==
  /\ cs \in [Clients -> ClientRecord]
  /\ disk \in [Clients -> DiskStates]
  /\ subs \subseteq Subscriptions
  /\ finds \in 0..MaxFinds /\ crashes \in 0..MaxCrashes

(***************************************************************************)
(* While a client state waits for its victim its owner is told nothing, so *)
(* the clients of one id never overlap: whoever was told its client exists *)
(* has no victim left in the table, nobody is told twice, and at most one  *)
(* client state can be found by the next request for the id.               *)
(***************************************************************************)
OneClientAtATime ==
  /\ Cardinality(Owners) <= 1
  /\ \A c \in Clients : cs[c].reports <= 1
  /\ \A v, c \in Clients :
       cs[v].thief = c /\ cs[c].reports > 0 => ~InTable(v)

(***************************************************************************)
(* The assertions of the late decrement (clientState.c:2196-2198): it      *)
(* finds a reference to give up and a client state that is not being       *)
(* freed, so nothing that is still under way refers to a freed client.     *)
(***************************************************************************)
ReleasedOnce ==
  \A c \in Clients :
    /\ cs[c].late > 0 => cs[c].st \in Alive /\ cs[c].late <= cs[c].uses
    /\ cs[c].st \in {"Freeing", "freed"} =>
         /\ cs[c].add = "no" /\ cs[c].cln = "no" /\ cs[c].reap = {}
         /\ ~cs[c].disc /\ cs[c].refs = 0 /\ ~cs[c].sess

(***************************************************************************)
(* The durable state has one owner.  A connected durable client has a      *)
(* record that is not marked deleted, no two client states hold the same   *)
(* one, every record has a holder that will delete or hand it over, and    *)
(* all but one are marked deleted: recovery refuses a second unmarked      *)
(* record of a client id.                                                  *)
(***************************************************************************)
RecordOwned ==
  /\ Cardinality(Unmarked) <= 1
  /\ \A r \in Records : \E c \in Clients : cs[c].csr = r
  /\ \A c, d \in Clients : cs[c].csr = cs[d].csr /\ cs[c].csr # NoClient => c = d
  /\ \A c \in Clients : Connected(c) /\ cs[c].durable => cs[c].csr \in Unmarked

(***************************************************************************)
(* A durable subscription is never left behind without a record of its     *)
(* client: the record goes last, so a crash half way through a removal     *)
(* finds the mark and completes it.                                        *)
(***************************************************************************)
NoOrphanSubscriptions == (\E s \in subs : s.durable) => Records # {}

(***************************************************************************)
(* A client that was told OK, not that it resumed the state of another,    *)
(* starts without the subscriptions of earlier clients of the id.          *)
(***************************************************************************)
FreshMeansFresh ==
  \A c \in Clients : Connected(c) /\ ~cs[c].resumed => \A s \in subs : s.owner = c

(***************************************************************************)
(* A cleanup lists the subscriptions by client id: none that it is about   *)
(* to destroy belongs to, or was resumed by, a client that is connected.   *)
(***************************************************************************)
CleanupSparesOthers ==
  \A c, d \in Clients : cs[c].left # {} => ~Connected(d)

(***************************************************************************)
(* A will message that was not published when its client went is one whose *)
(* delay was cut short, by another client of the same id or by the         *)
(* administrator: the removal of a zombie goes on to the cleanup of its    *)
(* subscriptions, and the message is freed with the client state           *)
(* (clientState.c:2179-2182, 2573-2589).  No expiry, destruction or        *)
(* release drops one.                                                      *)
(***************************************************************************)
WillSettled ==
  \A c \in Clients :
    cs[c].st = "freed" /\ cs[c].will # "none" => cs[c].thief # NoClient \/ cs[c].removed

(***************************************************************************)
(* The record of a connected client says that it is connected: recovery    *)
(* computes the expiry of the client from what it says.                    *)
(***************************************************************************)
RecordedAsConnected ==
  \A c \in Clients : Connected(c) /\ cs[c].durable => disk[cs[c].csr] = "connected"

(***************************************************************************)
(* A mark of deletion is never taken back: the record is deleted, by the   *)
(* thread that marked it or after a restart.                               *)
(***************************************************************************)
DeletionIsFinal ==
  [][\A r \in Clients : disk[r] = "deleted" => disk'[r] \in {"deleted", "absent"}]_vars

(***************************************************************************)
(* No creation, destruction or removal is forgotten.  When nobody has a    *)
(* step left to take of its own accord - no creation, destruction or       *)
(* release, and no protocol told of a theft that has its client still to   *)
(* destroy - every request has been answered, and no record is left that   *)
(* was marked deleted.                                                     *)
(***************************************************************************)
Settled(c) ==
  /\ ~ENABLED (Creation(c) \/ Destruction(c) \/ Releases(c))
  /\ ~(cs[c].told /\ Connected(c))

NothingForgotten ==
  (\A c \in Clients : Settled(c)) =>
    \A c \in Clients : ~cs[c].pend /\ ~cs[c].due /\ disk[c] # "deleted"

(***************************************************************************)
(* The record in the store and the subscriptions it stands for have one    *)
(* owner, through takeovers, removals and restarts.                        *)
(***************************************************************************)
DurableStateOwned == TypeOK /\ RecordOwned /\ NoOrphanSubscriptions

(***************************************************************************)
(* Nothing that was begun is forgotten, no will message is dropped but by  *)
(* a takeover or by a removal of the administrator, and a mark of deletion *)
(* once written is carried out.                                            *)
(***************************************************************************)
EverythingSettled == []NothingForgotten /\ []WillSettled /\ DeletionIsFinal
=============================================================================
